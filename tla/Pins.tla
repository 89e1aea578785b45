-------------------------------- MODULE Pins --------------------------------
(***************************************************************************)
(* The services that use board pins directly, over the resource registry   *)
(* (Resources): GPIO (src/services/solar_os_gpio.c), PWM                   *)
(* (src/services/solar_os_pwm.c and src/drivers/pwm_port.c), ADC           *)
(* (src/services/solar_os_adc.c), and the flash tool, which holds its      *)
(* target's boot and reset pins under its own name                         *)
(* (src/services/solar_os_flash.c).                                        *)
(*                                                                         *)
(* None of these services has a lock of its own around a whole call: each  *)
(* registry call, each access to a pin and each section under pwm_mutex is *)
(* one action, and the calls of shells, scripts and jobs interleave.       *)
(***************************************************************************)
EXTENDS Resources

CONSTANTS
    Pin,          \* pins that direct GPIO may use
    InputOnly,    \* pins without an output driver
    PwmMax,       \* PWM_PORT_CHANNEL_COUNT
    User,         \* tasks that call the gpio, pwm and adc services
    Flasher,      \* tasks that run the flash tool
    FlashPins,    \* the pins its targets may use
    NoPin

GpioKey(p) == <<"gpio", p>>
PwmKey(p) == <<"pwm", p>>
AdcKey(p) == <<"adc", p>>
PinKeys == {GpioKey(p) : p \in Pin} \cup {PwmKey(p) : p \in Pin} \cup {AdcKey(p) : p \in Pin}

PwmBundle(p) == {GpioKey(p), PwmKey(p)}
AdcBundle(p) == {GpioKey(p), AdcKey(p)}
GpioKeys(P) == {GpioKey(p) : p \in P}
Targets == (SUBSET FlashPins) \ {{}}
PinBundles == {{GpioKey(p)} : p \in Pin} \cup {PwmBundle(p) : p \in Pin}
              \cup {AdcBundle(p) : p \in Pin} \cup {GpioKeys(P) : P \in Targets}

\* The names under which the services claim: one per pin for gpio and pwm,
\* one per pin and calling task for adc.  Fault: one per pin for adc.
GpioOwner(p) == <<"gpio", p>>
PwmOwner(p) == <<"pwm", p>>
AdcOwnerOfPin(p, t) == <<"adc", p>>
AdcOwner(p, t) == <<"adc", p, t>>
FlashOwner == <<"flash">>
PinOwners == {GpioOwner(p) : p \in Pin} \cup {PwmOwner(p) : p \in Pin}
             \cup {AdcOwner(p, t) : p \in Pin, t \in User} \cup {FlashOwner}

ASSUME PinsAssumption ==
    /\ PinKeys \subseteq Key
    /\ PinOwners \subseteq Owner
    /\ PinBundles \subseteq Bundle
    /\ InputOnly \subseteq Pin
    /\ FlashPins \subseteq Pin
    /\ PwmMax \in Nat
    /\ User \cap Flasher = {}
    /\ \A f, g \in Flasher : f = g       \* one flash operation at a time
    /\ NoPin \notin Pin

VARIABLES
    cfg,      \* gpio_slots: how the GPIO service drives each pin, "off" when
              \* not configured; the pin's hardware with it
    pwmOn,    \* the pins with an active PWM channel
    pc, fr    \* each task's call and its local variables

pinVars == <<claims, cfg, pwmOn, pc, fr>>

Task == User \cup Flasher

Frame == [pin : Pin \cup {NoPin}, mode : {"in", "out"}, here : BOOLEAN,
          target : SUBSET Pin, todo : SUBSET Pin]
NoFrame == [pin |-> NoPin, mode |-> "in", here |-> FALSE,
            target |-> {}, todo |-> {}]

UserPc == {"idle", "cfg_ours", "cfg_claim", "cfg_port", "cfg_undo",
           "rel_ours", "rel_reset", "rel_claim", "pwm_port", "pwm_stop",
           "pwm_release", "adc_read"}
FlasherPc == {"idle", "take", "write", "held", "drop", "drop_claim"}

Init == /\ TableInit
        /\ cfg = [p \in Pin |-> "off"]
        /\ pwmOn = {}
        /\ pc = [t \in Task |-> "idle"]
        /\ fr = [t \in Task |-> NoFrame]

Goto(t, l) == pc' = [pc EXCEPT ![t] = l]
Call(t, l, p) == Goto(t, l) /\ fr' = [fr EXCEPT ![t].pin = p]
Return(t) == Goto(t, "idle") /\ fr' = [fr EXCEPT ![t] = NoFrame]
At(t, l) == pc[t] = l
pin(t) == fr[t].pin

\* What gpio_port_configure and pwm_port_set refuse.
Drivable(p, m) == m = "out" => p \notin InputOnly
-----------------------------------------------------------------------------
(***************************************************************************)
(* gpio configure: look for a claim, then either look again whose it is or *)
(* claim, then set the pin up.  A claim made here is given back when the   *)
(* pin cannot be set up.                                                   *)
(***************************************************************************)
ConfigureFind(t, p, m) ==
    /\ At(t, "idle")
    /\ Goto(t, IF Claimed(GpioKey(p)) THEN "cfg_ours" ELSE "cfg_claim")
    /\ fr' = [fr EXCEPT ![t].pin = p, ![t].mode = m]
    /\ UNCHANGED <<claims, cfg, pwmOn>>

\* A read or a write of a pin that is not set up for it configures it first;
\* otherwise it goes to the hardware without a look at the claims.
GpioRead(t, p) == cfg[p] = "off" /\ ConfigureFind(t, p, "in")
GpioWrite(t, p) == cfg[p] # "out" /\ ConfigureFind(t, p, "out")

ConfigureOurs(t) ==
    /\ At(t, "cfg_ours")
    /\ IF ClaimedBy(GpioKey(pin(t)), GpioOwner(pin(t)))
       THEN Goto(t, "cfg_port") /\ UNCHANGED fr
       ELSE Return(t)
    /\ UNCHANGED <<claims, cfg, pwmOn>>

\* claimed_here is set even when another caller made the claim meanwhile.
ConfigureClaim(t) ==
    /\ At(t, "cfg_claim")
    /\ \/ /\ ClaimBundle({GpioKey(pin(t))}, GpioOwner(pin(t)))
          /\ Goto(t, "cfg_port")
          /\ fr' = [fr EXCEPT ![t].here = TRUE]
       \/ /\ ~Grants({GpioKey(pin(t))}, GpioOwner(pin(t)))
          /\ Return(t)
          /\ UNCHANGED claims
    /\ UNCHANGED <<cfg, pwmOn>>

ConfigurePort(t) ==
    /\ At(t, "cfg_port")
    /\ \/ /\ Drivable(pin(t), fr[t].mode)
          /\ cfg' = [cfg EXCEPT ![pin(t)] = fr[t].mode]
          /\ Return(t)
       \/ /\ ~Drivable(pin(t), fr[t].mode)
          /\ IF fr[t].here THEN Goto(t, "cfg_undo") /\ UNCHANGED fr ELSE Return(t)
          /\ UNCHANGED cfg
    /\ UNCHANGED <<claims, pwmOn>>

ConfigureUndo(t) ==
    /\ At(t, "cfg_undo")
    /\ ReleaseKey(GpioKey(pin(t)), GpioOwner(pin(t)))
    /\ Return(t)
    /\ UNCHANGED <<cfg, pwmOn>>

(***************************************************************************)
(* gpio release: refused for a pin another name has claimed.               *)
(***************************************************************************)
ReleaseFind(t, p) ==
    /\ At(t, "idle")
    /\ Call(t, IF Claimed(GpioKey(p)) THEN "rel_ours" ELSE "rel_reset", p)
    /\ UNCHANGED <<claims, cfg, pwmOn>>

ReleaseOurs(t) ==
    /\ At(t, "rel_ours")
    /\ IF ClaimedBy(GpioKey(pin(t)), GpioOwner(pin(t)))
       THEN Goto(t, "rel_reset") /\ UNCHANGED fr
       ELSE Return(t)
    /\ UNCHANGED <<claims, cfg, pwmOn>>

ReleaseReset(t) ==
    /\ At(t, "rel_reset")
    /\ cfg' = [cfg EXCEPT ![pin(t)] = "off"]
    /\ Goto(t, "rel_claim")
    /\ UNCHANGED <<claims, pwmOn, fr>>

ReleaseClaim(t) ==
    /\ At(t, "rel_claim")
    /\ ReleaseKey(GpioKey(pin(t)), GpioOwner(pin(t)))
    /\ Return(t)
    /\ UNCHANGED <<cfg, pwmOn>>
-----------------------------------------------------------------------------
(***************************************************************************)
(* pwm set and stop.  A pin that already has a channel keeps it; setting   *)
(* the timer fails for a frequency the clock cannot be divided to.  Any    *)
(* failure gives back everything the pin's pwm owner has.                  *)
(***************************************************************************)
PwmClaim(t, p) ==
    /\ At(t, "idle")
    /\ ClaimBundle(PwmBundle(p), PwmOwner(p))
    /\ Call(t, "pwm_port", p)
    /\ UNCHANGED <<cfg, pwmOn>>

PwmChannel(p) == p \in pwmOn \/ Cardinality(pwmOn) < PwmMax

\* Fault: a set that fails keeps its claims.
PwmPortNoRelease(t) ==
    /\ At(t, "pwm_port")
    /\ \/ /\ Drivable(pin(t), "out") /\ PwmChannel(pin(t))
          /\ pwmOn' = pwmOn \cup {pin(t)}
       \/ UNCHANGED pwmOn
    /\ Return(t)
    /\ UNCHANGED <<claims, cfg>>
PwmPort(t) ==
    /\ At(t, "pwm_port")
    /\ \/ /\ Drivable(pin(t), "out") /\ PwmChannel(pin(t))
          /\ pwmOn' = pwmOn \cup {pin(t)}
          /\ Return(t)
       \/ Goto(t, "pwm_release") /\ UNCHANGED <<pwmOn, fr>>
    /\ UNCHANGED <<claims, cfg>>

\* Fault: only the PWM key is given back.
PwmReleaseHalf(t) ==
    /\ At(t, "pwm_release")
    /\ ReleaseKey(PwmKey(pin(t)), PwmOwner(pin(t)))
    /\ Return(t)
    /\ UNCHANGED <<cfg, pwmOn>>
PwmRelease(t) ==
    /\ At(t, "pwm_release")
    /\ ReleaseOwner(PwmOwner(pin(t)))
    /\ Return(t)
    /\ UNCHANGED <<cfg, pwmOn>>

PwmStopFind(t, p) ==
    /\ At(t, "idle")
    /\ Claimed(GpioKey(p)) => ClaimedBy(GpioKey(p), PwmOwner(p))
    /\ Call(t, "pwm_stop", p)
    /\ UNCHANGED <<claims, cfg, pwmOn>>

PwmStopPort(t) ==
    /\ At(t, "pwm_stop")
    /\ IF pin(t) \in pwmOn THEN Goto(t, "pwm_release") /\ UNCHANGED fr ELSE Return(t)
    /\ pwmOn' = pwmOn \ {pin(t)}
    /\ UNCHANGED <<claims, cfg>>

(***************************************************************************)
(* adc read: claim, sample, release.                                       *)
(***************************************************************************)
AdcClaim(t, p) ==
    /\ At(t, "idle")
    /\ ClaimBundle(AdcBundle(p), AdcOwner(p, t))
    /\ Call(t, "adc_read", p)
    /\ UNCHANGED <<cfg, pwmOn>>

AdcRelease(t) ==
    /\ At(t, "adc_read")
    /\ ReleaseOwner(AdcOwner(pin(t), t))
    /\ Return(t)
    /\ UNCHANGED <<cfg, pwmOn>>
-----------------------------------------------------------------------------
(***************************************************************************)
(* The flash tool claims its target's boot and reset pins, or the one it   *)
(* has, as one bundle, makes each an output and writes it, and gives each  *)
(* back afterwards or when one of them fails.  A write to a pin that is no *)
(* longer an output would configure it as anybody's, which the flash       *)
(* tool's own claim refuses.                                               *)
(***************************************************************************)
FlashClaim(t) ==
    /\ At(t, "idle")
    /\ \E P \in Targets :
          /\ ClaimBundle(GpioKeys(P), FlashOwner)
          /\ fr' = [fr EXCEPT ![t].target = P, ![t].todo = P]
    /\ Goto(t, "take")
    /\ UNCHANGED <<cfg, pwmOn>>

FlashTake(t) ==
    /\ At(t, "take")
    /\ \E p \in fr[t].todo :
          \/ /\ ClaimedBy(GpioKey(p), FlashOwner) /\ Drivable(p, "out")
             /\ cfg' = [cfg EXCEPT ![p] = "out"]
             /\ Call(t, "write", p)
          \/ /\ ~(ClaimedBy(GpioKey(p), FlashOwner) /\ Drivable(p, "out"))
             /\ Goto(t, "drop")
             /\ fr' = [fr EXCEPT ![t].todo = fr[t].target]
             /\ UNCHANGED cfg
    /\ UNCHANGED <<claims, pwmOn>>

FlashWrite(t) ==
    /\ At(t, "write")
    /\ LET left == fr[t].todo \ {pin(t)} IN
       IF cfg[pin(t)] = "out"
       THEN /\ Goto(t, IF left = {} THEN "held" ELSE "take")
            /\ fr' = [fr EXCEPT ![t].todo = left]
       ELSE /\ Goto(t, "drop")
            /\ fr' = [fr EXCEPT ![t].todo = fr[t].target]
    /\ UNCHANGED <<claims, cfg, pwmOn>>

FlashDone(t) ==
    /\ At(t, "held")
    /\ Goto(t, "drop")
    /\ fr' = [fr EXCEPT ![t].todo = fr[t].target]
    /\ UNCHANGED <<claims, cfg, pwmOn>>

\* solar_os_gpio_release_owned: the pin is reset only while it is claimed.
FlashDrop(t) ==
    /\ At(t, "drop")
    /\ \E p \in fr[t].todo :
          /\ ClaimedBy(GpioKey(p), FlashOwner)
          /\ cfg' = [cfg EXCEPT ![p] = "off"]
          /\ Call(t, "drop_claim", p)
    /\ UNCHANGED <<claims, pwmOn>>

FlashDropClaim(t) ==
    /\ At(t, "drop_claim")
    /\ ReleaseKey(GpioKey(pin(t)), FlashOwner)
    /\ LET left == fr[t].todo \ {pin(t)} IN
       IF left = {} THEN Return(t)
       ELSE Goto(t, "drop") /\ fr' = [fr EXCEPT ![t].todo = left]
    /\ UNCHANGED <<cfg, pwmOn>>
-----------------------------------------------------------------------------
UserStep(t) ==
    \/ \E p \in Pin : \/ \E m \in {"in", "out"} : ConfigureFind(t, p, m)
                      \/ GpioRead(t, p) \/ GpioWrite(t, p)
                      \/ ReleaseFind(t, p)
                      \/ PwmClaim(t, p) \/ PwmStopFind(t, p)
                      \/ AdcClaim(t, p)
    \/ ConfigureOurs(t) \/ ConfigureClaim(t) \/ ConfigurePort(t) \/ ConfigureUndo(t)
    \/ ReleaseOurs(t) \/ ReleaseReset(t) \/ ReleaseClaim(t)
    \/ PwmPort(t) \/ PwmRelease(t) \/ PwmStopPort(t)
    \/ AdcRelease(t)

FlasherStep(t) ==
    \/ FlashClaim(t) \/ FlashTake(t) \/ FlashWrite(t) \/ FlashDone(t)
    \/ FlashDrop(t) \/ FlashDropClaim(t)

Next == (\E t \in User : UserStep(t)) \/ (\E t \in Flasher : FlasherStep(t))

Spec == Init /\ [][Next]_pinVars
-----------------------------------------------------------------------------
TypeOK == /\ TableTypeOK
          /\ cfg \in [Pin -> {"off", "in", "out"}]
          /\ pwmOn \in SUBSET Pin
          /\ Cardinality(pwmOn) <= PwmMax
          /\ pc \in [Task -> UserPc \cup FlasherPc]
          /\ fr \in [Task -> Frame]

\* A pwm owner has both keys of its pin or neither, whatever mixture of set,
\* failed set and stop of that pin is under way.
PwmWhole == \A p \in Pin : ClaimedBy(GpioKey(p), PwmOwner(p))
                            <=> ClaimedBy(PwmKey(p), PwmOwner(p))

\* What a task claimed under a name nobody else uses stays its own until the
\* task gives it back: a reader of the adc has the pin to itself for the
\* whole sample, and the flash tool has each pin it has not dropped yet.
OwnClaimsKept ==
    /\ \A t \in User : At(t, "adc_read") =>
          \A k \in AdcBundle(pin(t)) : ClaimedBy(k, AdcOwner(pin(t), t))
    /\ \A t \in Flasher :
          /\ pc[t] \in {"take", "write", "held"} =>
                \A p \in fr[t].target : ClaimedBy(GpioKey(p), FlashOwner)
          /\ pc[t] \in {"drop", "drop_claim"} =>
                \A p \in fr[t].todo : ClaimedBy(GpioKey(p), FlashOwner)

Quiet == \A t \in Task : At(t, "idle")

\* No call leaves a claim behind: when no call is under way, a pin claimed for
\* gpio is set up, a pin claimed for pwm has a channel, and nothing else is
\* claimed.
ClaimsExplained ==
    Quiet => \A e \in Entry : Active(e) =>
        \E p \in Pin :
            \/ claims[e].owner = GpioOwner(p) /\ claims[e].key = GpioKey(p) /\ cfg[p] # "off"
            \/ claims[e].owner = PwmOwner(p) /\ claims[e].key \in PwmBundle(p) /\ p \in pwmOn

\* What the manual says of a runtime GPIO: "Claimed while a service or attached
\* device uses it".  When no call is under way, a pin that is set up or driven
\* by a channel is claimed.
UsedPinsClaimed ==
    Quiet => \A p \in Pin : cfg[p] # "off" \/ p \in pwmOn => Claimed(GpioKey(p))
=============================================================================
