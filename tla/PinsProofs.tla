------------------------------ MODULE PinsProofs ------------------------------
(***************************************************************************)
(* Proofs about the services that use pins (Pins), for any number of pins, *)
(* users, channels and entries.  The table of claims is only looked at     *)
(* through the relation ClaimedBy: who has which key.                      *)
(***************************************************************************)
EXTENDS Pins, ResourcesProofs, FiniteSetTheorems

-----------------------------------------------------------------------------
(***************************************************************************)
(* What each call of the registry does to ClaimedBy.                       *)
(***************************************************************************)
\* A granted bundle becomes its owner's, and nothing else changes.
LEMMA BundleClaimed ==
    ASSUME TableInv, NEW B \in SUBSET Key, NEW o \in Owner, ClaimBundle(B, o)
    PROVE  \A k, x : ClaimedBy(k, x)' <=> ClaimedBy(k, x) \/ (k \in B /\ x = o)
<1>. USE DEF TableInv
<1>1. ASSUME NEW k, NEW x, ClaimedBy(k, x)' PROVE ClaimedBy(k, x) \/ (k \in B /\ x = o)
  <2>1. PICK e \in Entry : Active(e)' /\ claims'[e].key = k /\ claims'[e].owner = x
    BY <1>1 DEF ClaimedBy, EntriesOf
  <2>2. CASE Active(e)
    BY <2>1, <2>2, BundleEntries DEF ClaimedBy, EntriesOf
  <2>3. CASE ~Active(e)
    <3>1. PICK j \in Missing(B) : claims'[e] = [key |-> j, owner |-> o]
      BY <2>1, <2>3, BundleEntries DEF Active
    <3>. QED  BY <2>1, <3>1 DEF Missing
  <2>. QED  BY <2>2, <2>3
<1>2. ASSUME NEW k, NEW x, ClaimedBy(k, x) PROVE ClaimedBy(k, x)'
  BY <1>2, BundleEntries DEF ClaimedBy, EntriesOf, Active
<1>3. ASSUME NEW k \in B PROVE ClaimedBy(k, o)'
  <2>1. CASE Claimed(k)
    <3>1. PICK e \in EntriesOf(k) : TRUE
      BY <2>1 DEF Claimed
    <3>2. claims[e].owner = o
      BY <3>1, BundleEntries DEF Conflict
    <3>. QED  BY <1>2, <3>1, <3>2 DEF ClaimedBy
  <2>2. CASE ~Claimed(k)
    <3>1. PICK e \in Entry : claims'[e] = [key |-> k, owner |-> o]
      BY <2>2, BundleEntries DEF Missing
    <3>2. claims'[e] # NoClaim
      BY <3>1, ResourcesAssumption
    <3>. QED  BY <3>1, <3>2 DEF ClaimedBy, EntriesOf, Active
  <2>. QED  BY <2>1, <2>2
<1>. QED  BY <1>1, <1>2, <1>3

\* Releasing a key takes it from its owner only.
LEMMA KeyReleased ==
    ASSUME NEW j, NEW o, ReleaseKey(j, o)
    PROVE  \A k, x : ClaimedBy(k, x)' <=> ClaimedBy(k, x) /\ ~(k = j /\ x = o)
BY DEF ReleaseKey, ClaimedBy, EntriesOf, Active

\* Releasing an owner takes every key from it and no other.
LEMMA OwnerReleased ==
    ASSUME NEW o, ReleaseOwner(o)
    PROVE  \A k, x : ClaimedBy(k, x)' <=> ClaimedBy(k, x) /\ x # o
BY DEF ReleaseOwner, ClaimedBy, EntriesOf, Active

\* A step that leaves the table alone leaves its owners alone.
LEMMA NothingClaimed ==
    ASSUME UNCHANGED claims
    PROVE  /\ \A k, x : ClaimedBy(k, x)' <=> ClaimedBy(k, x)
           /\ TableInv => TableInv'
BY DEF ClaimedBy, EntriesOf, Active, TableInv, TableTypeOK, OneEntryPerKey

\* No key is claimed by two owners.
LEMMA ClaimedOnce ==
    ASSUME TableInv, NEW k, NEW x, NEW y, ClaimedBy(k, x), ClaimedBy(k, y)
    PROVE  x = y
BY DEF TableInv, OneEntryPerKey, ClaimedBy, EntriesOf

\* What is claimed are resources, by owners.
LEMMA ClaimedTypes ==
    ASSUME TableInv, NEW k, NEW x, ClaimedBy(k, x)
    PROVE  k \in Key /\ x \in Owner
BY DEF TableInv, TableTypeOK, ClaimedBy, EntriesOf, Active, Claim
-----------------------------------------------------------------------------
(***************************************************************************)
(* The names and the bundles of the services.                              *)
(***************************************************************************)
\* No two services use one owner name, nor two pins, nor two readers of a pin.
LEMMA OwnersDiffer ==
    /\ \A p, q : GpioOwner(p) = GpioOwner(q) => p = q
    /\ \A p, q : PwmOwner(p) = PwmOwner(q) => p = q
    /\ \A p, q, t, u : AdcOwner(p, t) = AdcOwner(q, u) => p = q /\ t = u
    /\ \A p, q, t : /\ GpioOwner(p) # PwmOwner(q)
                    /\ GpioOwner(p) # AdcOwner(q, t) /\ PwmOwner(p) # AdcOwner(q, t)
                    /\ FlashOwner \notin {GpioOwner(p), PwmOwner(p), AdcOwner(p, t)}
BY DEF GpioOwner, PwmOwner, AdcOwner, FlashOwner

\* Nor do two pins, or two uses of a pin, share a key.
LEMMA KeysDiffer ==
    /\ \A p, q : GpioKey(p) = GpioKey(q) => p = q
    /\ \A p, q : PwmKey(p) = PwmKey(q) => p = q
    /\ \A p, q : GpioKey(p) # PwmKey(q) /\ GpioKey(p) # AdcKey(q)
BY DEF GpioKey, PwmKey, AdcKey

\* What the services claim, and under which names, the registry knows.
LEMMA NamesKnown ==
    /\ \A p \in Pin : /\ GpioKey(p) \in Key /\ PwmKey(p) \in Key
                      /\ GpioOwner(p) \in Owner /\ PwmOwner(p) \in Owner
                      /\ {GpioKey(p)} \in Bundle /\ PwmBundle(p) \in Bundle /\ AdcBundle(p) \in Bundle
    /\ \A p \in Pin, t \in User : AdcOwner(p, t) \in Owner
    /\ FlashOwner \in Owner
    /\ \A P \in Targets : GpioKeys(P) \in Bundle
    /\ \A B \in Bundle : B \in SUBSET Key
<1>1. /\ PinKeys \subseteq Key /\ PinOwners \subseteq Owner /\ PinBundles \subseteq Bundle
      /\ Bundle \subseteq SUBSET Key
  BY PinsAssumption, ResourcesAssumption
<1>2. \A p \in Pin : GpioKey(p) \in Key /\ PwmKey(p) \in Key
  BY <1>1 DEF PinKeys
<1>3. \A p \in Pin : GpioOwner(p) \in Owner /\ PwmOwner(p) \in Owner
  BY <1>1 DEF PinOwners
<1>4. \A p \in Pin : {GpioKey(p)} \in Bundle /\ PwmBundle(p) \in Bundle /\ AdcBundle(p) \in Bundle
  BY <1>1 DEF PinBundles
<1>5. \A p \in Pin, t \in User : AdcOwner(p, t) \in Owner
  BY <1>1 DEF PinOwners
<1>6. FlashOwner \in Owner
  BY <1>1 DEF PinOwners
<1>7. \A P \in Targets : GpioKeys(P) \in Bundle
  BY <1>1 DEF PinBundles
<1>. QED  BY <1>1, <1>2, <1>3, <1>4, <1>5, <1>6, <1>7
-----------------------------------------------------------------------------
(***************************************************************************)
(* Types, and the pin a call is about.                                     *)
(***************************************************************************)
CallTypes == pc \in [Task -> UserPc \cup FlasherPc] /\ fr \in [Task -> Frame]

PinTypes == /\ cfg \in [Pin -> {"off", "in", "out"}]
            /\ pwmOn \in SUBSET Pin
            /\ IsFiniteSet(pwmOn) /\ Cardinality(pwmOn) <= PwmMax

\* A user in a call has a pin; the flash tool has the pins of its target, those
\* still to be done, and between two steps of one of them that pin.
UserCall(t) == pc[t] \in UserPc /\ (pc[t] # "idle" => pin(t) \in Pin)
FlashCall(t) ==
    /\ pc[t] \in FlasherPc
    /\ fr[t].target \in SUBSET FlashPins
    /\ fr[t].todo \in SUBSET fr[t].target
    /\ pc[t] \in {"write", "drop_claim"} => pin(t) \in fr[t].todo
CallsOK == (\A t \in User : UserCall(t)) /\ (\A t \in Flasher : FlashCall(t))

Basics == TableInv /\ CallTypes /\ PinTypes /\ CallsOK

\* A step of a task moves no other task.
OthersStay(t) == \A u \in Task \ {t} : pc'[u] = pc[u] /\ fr'[u] = fr[u]

\* A step inside a call leaves the locals alone or is its last.
LEMMA UserAdvances ==
    ASSUME CallTypes, NEW t \in User, UserCall(t), pc[t] # "idle", NEW l \in UserPc,
           \/ Goto(t, l) /\ fr' = fr
           \/ Goto(t, l) /\ fr' = [fr EXCEPT ![t].here = TRUE]
           \/ Return(t)
    PROVE  CallTypes' /\ UserCall(t)' /\ OthersStay(t)
<1>. USE DEF CallTypes, UserCall, OthersStay, Task, Frame, Goto, pin
<1>1. CASE Goto(t, l) /\ fr' = fr
  BY <1>1
<1>2. CASE Goto(t, l) /\ fr' = [fr EXCEPT ![t].here = TRUE]
  BY <1>2
<1>3. CASE Return(t)
  BY <1>3 DEF Return, NoFrame, UserPc
<1>. QED  BY <1>1, <1>2, <1>3

\* Every step of a user moves that user alone, and keeps what its call knows.
LEMMA UserMoves ==
    ASSUME Basics, NEW t \in User, UserStep(t)
    PROVE  CallTypes' /\ UserCall(t)' /\ OthersStay(t)
<1>. USE DEF Basics, CallsOK
<1>1. ASSUME NEW p \in Pin, NEW m \in {"in", "out"}, ConfigureFind(t, p, m)
      PROVE  CallTypes' /\ UserCall(t)' /\ OthersStay(t)
  <2>1. \E l \in UserPc \ {"idle"} : Goto(t, l)
    BY <1>1 DEF ConfigureFind, UserPc
  <2>2. fr' = [fr EXCEPT ![t].pin = p, ![t].mode = m]
    BY <1>1 DEF ConfigureFind
  <2>3. fr' = [fr EXCEPT ![t] = [fr[t] EXCEPT !.pin = p, !.mode = m]]
    BY <2>2
  <2>4. [fr[t] EXCEPT !.pin = p, !.mode = m] \in Frame /\ [fr[t] EXCEPT !.pin = p, !.mode = m].pin = p
    BY DEF CallTypes, Frame, Task
  <2>5. t \in Task
    BY DEF Task
  <2>6. fr' \in [Task -> Frame] /\ fr'[t].pin = p /\ (\A u \in Task \ {t} : fr'[u] = fr[u])
    BY <2>3, <2>4, <2>5 DEF CallTypes
  <2>7. pc' \in [Task -> UserPc \cup FlasherPc] /\ pc'[t] \in UserPc /\ (\A u \in Task \ {t} : pc'[u] = pc[u])
    BY <2>1, <2>5 DEF CallTypes, Goto
  <2>. QED  BY <2>6, <2>7 DEF CallTypes, UserCall, OthersStay, pin
<1>2. ASSUME NEW p \in Pin, ReleaseFind(t, p)
      PROVE  CallTypes' /\ UserCall(t)' /\ OthersStay(t)
  <2>1. \E l \in UserPc \ {"idle"} : Goto(t, l)
    BY <1>2 DEF ReleaseFind, Call, UserPc
  <2>2. fr' = [fr EXCEPT ![t].pin = p]
    BY <1>2 DEF ReleaseFind, Call
  <2>. QED  BY <2>1, <2>2 DEF CallTypes, UserCall, OthersStay, Task, Frame, Goto, pin
<1>3. ASSUME NEW p \in Pin, PwmClaim(t, p)
      PROVE  CallTypes' /\ UserCall(t)' /\ OthersStay(t)
  <2>1. \E l \in UserPc \ {"idle"} : Goto(t, l)
    BY <1>3 DEF PwmClaim, Call, UserPc
  <2>2. fr' = [fr EXCEPT ![t].pin = p]
    BY <1>3 DEF PwmClaim, Call
  <2>. QED  BY <2>1, <2>2 DEF CallTypes, UserCall, OthersStay, Task, Frame, Goto, pin
<1>4. ASSUME NEW p \in Pin, PwmStopFind(t, p)
      PROVE  CallTypes' /\ UserCall(t)' /\ OthersStay(t)
  <2>1. \E l \in UserPc \ {"idle"} : Goto(t, l)
    BY <1>4 DEF PwmStopFind, Call, UserPc
  <2>2. fr' = [fr EXCEPT ![t].pin = p]
    BY <1>4 DEF PwmStopFind, Call
  <2>. QED  BY <2>1, <2>2 DEF CallTypes, UserCall, OthersStay, Task, Frame, Goto, pin
<1>5. ASSUME NEW p \in Pin, AdcClaim(t, p)
      PROVE  CallTypes' /\ UserCall(t)' /\ OthersStay(t)
  <2>1. \E l \in UserPc \ {"idle"} : Goto(t, l)
    BY <1>5 DEF AdcClaim, Call, UserPc
  <2>2. fr' = [fr EXCEPT ![t].pin = p]
    BY <1>5 DEF AdcClaim, Call
  <2>. QED  BY <2>1, <2>2 DEF CallTypes, UserCall, OthersStay, Task, Frame, Goto, pin
<1>6. CASE ConfigureOurs(t)
  BY <1>6, UserAdvances DEF ConfigureOurs, At, UserPc
<1>7. CASE ConfigureClaim(t)
  BY <1>7, UserAdvances DEF ConfigureClaim, At, UserPc
<1>8. CASE ConfigurePort(t)
  BY <1>8, UserAdvances DEF ConfigurePort, At, UserPc
<1>9. CASE ConfigureUndo(t)
  BY <1>9, UserAdvances DEF ConfigureUndo, At, UserPc
<1>10. CASE ReleaseOurs(t)
  BY <1>10, UserAdvances DEF ReleaseOurs, At, UserPc
<1>11. CASE ReleaseReset(t)
  BY <1>11, UserAdvances DEF ReleaseReset, At, UserPc
<1>12. CASE ReleaseClaim(t)
  BY <1>12, UserAdvances DEF ReleaseClaim, At, UserPc
<1>13. CASE PwmPort(t)
  BY <1>13, UserAdvances DEF PwmPort, At, UserPc
<1>14. CASE PwmRelease(t)
  BY <1>14, UserAdvances DEF PwmRelease, At, UserPc
<1>15. CASE PwmStopPort(t)
  BY <1>15, UserAdvances DEF PwmStopPort, At, UserPc
<1>16. CASE AdcRelease(t)
  BY <1>16, UserAdvances DEF AdcRelease, At, UserPc
<1>. QED  BY <1>1, <1>2, <1>3, <1>4, <1>5, <1>6, <1>7, <1>8, <1>9, <1>10, <1>11, <1>12, <1>13, <1>14, <1>15, <1>16
         DEF UserStep, GpioRead, GpioWrite
\* The same of the flash tool, whatever it puts into its locals.
LEMMA FlasherAdvances ==
    ASSUME CallTypes, NEW t \in Flasher, NEW l \in FlasherPc, NEW g \in Frame,
           Goto(t, l), fr' = [fr EXCEPT ![t] = g],
           g.target \subseteq FlashPins, g.todo \subseteq g.target,
           l \in {"write", "drop_claim"} => g.pin \in g.todo
    PROVE  CallTypes' /\ FlashCall(t)' /\ OthersStay(t)
BY DEF CallTypes, FlashCall, OthersStay, Task, Goto, pin

\* Every step of the flash tool keeps its target and what is left of it.
LEMMA FlasherMoves ==
    ASSUME Basics, NEW t \in Flasher, FlasherStep(t)
    PROVE  CallTypes' /\ FlashCall(t)' /\ OthersStay(t)
<1>. USE DEF Basics
<1>1. CallTypes /\ fr[t] \in Frame /\ fr[t].target \subseteq FlashPins /\ fr[t].todo \subseteq fr[t].target
  BY DEF CallTypes, CallsOK, FlashCall, Task
<1>2. FlashPins \subseteq Pin
  BY PinsAssumption
<1>3. ASSUME NEW l \in {"take", "held", "drop"}, NEW P \in SUBSET FlashPins, NEW D \in SUBSET P,
             Goto(t, l), fr' = [fr EXCEPT ![t].target = P, ![t].todo = D]
      PROVE  CallTypes' /\ FlashCall(t)' /\ OthersStay(t)
  <2>. DEFINE g == [fr[t] EXCEPT !.target = P, !.todo = D]
  <2>1. fr' = [fr EXCEPT ![t] = g]
    BY <1>3
  <2>2. g \in Frame /\ g.target = P /\ g.todo = D
    BY <1>1, <1>2 DEF Frame
  <2>. HIDE DEF g
  <2>. QED  BY <1>1, <1>3, <2>1, <2>2, FlasherAdvances DEF FlasherPc
<1>4. ASSUME NEW l \in {"take", "held", "drop"}, NEW D \in SUBSET fr[t].target,
             Goto(t, l), fr' = [fr EXCEPT ![t].todo = D]
      PROVE  CallTypes' /\ FlashCall(t)' /\ OthersStay(t)
  <2>. DEFINE g == [fr[t] EXCEPT !.todo = D]
  <2>1. fr' = [fr EXCEPT ![t] = g]
    BY <1>4
  <2>2. g \in Frame /\ g.target = fr[t].target /\ g.todo = D
    BY <1>1, <1>2 DEF Frame
  <2>. HIDE DEF g
  <2>. QED  BY <1>1, <1>4, <2>1, <2>2, FlasherAdvances DEF FlasherPc
<1>5. ASSUME NEW l \in {"write", "drop_claim"}, NEW p \in fr[t].todo, Call(t, l, p)
      PROVE  CallTypes' /\ FlashCall(t)' /\ OthersStay(t)
  <2>. DEFINE g == [fr[t] EXCEPT !.pin = p]
  <2>1. fr' = [fr EXCEPT ![t] = g] /\ Goto(t, l)
    BY <1>5 DEF Call
  <2>2. g \in Frame /\ g.target = fr[t].target /\ g.todo = fr[t].todo /\ g.pin = p
    BY <1>1, <1>2 DEF Frame
  <2>. HIDE DEF g
  <2>. QED  BY <1>1, <1>5, <2>1, <2>2, FlasherAdvances DEF FlasherPc
<1>6. CASE FlashClaim(t)
  BY <1>3, <1>6 DEF FlashClaim, Targets
<1>7. CASE FlashTake(t)
  BY <1>1, <1>4, <1>5, <1>7 DEF FlashTake
<1>8. CASE FlashWrite(t)
  BY <1>1, <1>4, <1>8 DEF FlashWrite
<1>9. CASE FlashDone(t)
  BY <1>1, <1>4, <1>9 DEF FlashDone
<1>10. CASE FlashDrop(t)
  BY <1>1, <1>5, <1>10 DEF FlashDrop
<1>11. CASE FlashDropClaim(t)
  <2>1. CASE Return(t)
    <3>1. NoFrame \in Frame /\ NoFrame.target = {} /\ NoFrame.todo = {}
      BY DEF NoFrame, Frame
    <3>2. Goto(t, "idle") /\ fr' = [fr EXCEPT ![t] = NoFrame]
      BY <2>1 DEF Return
    <3>. QED  BY <1>1, <3>1, <3>2, FlasherAdvances DEF FlasherPc
  <2>2. CASE ~Return(t)
    BY <1>1, <1>4, <1>11, <2>2 DEF FlashDropClaim
  <2>. QED  BY <2>1, <2>2
<1>. QED  BY <1>6, <1>7, <1>8, <1>9, <1>10, <1>11 DEF FlasherStep

\* So no step confuses the locals of two calls.
LEMMA CallsMove ==
    ASSUME Basics, [Next]_pinVars
    PROVE  CallTypes' /\ CallsOK'
<1>1. User \cap Flasher = {} /\ User \subseteq Task /\ Flasher \subseteq Task
  BY PinsAssumption DEF Task
<1>2. ASSUME NEW t \in User, UserStep(t) PROVE CallTypes' /\ CallsOK'
  <2>1. CallTypes' /\ UserCall(t)' /\ OthersStay(t)
    BY <1>2, UserMoves
  <2>. QED  BY <1>1, <2>1 DEF Basics, CallsOK, UserCall, FlashCall, OthersStay, pin
<1>3. ASSUME NEW t \in Flasher, FlasherStep(t) PROVE CallTypes' /\ CallsOK'
  <2>1. CallTypes' /\ FlashCall(t)' /\ OthersStay(t)
    BY <1>3, FlasherMoves
  <2>. QED  BY <1>1, <2>1 DEF Basics, CallsOK, UserCall, FlashCall, OthersStay, pin
<1>4. CASE UNCHANGED pinVars
  BY <1>4 DEF Basics, CallTypes, CallsOK, UserCall, FlashCall, pin, pinVars
<1>. QED  BY <1>2, <1>3, <1>4 DEF Next

-----------------------------------------------------------------------------
(***************************************************************************)
(* What each action does to the claims.                                    *)
(***************************************************************************)
Keeps == \A k, x : ClaimedBy(k, x)' <=> ClaimedBy(k, x)
Adds(B, o) == \A k, x : ClaimedBy(k, x)' <=> ClaimedBy(k, x) \/ (k \in B /\ x = o)
DropsKey(j, o) == \A k, x : ClaimedBy(k, x)' <=> ClaimedBy(k, x) /\ ~(k = j /\ x = o)
DropsAll(o) == \A k, x : ClaimedBy(k, x)' <=> ClaimedBy(k, x) /\ x # o

\* The calls that users make of the registry.
LEMMA UserEffects ==
    ASSUME Basics, NEW t \in User
    PROVE  /\ \A p \in Pin : PwmClaim(t, p) => Adds(PwmBundle(p), PwmOwner(p))
           /\ \A p \in Pin : AdcClaim(t, p) => Adds(AdcBundle(p), AdcOwner(p, t))
           /\ ConfigureClaim(t) => \/ UNCHANGED claims
                                   \/ /\ Adds({GpioKey(pin(t))}, GpioOwner(pin(t)))
                                      /\ Goto(t, "cfg_port")
                                      /\ fr' = [fr EXCEPT ![t].here = TRUE]
           /\ ConfigureUndo(t) \/ ReleaseClaim(t) => DropsKey(GpioKey(pin(t)), GpioOwner(pin(t)))
           /\ PwmRelease(t) => DropsAll(PwmOwner(pin(t)))
           /\ AdcRelease(t) => DropsAll(AdcOwner(pin(t), t))
<1>. USE DEF Basics
<1>1. ASSUME NEW p \in Pin, PwmClaim(t, p) PROVE Adds(PwmBundle(p), PwmOwner(p))
  BY <1>1, BundleClaimed, NamesKnown DEF PwmClaim, Adds
<1>2. ASSUME NEW p \in Pin, AdcClaim(t, p) PROVE Adds(AdcBundle(p), AdcOwner(p, t))
  BY <1>2, BundleClaimed, NamesKnown DEF AdcClaim, Adds
<1>3. ASSUME ConfigureClaim(t)
      PROVE  \/ UNCHANGED claims
             \/ /\ Adds({GpioKey(pin(t))}, GpioOwner(pin(t)))
                /\ Goto(t, "cfg_port")
                /\ fr' = [fr EXCEPT ![t].here = TRUE]
  <2>1. pin(t) \in Pin
    BY <1>3 DEF ConfigureClaim, At, CallsOK, UserCall
  <2>. QED  BY <1>3, <2>1, BundleClaimed, NamesKnown DEF ConfigureClaim, Adds
<1>4. ASSUME ConfigureUndo(t) \/ ReleaseClaim(t)
      PROVE  DropsKey(GpioKey(pin(t)), GpioOwner(pin(t)))
  BY <1>4, KeyReleased DEF ConfigureUndo, ReleaseClaim, DropsKey
<1>5. ASSUME PwmRelease(t) PROVE DropsAll(PwmOwner(pin(t)))
  BY <1>5, OwnerReleased DEF PwmRelease, DropsAll
<1>6. ASSUME AdcRelease(t) PROVE DropsAll(AdcOwner(pin(t), t))
  BY <1>6, OwnerReleased DEF AdcRelease, DropsAll
<1>. QED  BY <1>1, <1>2, <1>3, <1>4, <1>5, <1>6

\* And those of the flash tool.
LEMMA FlasherEffects ==
    ASSUME Basics, NEW t \in Flasher
    PROVE  /\ \A P \in Targets : ClaimBundle(GpioKeys(P), FlashOwner)
                                     => Adds(GpioKeys(P), FlashOwner)
           /\ FlashDropClaim(t) => DropsKey(GpioKey(pin(t)), FlashOwner)
<1>. USE DEF Basics
<1>1. ASSUME NEW P \in Targets, ClaimBundle(GpioKeys(P), FlashOwner)
      PROVE  Adds(GpioKeys(P), FlashOwner)
  BY <1>1, BundleClaimed, NamesKnown DEF Adds
<1>2. ASSUME FlashDropClaim(t) PROVE DropsKey(GpioKey(pin(t)), FlashOwner)
  BY <1>2, KeyReleased DEF FlashDropClaim, DropsKey
<1>. QED  BY <1>1, <1>2

\* Every step of the services is a call of the registry or leaves it alone.
LEMMA StepsOfTable ==
    ASSUME Basics, [Next]_pinVars
    PROVE  [TableNext]_claims
<1>. USE DEF Basics
<1>1. ASSUME NEW t \in User, UserStep(t) PROVE [TableNext]_claims
  <2>1. At(t, "idle") \/ pin(t) \in Pin
    BY DEF CallsOK, UserCall, At
  <2>2. CASE \E p \in Pin : PwmClaim(t, p) \/ AdcClaim(t, p)
    BY <2>2, NamesKnown DEF PwmClaim, AdcClaim, TableNext
  <2>3. CASE ConfigureClaim(t)
    BY <2>1, <2>3, NamesKnown DEF ConfigureClaim, At, TableNext
  <2>4. CASE ConfigureUndo(t) \/ ReleaseClaim(t)
    BY <2>1, <2>4, NamesKnown DEF ConfigureUndo, ReleaseClaim, At, TableNext
  <2>5. CASE PwmRelease(t) \/ AdcRelease(t)
    BY <2>1, <2>5, NamesKnown DEF PwmRelease, AdcRelease, At, TableNext
  <2>6. CASE UNCHANGED claims
    BY <2>6
  <2>. QED  BY <1>1, <2>2, <2>3, <2>4, <2>5, <2>6
            DEF UserStep, GpioRead, GpioWrite, ConfigureFind, ReleaseFind, PwmStopFind,
                ConfigureOurs, ConfigurePort, ReleaseOurs, ReleaseReset, PwmPort, PwmStopPort
<1>2. ASSUME NEW t \in Flasher, FlasherStep(t) PROVE [TableNext]_claims
  <2>1. CASE FlashClaim(t)
    BY <2>1, NamesKnown DEF FlashClaim, TableNext
  <2>2. CASE FlashDropClaim(t)
    <3>1. pin(t) \in Pin
      BY <2>2, PinsAssumption DEF FlashDropClaim, At, CallsOK, FlashCall
    <3>. QED  BY <2>2, <3>1, NamesKnown DEF FlashDropClaim, TableNext
  <2>3. CASE UNCHANGED claims
    BY <2>3
  <2>. QED  BY <1>2, <2>1, <2>2, <2>3
            DEF FlasherStep, FlashTake, FlashWrite, FlashDone, FlashDrop
<1>3. CASE UNCHANGED pinVars
  BY <1>3 DEF pinVars
<1>. QED  BY <1>1, <1>2, <1>3 DEF Next

\* The services' own records keep their types, and never more channels than
\* there are.
LEMMA RecordsKept ==
    ASSUME Basics, [Next]_pinVars
    PROVE  PinTypes'
<1>. USE DEF Basics
<1>1. ASSUME pwmOn' = pwmOn, cfg' \in [Pin -> {"off", "in", "out"}] PROVE PinTypes'
  BY <1>1 DEF PinTypes
<1>2. ASSUME NEW p \in Pin, PwmChannel(p), pwmOn' = pwmOn \cup {p}, cfg' = cfg PROVE PinTypes'
  <2>1. IsFiniteSet(pwmOn') /\ Cardinality(pwmOn') <= PwmMax
    <3>1. CASE p \in pwmOn
      <4>1. pwmOn' = pwmOn
        BY <1>2, <3>1
      <4>. QED  BY <4>1 DEF PinTypes
    <3>2. CASE p \notin pwmOn
      <4>1. IsFiniteSet(pwmOn') /\ Cardinality(pwmOn') = Cardinality(pwmOn) + 1
        BY <1>2, <3>2, FS_AddElement DEF PinTypes
      <4>2. Cardinality(pwmOn) \in Nat /\ Cardinality(pwmOn) < PwmMax
        BY <1>2, <3>2, FS_CardinalityType DEF PinTypes, PwmChannel
      <4>. QED  BY <4>1, <4>2, PinsAssumption
    <3>. QED  BY <3>1, <3>2
  <2>. QED  BY <1>2, <2>1 DEF PinTypes
<1>3. ASSUME NEW p \in Pin, pwmOn' = pwmOn \ {p}, cfg' = cfg PROVE PinTypes'
  <2>1. IsFiniteSet(pwmOn') /\ Cardinality(pwmOn') \in Nat /\ Cardinality(pwmOn') <= Cardinality(pwmOn)
    BY <1>3, FS_Subset, FS_CardinalityType DEF PinTypes
  <2>2. Cardinality(pwmOn) \in Nat
    BY FS_CardinalityType DEF PinTypes
  <2>3. Cardinality(pwmOn') <= PwmMax
    BY <2>1, <2>2, PinsAssumption DEF PinTypes
  <2>. QED  BY <1>3, <2>1, <2>3 DEF PinTypes
<1>4. ASSUME NEW t \in User, UserStep(t) PROVE PinTypes'
  <2>1. CASE PwmPort(t)
    <3>1. pin(t) \in Pin
      BY <2>1 DEF PwmPort, At, CallsOK, UserCall
    <3>. QED  BY <1>1, <1>2, <2>1, <3>1 DEF PwmPort, PinTypes
  <2>2. CASE PwmStopPort(t)
    <3>1. pin(t) \in Pin
      BY <2>2 DEF PwmStopPort, At, CallsOK, UserCall
    <3>. QED  BY <1>3, <2>2, <3>1 DEF PwmStopPort
  <2>3. CASE ConfigurePort(t)
    <3>1. fr[t].mode \in {"in", "out"}
      BY DEF CallTypes, Frame, Task
    <3>. QED  BY <1>1, <2>3, <3>1 DEF ConfigurePort, PinTypes
  <2>4. CASE ReleaseReset(t)
    BY <1>1, <2>4 DEF ReleaseReset, PinTypes
  <2>5. CASE UNCHANGED <<cfg, pwmOn>>
    BY <1>1, <2>5 DEF PinTypes
  <2>. QED  BY <1>4, <2>1, <2>2, <2>3, <2>4, <2>5
            DEF UserStep, GpioRead, GpioWrite, ConfigureFind, ReleaseFind, PwmStopFind, PwmClaim,
                AdcClaim, ConfigureOurs, ConfigureClaim, ConfigureUndo, ReleaseOurs, ReleaseClaim,
                PwmRelease, AdcRelease
<1>5. ASSUME NEW t \in Flasher, FlasherStep(t) PROVE PinTypes'
  <2>1. pwmOn' = pwmOn
    BY <1>5 DEF FlasherStep, FlashClaim, FlashTake, FlashWrite, FlashDone, FlashDrop, FlashDropClaim
  <2>2. cfg' \in [Pin -> {"off", "in", "out"}]
    BY <1>5 DEF FlasherStep, FlashClaim, FlashTake, FlashWrite, FlashDone, FlashDrop,
                FlashDropClaim, PinTypes
  <2>. QED  BY <1>1, <2>1, <2>2
<1>6. CASE UNCHANGED pinVars
  BY <1>1, <1>6 DEF pinVars, PinTypes
<1>. QED  BY <1>4, <1>5, <1>6 DEF Next

\* Nothing is claimed, set up or called at first.
LEMMA InitBasics == Init => Basics
<1>. SUFFICES ASSUME Init PROVE Basics
  OBVIOUS
<1>1. TableInv
  BY InitTableInv DEF Init
<1>2. CallTypes /\ CallsOK
  BY DEF Init, CallTypes, CallsOK, UserCall, FlashCall, Task, Frame, NoFrame, UserPc, FlasherPc
<1>3. IsFiniteSet(pwmOn) /\ Cardinality(pwmOn) <= PwmMax
  BY FS_EmptySet, PinsAssumption DEF Init
<1>4. PinTypes
  BY <1>3 DEF Init, PinTypes
<1>. QED  BY <1>1, <1>2, <1>4 DEF Basics

\* The types and the calls' locals are inductive with the table's invariant.
LEMMA NextBasics == Basics /\ [Next]_pinVars => Basics'
<1>. SUFFICES ASSUME Basics, [Next]_pinVars PROVE Basics'
  OBVIOUS
<1>1. TableInv'
  BY StepsOfTable, NextTableInv DEF Basics
<1>. QED  BY <1>1, CallsMove, RecordsKept DEF Basics

\* Types, over any number of pins, tasks and channels; a pin never takes a
\* channel beyond PwmMax, since the choice and the count are one section.
THEOREM TypeCorrect == Spec => []TypeOK
<1>1. Basics => TypeOK
  BY DEF Basics, TableInv, CallTypes, PinTypes, TypeOK
<1>. QED  BY <1>1, InitBasics, NextBasics, PTL DEF Spec

\* Whatever the services do with the table, no resource gets a second entry.
THEOREM OneEntryPerPin == Spec => []OneEntryPerKey
<1>1. Basics => OneEntryPerKey
  BY DEF Basics, TableInv
<1>. QED  BY <1>1, InitBasics, NextBasics, PTL DEF Spec


\* The services see the registry as the map of owners it promises to be: their
\* pins pass from one owner to the next only through being free.
THEOREM PinsSeeMap == Spec => MapSpec
<1>1. Basics /\ Basics' /\ [Next]_pinVars => [Map!Next]_([k \in Key |-> HolderOf(k)])
  BY StepsOfTable, StepMaps DEF Basics
<1>2. Init => Map!Init
  BY MapInit DEF Init
<1>. QED  BY <1>1, <1>2, InitBasics, NextBasics, PTL DEF Spec, MapSpec, Map!Spec
-----------------------------------------------------------------------------
(***************************************************************************)
(* What tasks use.  A pin is in use by gpio while it is set up and during  *)
(* the calls that claimed it or give it back, by pwm while it has a        *)
(* channel and likewise; the flash tool has the pins of its target, or     *)
(* what is left of them to drop.                                           *)
(***************************************************************************)
GpioUse(t, p) == \/ cfg[p] # "off"
                 \/ pin(t) = p /\ pc[t] \in {"cfg_undo", "rel_claim"}
                 \/ pin(t) = p /\ pc[t] = "cfg_port" /\ fr[t].here
PwmUse(t, p) == \/ p \in pwmOn
                \/ pin(t) = p /\ pc[t] \in {"pwm_port", "pwm_release"}
AdcUse(t, p) == pin(t) = p /\ At(t, "adc_read")
FlashHolds(t) == IF pc[t] \in {"take", "write", "held"} THEN fr[t].target
                 ELSE IF pc[t] \in {"drop", "drop_claim"} THEN fr[t].todo ELSE {}

\* The kinds of steps a user takes, as the claims show them: what it adds it
\* uses, and what it no longer uses it drops.
UserClaims(t) ==
    /\ \/ Keeps /\ ~At(t, "adc_read") /\ ~At(t, "adc_read")'
       \/ /\ \E p \in Pin : Adds(PwmBundle(p), PwmOwner(p)) /\ PwmUse(t, p)'
          /\ ~At(t, "adc_read") /\ ~At(t, "adc_read")'
       \/ /\ \E p \in Pin : Adds(AdcBundle(p), AdcOwner(p, t)) /\ AdcUse(t, p)'
          /\ ~At(t, "adc_read")
       \/ /\ \E p \in Pin : Adds({GpioKey(p)}, GpioOwner(p)) /\ GpioUse(t, p)'
          /\ ~At(t, "adc_read") /\ ~At(t, "adc_read")'
       \/ /\ \E p \in Pin : DropsKey(GpioKey(p), GpioOwner(p)) \/ DropsAll(PwmOwner(p))
          /\ ~At(t, "adc_read") /\ ~At(t, "adc_read")'
       \/ At(t, "adc_read") /\ DropsAll(AdcOwner(pin(t), t)) /\ ~At(t, "adc_read")'
    /\ \A p \in Pin : GpioUse(t, p) => GpioUse(t, p)' \/ DropsKey(GpioKey(p), GpioOwner(p))
    /\ \A p \in Pin : PwmUse(t, p) => PwmUse(t, p)' \/ DropsAll(PwmOwner(p))

\* Every step of a user is of one of these kinds.
LEMMA UserKinds ==
    ASSUME Basics, NEW t \in User, UserStep(t)
    PROVE  UserClaims(t)
<1>. USE DEF Basics
<1>1. /\ CallTypes' /\ OthersStay(t)
      /\ t \in Task /\ fr[t] \in Frame /\ UserCall(t) /\ UserCall(t)'
      /\ pc \in [Task -> UserPc \cup FlasherPc] /\ fr \in [Task -> Frame]
      /\ cfg \in [Pin -> {"off", "in", "out"}]
  BY UserMoves DEF CallTypes, CallsOK, Task, PinTypes
<1>. USE <1>1 DEF At, Goto, pin
<1>2. ASSUME NEW p \in Pin, NEW l \in UserPc \ {"adc_read", "pwm_port"}, At(t, "idle"), Goto(t, l),
             UNCHANGED <<claims, cfg, pwmOn>>
      PROVE  UserClaims(t)
  BY <1>2, NothingClaimed DEF UserClaims, Keeps, GpioUse, PwmUse
<1>3. CASE \E p \in Pin : \/ \E m \in {"in", "out"} : ConfigureFind(t, p, m)
                          \/ GpioRead(t, p) \/ GpioWrite(t, p)
                          \/ ReleaseFind(t, p) \/ PwmStopFind(t, p)
  BY <1>2, <1>3 DEF GpioRead, GpioWrite, ConfigureFind, ReleaseFind, PwmStopFind, Call, UserPc
<1>4. ASSUME NEW p \in Pin, PwmClaim(t, p) PROVE UserClaims(t)
  <2>1. /\ Adds(PwmBundle(p), PwmOwner(p)) /\ pc[t] = "idle" /\ pc'[t] = "pwm_port"
        /\ fr'[t].pin = p /\ UNCHANGED <<cfg, pwmOn>>
    BY <1>4, UserEffects DEF PwmClaim, Call, Frame
  <2>. QED  BY <2>1 DEF UserClaims, GpioUse, PwmUse
<1>5. ASSUME NEW p \in Pin, AdcClaim(t, p) PROVE UserClaims(t)
  <2>1. /\ Adds(AdcBundle(p), AdcOwner(p, t)) /\ pc[t] = "idle" /\ pc'[t] = "adc_read"
        /\ fr'[t].pin = p /\ UNCHANGED <<cfg, pwmOn>>
    BY <1>5, UserEffects DEF AdcClaim, Call, Frame
  <2>. QED  BY <2>1 DEF UserClaims, GpioUse, PwmUse, AdcUse
<1>6. CASE ConfigureOurs(t) \/ ReleaseOurs(t)
  <2>1. /\ Keeps /\ pc[t] \in {"cfg_ours", "rel_ours"} /\ pc'[t] \in {"cfg_port", "rel_reset", "idle"}
        /\ UNCHANGED <<cfg, pwmOn>>
    BY <1>6, NothingClaimed DEF ConfigureOurs, ReleaseOurs, Return, Keeps
  <2>. QED  BY <2>1 DEF UserClaims, GpioUse, PwmUse
<1>7. CASE ConfigureClaim(t)
  <2>1. pin(t) \in Pin /\ pc[t] = "cfg_claim" /\ UNCHANGED <<cfg, pwmOn>> /\ pc'[t] \in {"cfg_port", "idle"}
    BY <1>7 DEF ConfigureClaim, UserCall, Return
  <2>2. CASE UNCHANGED claims
    BY <2>1, <2>2, NothingClaimed DEF UserClaims, GpioUse, PwmUse, Keeps
  <2>3. CASE /\ Adds({GpioKey(pin(t))}, GpioOwner(pin(t)))
             /\ Goto(t, "cfg_port") /\ fr' = [fr EXCEPT ![t].here = TRUE]
    <3>1. pin(t)' = pin(t) /\ fr'[t].here /\ pc'[t] = "cfg_port"
      BY <2>3 DEF Frame
    <3>2. GpioUse(t, pin(t))'
      BY <3>1 DEF GpioUse
    <3>. QED  BY <2>1, <2>3, <3>1 DEF UserClaims, GpioUse, PwmUse
  <2>. QED  BY <1>7, <2>2, <2>3, UserEffects
<1>8. CASE ConfigurePort(t)
  <2>1. pin(t) \in Pin /\ fr[t].mode \in {"in", "out"}
    BY <1>8 DEF ConfigurePort, UserCall, Frame
  <2>2. Keeps /\ pc[t] = "cfg_port" /\ pc'[t] \in {"cfg_undo", "idle"} /\ UNCHANGED pwmOn
    BY <1>8, NothingClaimed DEF ConfigurePort, Return, Keeps
  <2>3. \/ cfg'[pin(t)] # "off" /\ \A p \in Pin : cfg[p] # "off" => cfg'[p] # "off"
        \/ /\ UNCHANGED cfg
           /\ fr[t].here => pc'[t] = "cfg_undo" /\ fr' = fr
    BY <1>8, <2>1 DEF ConfigurePort
  <2>. QED  BY <2>1, <2>2, <2>3 DEF UserClaims, GpioUse, PwmUse
<1>9. CASE ConfigureUndo(t) \/ ReleaseClaim(t)
  <2>1. /\ pin(t) \in Pin /\ pc[t] \in {"cfg_undo", "rel_claim"} /\ pc'[t] = "idle"
        /\ UNCHANGED <<cfg, pwmOn>>
    BY <1>9 DEF ConfigureUndo, ReleaseClaim, UserCall, Return
  <2>. QED  BY <1>9, <2>1, UserEffects DEF UserClaims, GpioUse, PwmUse
<1>10. CASE ReleaseReset(t)
  <2>1. /\ pin(t) \in Pin /\ pc[t] = "rel_reset" /\ pc'[t] = "rel_claim" /\ fr' = fr
        /\ Keeps /\ UNCHANGED pwmOn /\ \A p \in Pin : p # pin(t) => cfg'[p] = cfg[p]
    BY <1>10, NothingClaimed DEF ReleaseReset, UserCall, Keeps
  <2>. QED  BY <2>1 DEF UserClaims, GpioUse, PwmUse
<1>11. CASE PwmPort(t)
  <2>1. /\ pc[t] = "pwm_port" /\ pc'[t] \in {"pwm_release", "idle"} /\ Keeps /\ UNCHANGED cfg
        /\ \/ pwmOn' = pwmOn \cup {pin(t)}
           \/ pc'[t] = "pwm_release" /\ UNCHANGED <<pwmOn, fr>>
    BY <1>11, NothingClaimed DEF PwmPort, Return, Keeps
  <2>. QED  BY <2>1 DEF UserClaims, GpioUse, PwmUse
<1>12. CASE PwmRelease(t)
  <2>1. /\ pin(t) \in Pin /\ pc[t] = "pwm_release" /\ pc'[t] = "idle" /\ UNCHANGED <<cfg, pwmOn>>
        /\ DropsAll(PwmOwner(pin(t)))
    BY <1>12, UserEffects DEF PwmRelease, UserCall, Return
  <2>. QED  BY <2>1 DEF UserClaims, GpioUse, PwmUse
<1>13. CASE PwmStopPort(t)
  <2>1. /\ pc[t] = "pwm_stop" /\ pc'[t] \in {"pwm_release", "idle"} /\ Keeps /\ UNCHANGED cfg
        /\ \/ pc'[t] = "pwm_release" /\ fr' = fr /\ pwmOn' = pwmOn \ {pin(t)}
           \/ pwmOn' = pwmOn
    BY <1>13, NothingClaimed DEF PwmStopPort, Return, Keeps
  <2>. QED  BY <2>1 DEF UserClaims, GpioUse, PwmUse
<1>14. CASE AdcRelease(t)
  <2>1. /\ pc[t] = "adc_read" /\ pc'[t] = "idle" /\ UNCHANGED <<cfg, pwmOn>>
        /\ DropsAll(AdcOwner(pin(t), t))
    BY <1>14, UserEffects DEF AdcRelease, Return
  <2>. QED  BY <2>1 DEF UserClaims, GpioUse, PwmUse
<1>. QED  BY <1>3, <1>4, <1>5, <1>6, <1>7, <1>8, <1>9, <1>10, <1>11, <1>12, <1>13, <1>14 DEF UserStep
\* The same of the flash tool: it holds what it claimed until it drops it, and
\* resets only pins that are still claimed for it.
FlasherClaims(t) ==
    /\ \/ Keeps /\ FlashHolds(t)' = FlashHolds(t)
       \/ \E P \in SUBSET Pin : /\ Adds(GpioKeys(P), FlashOwner)
                                /\ FlashHolds(t) = {} /\ FlashHolds(t)' = P
       \/ \E p \in Pin : /\ DropsKey(GpioKey(p), FlashOwner)
                         /\ FlashHolds(t)' = FlashHolds(t) \ {p}
    /\ pwmOn' = pwmOn
    /\ \A p \in Pin : cfg[p] # "off" => cfg'[p] # "off" \/ ClaimedBy(GpioKey(p), FlashOwner)

\* And every step of the flash tool of one of those.
LEMMA FlasherKinds ==
    ASSUME Basics, NEW t \in Flasher, FlasherStep(t)
    PROVE  FlasherClaims(t)
<1>. USE DEF Basics
<1>1. /\ t \in Task /\ fr[t] \in Frame /\ FlashCall(t)
      /\ pc \in [Task -> UserPc \cup FlasherPc] /\ fr \in [Task -> Frame]
      /\ cfg \in [Pin -> {"off", "in", "out"}] /\ FlashPins \subseteq Pin
  BY PinsAssumption DEF CallTypes, CallsOK, Task, PinTypes
<1>. USE <1>1 DEF At, Goto, pin
<1>2. CASE FlashClaim(t)
  <2>1. PICK P \in Targets : /\ ClaimBundle(GpioKeys(P), FlashOwner)
                             /\ fr' = [fr EXCEPT ![t].target = P, ![t].todo = P]
    BY <1>2 DEF FlashClaim
  <2>2. Adds(GpioKeys(P), FlashOwner) /\ P \in SUBSET Pin
    BY <2>1, FlasherEffects DEF Targets
  <2>3. pc[t] = "idle" /\ pc'[t] = "take" /\ UNCHANGED <<cfg, pwmOn>>
    BY <1>2 DEF FlashClaim
  <2>4. fr'[t].target = P
    BY <2>1 DEF Frame
  <2>. QED  BY <2>2, <2>3, <2>4 DEF FlasherClaims, FlashHolds
<1>3. CASE FlashTake(t)
  <2>1. Keeps /\ pwmOn' = pwmOn /\ pc[t] = "take"
    BY <1>3, NothingClaimed DEF FlashTake, Keeps
  <2>2. \/ pc'[t] = "write" /\ fr'[t].target = fr[t].target
        \/ pc'[t] = "drop" /\ fr'[t].todo = fr[t].target
    BY <1>3 DEF FlashTake, Call, Frame
  <2>3. \A p \in Pin : cfg[p] # "off" => cfg'[p] # "off"
    BY <1>3 DEF FlashTake
  <2>. QED  BY <2>1, <2>2, <2>3 DEF FlasherClaims, FlashHolds
<1>4. CASE FlashWrite(t) \/ FlashDone(t)
  <2>1. Keeps /\ UNCHANGED <<cfg, pwmOn>> /\ pc[t] \in {"write", "held"}
    BY <1>4, NothingClaimed DEF FlashWrite, FlashDone, Keeps
  <2>2. \/ pc'[t] \in {"take", "held"} /\ fr'[t].target = fr[t].target
        \/ pc'[t] = "drop" /\ fr'[t].todo = fr[t].target
    BY <1>4 DEF FlashWrite, FlashDone, Frame
  <2>. QED  BY <2>1, <2>2 DEF FlasherClaims, FlashHolds
<1>5. CASE FlashDrop(t)
  <2>1. Keeps /\ pwmOn' = pwmOn /\ pc[t] = "drop"
    BY <1>5, NothingClaimed DEF FlashDrop, Keeps
  <2>2. pc'[t] = "drop_claim" /\ fr'[t].todo = fr[t].todo
    BY <1>5 DEF FlashDrop, Call, Frame
  <2>3. \A p \in Pin : cfg[p] # "off" => cfg'[p] # "off" \/ ClaimedBy(GpioKey(p), FlashOwner)
    BY <1>5 DEF FlashDrop
  <2>. QED  BY <2>1, <2>2, <2>3 DEF FlasherClaims, FlashHolds
<1>6. CASE FlashDropClaim(t)
  <2>1. /\ DropsKey(GpioKey(pin(t)), FlashOwner) /\ UNCHANGED <<cfg, pwmOn>>
        /\ pc[t] = "drop_claim" /\ pin(t) \in Pin
    BY <1>6, FlasherEffects DEF FlashDropClaim, FlashCall
  <2>2. \/ pc'[t] = "idle" /\ fr[t].todo \ {pin(t)} = {}
        \/ pc'[t] = "drop" /\ fr'[t].todo = fr[t].todo \ {pin(t)}
    BY <1>6 DEF FlashDropClaim, Return, Frame
  <2>3. FlashHolds(t)' = FlashHolds(t) \ {pin(t)}
    BY <2>1, <2>2 DEF FlashHolds
  <2>. QED  BY <2>1, <2>3 DEF FlasherClaims
<1>. QED  BY <1>2, <1>3, <1>4, <1>5, <1>6 DEF FlasherStep
-----------------------------------------------------------------------------
(***************************************************************************)
(* The inductive invariant: every claim is one that a task or a service    *)
(* still uses, and what a task or a service uses under a name of its own   *)
(* it has.                                                                 *)
(***************************************************************************)
GpioAccounted == \A p \in Pin, k \in Key : ClaimedBy(k, GpioOwner(p)) =>
                     k = GpioKey(p) /\ \E u \in User : GpioUse(u, p)
PwmAccounted == \A p \in Pin, k \in Key : ClaimedBy(k, PwmOwner(p)) =>
                     k \in PwmBundle(p) /\ \E u \in User : PwmUse(u, p)
AdcAccounted == \A p \in Pin, u \in User, k \in Key : ClaimedBy(k, AdcOwner(p, u)) => AdcUse(u, p)
FlashAccounted == \A k \in Key : ClaimedBy(k, FlashOwner) =>
                     \E t \in Flasher : k \in GpioKeys(FlashHolds(t))
OwnersKnown == \A k \in Key, x \in Owner : ClaimedBy(k, x) => x \in PinOwners

AdcKept == \A u \in User : At(u, "adc_read") =>
              \A k \in AdcBundle(pin(u)) : ClaimedBy(k, AdcOwner(pin(u), u))
FlashKept == \A t \in Flasher : \A p \in FlashHolds(t) : ClaimedBy(GpioKey(p), FlashOwner)

Accounted == /\ GpioAccounted /\ PwmAccounted /\ AdcAccounted /\ FlashAccounted /\ OwnersKnown
             /\ PwmWhole /\ AdcKept /\ FlashKept

\* The other users' calls use what they used.
LEMMA OthersUse ==
    ASSUME Basics, NEW t \in Task, OthersStay(t), NEW u \in Task \ {t}
    PROVE  /\ \A p \in Pin : GpioUse(u, p) => GpioUse(u, p)' \/ cfg[p] # "off"
           /\ \A p \in Pin : PwmUse(u, p) => PwmUse(u, p)' \/ p \in pwmOn
           /\ \A p \in Pin : AdcUse(u, p)' <=> AdcUse(u, p)
           /\ At(u, "adc_read")' <=> At(u, "adc_read")
           /\ FlashHolds(u)' = FlashHolds(u)
BY DEF OthersStay, GpioUse, PwmUse, AdcUse, FlashHolds, At, pin

\* A user's step keeps the accounts.
LEMMA UserAccounts ==
    ASSUME Basics, Accounted, NEW t \in User, UserStep(t)
    PROVE  Accounted'
<1>. USE DEF Basics, Accounted
<1>1. /\ UserClaims(t) /\ OthersStay(t) /\ t \in Task
      /\ User \subseteq Task /\ Flasher \subseteq Task \ {t}
  BY UserKinds, UserMoves, PinsAssumption DEF Task
<1>2. GpioAccounted'
  <2>. SUFFICES ASSUME NEW p \in Pin, NEW k \in Key, ClaimedBy(k, GpioOwner(p))'
                PROVE  k = GpioKey(p) /\ \E u \in User : GpioUse(u, p)'
    BY DEF GpioAccounted, GpioOwner
  <2>1. \/ ClaimedBy(k, GpioOwner(p)) /\ ~DropsKey(GpioKey(p), GpioOwner(p))
        \/ k = GpioKey(p) /\ GpioUse(t, p)'
    <3>1. ClaimedBy(k, GpioOwner(p)) => k = GpioKey(p)
      BY DEF GpioAccounted
    <3>2. DropsKey(GpioKey(p), GpioOwner(p)) => ~(k = GpioKey(p) /\ ClaimedBy(k, GpioOwner(p))')
                                                /\ (ClaimedBy(k, GpioOwner(p))' => ClaimedBy(k, GpioOwner(p)))
      BY DEF DropsKey
    <3>3. ClaimedBy(k, GpioOwner(p)) \/ (k = GpioKey(p) /\ GpioUse(t, p)')
      <4>1. CASE \E q \in Pin : Adds({GpioKey(q)}, GpioOwner(q)) /\ GpioUse(t, q)'
        <5>1. PICK q \in Pin : Adds({GpioKey(q)}, GpioOwner(q)) /\ GpioUse(t, q)'
          BY <4>1
        <5>2. ClaimedBy(k, GpioOwner(p)) \/ (k = GpioKey(q) /\ p = q)
          BY <5>1, OwnersDiffer DEF Adds
        <5>. QED  BY <5>1, <5>2
      <4>2. CASE ~ \E q \in Pin : Adds({GpioKey(q)}, GpioOwner(q)) /\ GpioUse(t, q)'
        BY <1>1, <4>2, OwnersDiffer DEF UserClaims, Keeps, Adds, DropsKey, DropsAll
      <4>. QED  BY <4>1, <4>2
    <3>. QED  BY <3>1, <3>2, <3>3
  <2>2. CASE ClaimedBy(k, GpioOwner(p)) /\ ~DropsKey(GpioKey(p), GpioOwner(p))
    <3>1. k = GpioKey(p)
      BY <2>2 DEF GpioAccounted
    <3>2. PICK u \in User : GpioUse(u, p)
      BY <2>2 DEF GpioAccounted
    <3>3. GpioUse(t, p) => GpioUse(t, p)'
      BY <1>1, <2>2 DEF UserClaims
    <3>4. cfg[p] # "off" => GpioUse(t, p)
      BY DEF GpioUse
    <3>. QED  BY <1>1, <3>1, <3>2, <3>3, <3>4, OthersUse
  <2>. QED  BY <2>1, <2>2
<1>3. PwmAccounted'
  <2>. SUFFICES ASSUME NEW p \in Pin, NEW k \in Key, ClaimedBy(k, PwmOwner(p))'
                PROVE  k \in PwmBundle(p) /\ \E u \in User : PwmUse(u, p)'
    BY DEF PwmAccounted, PwmOwner, PwmBundle, GpioKey, PwmKey
  <2>1. \/ ClaimedBy(k, PwmOwner(p)) /\ ~DropsAll(PwmOwner(p))
        \/ k \in PwmBundle(p) /\ PwmUse(t, p)'
    BY <1>1, OwnersDiffer DEF UserClaims, Keeps, Adds, DropsKey, DropsAll, PwmAccounted
  <2>2. CASE ClaimedBy(k, PwmOwner(p)) /\ ~DropsAll(PwmOwner(p))
    <3>1. k \in PwmBundle(p)
      BY <2>2 DEF PwmAccounted
    <3>2. PICK u \in User : PwmUse(u, p)
      BY <2>2 DEF PwmAccounted
    <3>3. PwmUse(t, p) => PwmUse(t, p)'
      BY <1>1, <2>2 DEF UserClaims
    <3>4. p \in pwmOn => PwmUse(t, p)
      BY DEF PwmUse
    <3>. QED  BY <1>1, <3>1, <3>2, <3>3, <3>4, OthersUse
  <2>. QED  BY <2>1, <2>2
<1>4. AdcAccounted'
  <2>. SUFFICES ASSUME NEW p \in Pin, NEW u \in User, NEW k \in Key, ClaimedBy(k, AdcOwner(p, u))'
                PROVE  AdcUse(u, p)'
    BY DEF AdcAccounted, AdcOwner
  <2>1. CASE u # t
    <3>1. ClaimedBy(k, AdcOwner(p, u))
      BY <1>1, <2>1, OwnersDiffer DEF UserClaims, Keeps, Adds, DropsKey, DropsAll
    <3>. QED  BY <1>1, <2>1, <3>1, OthersUse DEF AdcAccounted
  <2>2. CASE u = t
    <3>1. ClaimedBy(k, AdcOwner(p, t)) => At(t, "adc_read") /\ pin(t) = p
      BY DEF AdcAccounted, AdcUse
    <3>. QED  BY <1>1, <2>2, <3>1, OwnersDiffer DEF UserClaims, Keeps, Adds, DropsKey, DropsAll
  <2>. QED  BY <2>1, <2>2
<1>5. FlashAccounted'
  <2>. SUFFICES ASSUME NEW k \in Key, ClaimedBy(k, FlashOwner)'
                PROVE  \E u \in Flasher : k \in GpioKeys(FlashHolds(u))'
    BY DEF FlashAccounted, FlashOwner
  <2>1. ClaimedBy(k, FlashOwner)
    BY <1>1, OwnersDiffer DEF UserClaims, Keeps, Adds, DropsKey, DropsAll
  <2>. QED  BY <1>1, <2>1, OthersUse DEF FlashAccounted, GpioKeys
<1>6. OwnersKnown'
  <2>1. \A p \in Pin : GpioOwner(p) \in PinOwners /\ PwmOwner(p) \in PinOwners
                       /\ AdcOwner(p, t) \in PinOwners
    BY DEF PinOwners
  <2>. QED  BY <1>1, <2>1 DEF OwnersKnown, UserClaims, Keeps, Adds, DropsKey, DropsAll, PinOwners
<1>7. PwmWhole'
  <2>. SUFFICES ASSUME NEW p \in Pin
                PROVE  ClaimedBy(GpioKey(p), PwmOwner(p))' <=> ClaimedBy(PwmKey(p), PwmOwner(p))'
    BY DEF PwmWhole, GpioKey, PwmKey, PwmOwner
  <2>1. GpioKey(p) \in PwmBundle(p) /\ PwmKey(p) \in PwmBundle(p)
    BY DEF PwmBundle
  <2>. QED  BY <1>1, <2>1, OwnersDiffer
            DEF PwmWhole, UserClaims, Keeps, Adds, DropsKey, DropsAll
<1>8. AdcKept'
  <2>. SUFFICES ASSUME NEW u \in User, At(u, "adc_read")', NEW k \in AdcBundle(pin(u))'
                PROVE  ClaimedBy(k, AdcOwner(pin(u), u))'
    BY DEF AdcKept
  <2>1. CASE u # t
    <3>1. At(u, "adc_read") /\ pin(u)' = pin(u)
      BY <1>1, <2>1, OthersUse DEF OthersStay, pin
    <3>. QED  BY <1>1, <2>1, <3>1, OwnersDiffer
              DEF AdcKept, UserClaims, Keeps, Adds, DropsKey, DropsAll
  <2>2. CASE u = t
    BY <1>1, <2>2 DEF UserClaims, Adds, AdcUse
  <2>. QED  BY <2>1, <2>2
<1>9. FlashKept'
  <2>1. \A k : ClaimedBy(k, FlashOwner) => ClaimedBy(k, FlashOwner)'
    BY <1>1, OwnersDiffer DEF UserClaims, Keeps, Adds, DropsKey, DropsAll
  <2>. QED  BY <1>1, <2>1, OthersUse DEF FlashKept, GpioKey, FlashOwner
<1>. QED  BY <1>2, <1>3, <1>4, <1>5, <1>6, <1>7, <1>8, <1>9

\* A step of the flash tool keeps them; there is one flash tool.
LEMMA FlasherAccounts ==
    ASSUME Basics, Accounted, NEW t \in Flasher, FlasherStep(t)
    PROVE  Accounted'
<1>. USE DEF Basics, Accounted
<1>1. /\ FlasherClaims(t) /\ OthersStay(t) /\ t \in Task
      /\ User \subseteq Task \ {t} /\ Flasher = {t}
  BY FlasherKinds, FlasherMoves, PinsAssumption DEF Task
<1>2. \A k, x : x # FlashOwner => (ClaimedBy(k, x)' <=> ClaimedBy(k, x))
  BY <1>1 DEF FlasherClaims, Keeps, Adds, DropsKey
<1>3. GpioAccounted'
  <2>. SUFFICES ASSUME NEW p \in Pin, NEW k \in Key, ClaimedBy(k, GpioOwner(p))'
                PROVE  k = GpioKey(p) /\ \E u \in User : GpioUse(u, p)'
    BY DEF GpioAccounted, GpioOwner
  <2>1. ClaimedBy(k, GpioOwner(p)) /\ k = GpioKey(p)
    BY <1>2, OwnersDiffer DEF GpioAccounted
  <2>2. PICK u \in User : GpioUse(u, p)
    BY <2>1 DEF GpioAccounted
  <2>3. cfg[p] # "off" => cfg'[p] # "off"
    BY <1>1, <2>1, ClaimedOnce, OwnersDiffer DEF FlasherClaims
  <2>. QED  BY <1>1, <2>1, <2>2, <2>3, OthersUse DEF GpioUse
<1>4. PwmAccounted'
  <2>. SUFFICES ASSUME NEW p \in Pin, NEW k \in Key, ClaimedBy(k, PwmOwner(p))'
                PROVE  k \in PwmBundle(p) /\ \E u \in User : PwmUse(u, p)'
    BY DEF PwmAccounted, PwmOwner, PwmBundle, GpioKey, PwmKey
  <2>1. ClaimedBy(k, PwmOwner(p))
    BY <1>2, OwnersDiffer
  <2>2. PICK u \in User : PwmUse(u, p)
    BY <2>1 DEF PwmAccounted
  <2>3. pwmOn' = pwmOn
    BY <1>1 DEF FlasherClaims
  <2>. QED  BY <1>1, <2>1, <2>2, <2>3, OthersUse DEF PwmUse, PwmAccounted
<1>5. AdcAccounted'
  <2>. SUFFICES ASSUME NEW p \in Pin, NEW u \in User, NEW k \in Key, ClaimedBy(k, AdcOwner(p, u))'
                PROVE  AdcUse(u, p)'
    BY DEF AdcAccounted, AdcOwner
  <2>1. ClaimedBy(k, AdcOwner(p, u))
    BY <1>2, OwnersDiffer
  <2>. QED  BY <1>1, <2>1, OthersUse DEF AdcAccounted
<1>6. FlashAccounted'
  <2>. SUFFICES ASSUME NEW k \in Key, ClaimedBy(k, FlashOwner)'
                PROVE  k \in GpioKeys(FlashHolds(t))'
    BY <1>1 DEF FlashAccounted, FlashOwner
  <2>1. ClaimedBy(k, FlashOwner) => \E p \in FlashHolds(t) : k = GpioKey(p)
    BY <1>1 DEF FlashAccounted, GpioKeys
  <2>2. \E p \in FlashHolds(t)' : k = GpioKey(p)
    BY <1>1, <2>1 DEF FlasherClaims, Keeps, Adds, DropsKey, GpioKeys
  <2>. QED  BY <2>2 DEF GpioKeys, GpioKey
<1>7. OwnersKnown'
  <2>1. FlashOwner \in PinOwners
    BY DEF PinOwners
  <2>. QED  BY <1>2, <2>1 DEF OwnersKnown, PinOwners
<1>8. PwmWhole'
  BY <1>2, OwnersDiffer DEF PwmWhole, GpioKey, PwmKey, PwmOwner
<1>9. AdcKept'
  <2>. SUFFICES ASSUME NEW u \in User, At(u, "adc_read")', NEW k \in AdcBundle(pin(u))'
                PROVE  ClaimedBy(k, AdcOwner(pin(u), u))'
    BY DEF AdcKept
  <2>1. At(u, "adc_read") /\ pin(u)' = pin(u)
    BY <1>1, OthersUse DEF OthersStay, pin
  <2>2. k \in AdcBundle(pin(u)) /\ AdcOwner(pin(u), u)' = AdcOwner(pin(u), u)
    BY <2>1 DEF AdcBundle, AdcOwner, GpioKey, AdcKey
  <2>. QED  BY <1>2, <2>1, <2>2, OwnersDiffer DEF AdcKept
<1>10. FlashKept'
  <2>. SUFFICES ASSUME NEW p \in FlashHolds(t)'
                PROVE  ClaimedBy(GpioKey(p), FlashOwner)'
    BY <1>1 DEF FlashKept, GpioKey, FlashOwner
  <2>1. p \in FlashHolds(t) => ClaimedBy(GpioKey(p), FlashOwner)
    BY DEF FlashKept
  <2>. QED  BY <1>1, <2>1, KeysDiffer DEF FlasherClaims, Keeps, Adds, DropsKey, GpioKeys
<1>. QED  BY <1>3, <1>4, <1>5, <1>6, <1>7, <1>8, <1>9, <1>10

PinsInv == Basics /\ Accounted

\* The accounts hold at first.
LEMMA InitPinsInv == Init => PinsInv
<1>. SUFFICES ASSUME Init PROVE Accounted
  BY InitBasics DEF PinsInv
<1>1. \A k, x : ~ClaimedBy(k, x)
  BY DEF Init, TableInit, ClaimedBy, EntriesOf, Active
<1>2. \A t \in Task : pc[t] = "idle"
  BY DEF Init
<1>. QED  BY <1>1, <1>2 DEF Accounted, GpioAccounted, PwmAccounted, AdcAccounted, FlashAccounted,
                            OwnersKnown, PwmWhole, AdcKept, FlashKept, FlashHolds, At, Task

\* And every step keeps them.
LEMMA NextPinsInv == PinsInv /\ [Next]_pinVars => PinsInv'
<1>. SUFFICES ASSUME PinsInv, [Next]_pinVars PROVE Accounted'
  BY NextBasics DEF PinsInv
<1>1. CASE UNCHANGED pinVars
  <2>1. \A k, x : ClaimedBy(k, x)' <=> ClaimedBy(k, x)
    BY <1>1, NothingClaimed DEF pinVars
  <2>. QED  BY <1>1, <2>1 DEF PinsInv, Accounted, GpioAccounted, PwmAccounted, AdcAccounted, FlashAccounted,
                      OwnersKnown, PwmWhole, AdcKept, FlashKept, FlashHolds, At, pin, pinVars,
                      GpioUse, PwmUse, AdcUse, AdcOwner
<1>. QED  BY <1>1, UserAccounts, FlasherAccounts DEF PinsInv, Next

\* A pwm set that fails, a stop and another set of the same pin never leave
\* its owner with one of the two keys.
THEOREM PwmHasBothOrNone == Spec => []PwmWhole
<1>1. PinsInv => PwmWhole
  BY DEF PinsInv, Accounted
<1>. QED  BY <1>1, InitPinsInv, NextPinsInv, PTL DEF Spec

\* A reader of the adc keeps its pin for the whole sample, and the flash tool
\* keeps every pin it has not dropped, whoever else calls the services.
THEOREM TasksKeepClaims == Spec => []OwnClaimsKept
<1>1. PinsInv => OwnClaimsKept
  BY DEF PinsInv, Accounted, AdcKept, FlashKept, OwnClaimsKept, FlashHolds
<1>. QED  BY <1>1, InitPinsInv, NextPinsInv, PTL DEF Spec

\* When no call is under way every claim is explained by a pin that is set up
\* or has a channel: no mixture of calls and failures leaves one behind.
THEOREM NoClaimLeftBehind == Spec => []ClaimsExplained
<1>1. ASSUME PinsInv, Quiet, NEW e \in Entry, Active(e)
      PROVE  \E p \in Pin :
            \/ claims[e].owner = GpioOwner(p) /\ claims[e].key = GpioKey(p) /\ cfg[p] # "off"
            \/ claims[e].owner = PwmOwner(p) /\ claims[e].key \in PwmBundle(p) /\ p \in pwmOn
  <2>. DEFINE k == claims[e].key
              x == claims[e].owner
  <2>1. ClaimedBy(k, x) /\ k \in Key /\ x \in Owner
    <3>1. ClaimedBy(k, x)
      BY <1>1 DEF ClaimedBy, EntriesOf
    <3>. QED  BY <1>1, <3>1, ClaimedTypes DEF PinsInv, Basics
  <2>2. \A t \in Task : pc[t] = "idle"
    BY <1>1 DEF Quiet, At
  <2>3. User \subseteq Task /\ Flasher \subseteq Task
    BY DEF Task
  <2>4. x \in PinOwners
    BY <1>1, <2>1 DEF PinsInv, Accounted, OwnersKnown
  <2>5. CASE x = FlashOwner
    BY <1>1, <2>1, <2>2, <2>3, <2>5 DEF PinsInv, Accounted, FlashAccounted, FlashHolds, GpioKeys
  <2>6. CASE \E p \in Pin, t \in User : x = AdcOwner(p, t)
    BY <1>1, <2>1, <2>2, <2>3, <2>6 DEF PinsInv, Accounted, AdcAccounted, AdcUse, At
  <2>7. ASSUME NEW p \in Pin, x = GpioOwner(p) PROVE k = GpioKey(p) /\ cfg[p] # "off"
    BY <1>1, <2>1, <2>2, <2>3, <2>7 DEF PinsInv, Accounted, GpioAccounted, GpioUse
  <2>8. ASSUME NEW p \in Pin, x = PwmOwner(p) PROVE k \in PwmBundle(p) /\ p \in pwmOn
    BY <1>1, <2>1, <2>2, <2>3, <2>8 DEF PinsInv, Accounted, PwmAccounted, PwmUse
  <2>. QED  BY <2>4, <2>5, <2>6, <2>7, <2>8 DEF PinOwners
<1>2. PinsInv => ClaimsExplained
  BY <1>1 DEF ClaimsExplained
<1>. QED  BY <1>2, InitPinsInv, NextPinsInv, PTL DEF Spec
=============================================================================
