------------------------------ MODULE Expansion ------------------------------
(***************************************************************************)
(* Expansion devices (src/services/solar_os_expansion.c) over the bus      *)
(* registry (Buses): attaching a device reserves its name, claims its      *)
(* resources, leases its buses and starts its driver, each under a lock of *)
(* its own; a failure and a detach take the same things back.  The         *)
(* reservation makes every device the business of one call at a time, so   *)
(* the call's program counter is the stage of the device.                  *)
(***************************************************************************)
EXTENDS Buses

CONSTANTS
    Device,        \* device names, which are also its owner names
    Needs,         \* [Device -> Seq([name, proto])]: buses, without repetition
    DevKeys,       \* [Device -> SUBSET Key]: its pins, addresses, chip selects
    Detachable     \* devices that may be detached

ASSUME ExpansionAssumption ==
    /\ Device \subseteq Lessee \ {Service}
    /\ NoOwner \notin Device
    /\ DOMAIN Needs = Device
    /\ \A d \in Device : Needs[d] \in Seq([name : Name, proto : Protocol])
    /\ DevKeys \in [Device -> SUBSET Key]
    /\ Detachable \subseteq Device

VARIABLES
    stage,   \* of each device: where the call that has it is
    nth      \* the next bus of each device to lease

devVars == <<stage, nth>>
vars == <<busVars, devVars>>

\* ATTACHING, and undoing it; ACTIVE; DETACHING.
Stage == {"none", "claim", "acquire", "driver", "publish",
          "undo_bus", "undo_keys", "undo_node", "active",
          "retire", "drop_bus", "drop_keys", "drop_node"}

DevInit == /\ Init
           /\ stage = [d \in Device |-> "none"]
           /\ nth = [d \in Device |-> 1]

On(d, s) == stage[d] = s
To(d, s) == stage' = [stage EXCEPT ![d] = s]
DevClaims(d) == Registry!ClaimAll(DevKeys[d], d)
NoBusChange == UNCHANGED <<bus, attached, ready, port, gens, lease>>
-----------------------------------------------------------------------------
Reserve(d) ==
    /\ On(d, "none") /\ To(d, "claim")
    /\ UNCHANGED nth /\ UNCHANGED busVars

ClaimKeys(d) ==
    /\ On(d, "claim")
    /\ \/ /\ DevClaims(d)
          /\ To(d, IF Needs[d] = <<>> THEN "driver" ELSE "acquire")
       \/ To(d, "undo_node") /\ UNCHANGED holder
    /\ nth' = [nth EXCEPT ![d] = 1]
    /\ NoBusChange /\ UNCHANGED taskVars

\* acquire_binding_buses: a bus that is refused gives back the leases before it,
\* and the caller the keys.  Fault: the caller only drops the reservation.
AcquireNextHalfUndone(d) ==
    /\ On(d, "acquire")
    /\ LET need == Needs[d][nth[d]] IN
       \/ /\ Acquire(need.name, need.proto, d)
          /\ To(d, IF nth[d] = Len(Needs[d]) THEN "driver" ELSE "acquire")
          /\ nth' = [nth EXCEPT ![d] = IF @ = Len(Needs[d]) THEN 1 ELSE @ + 1]
       \/ /\ Refused(need.name, need.proto, d)
          /\ To(d, "undo_node")
          /\ nth' = [nth EXCEPT ![d] = 1]
          /\ ReleaseOwner(d)
    /\ UNCHANGED taskVars
AcquireNext(d) ==
    /\ On(d, "acquire")
    /\ LET need == Needs[d][nth[d]] IN
       \/ /\ Acquire(need.name, need.proto, d)
          /\ To(d, IF nth[d] = Len(Needs[d]) THEN "driver" ELSE "acquire")
          /\ nth' = [nth EXCEPT ![d] = IF @ = Len(Needs[d]) THEN 1 ELSE @ + 1]
       \/ /\ Refused(need.name, need.proto, d)
          /\ To(d, "undo_bus")
          /\ nth' = [nth EXCEPT ![d] = 1]
          /\ UNCHANGED tableVars
    /\ UNCHANGED taskVars

DriverAttach(d) ==
    /\ On(d, "driver")
    /\ To(d, "publish") \/ To(d, "undo_bus")
    /\ UNCHANGED nth /\ UNCHANGED busVars

Publish(d) ==
    /\ On(d, "publish") /\ To(d, "active")
    /\ UNCHANGED nth /\ UNCHANGED busVars

DetachDevice(d) ==
    /\ On(d, "active") /\ d \in Detachable
    /\ To(d, "retire")
    /\ UNCHANGED nth /\ UNCHANGED busVars

\* A driver that cannot stop leaves the device active.
DriverDetach(d) ==
    /\ On(d, "retire")
    /\ To(d, "drop_bus") \/ To(d, "active")
    /\ UNCHANGED nth /\ UNCHANGED busVars

\* The end of a detach, and of an attach that failed.
DropBuses(d) ==
    /\ \/ On(d, "drop_bus") /\ To(d, "drop_keys")
       \/ On(d, "undo_bus") /\ To(d, "undo_keys")
    /\ ReleaseOwner(d)
    /\ UNCHANGED nth /\ UNCHANGED taskVars

DropDevKeys(d) ==
    /\ \/ On(d, "drop_keys") /\ To(d, "drop_node")
       \/ On(d, "undo_keys") /\ To(d, "undo_node")
    /\ Registry!GiveBack(Key, d)
    /\ UNCHANGED nth /\ NoBusChange /\ UNCHANGED taskVars

DropNode(d) ==
    /\ stage[d] \in {"drop_node", "undo_node"} /\ To(d, "none")
    /\ UNCHANGED nth /\ UNCHANGED busVars

DeviceStep(d) ==
    \/ Reserve(d) \/ ClaimKeys(d) \/ AcquireNext(d) \/ DriverAttach(d) \/ Publish(d)
    \/ DetachDevice(d) \/ DriverDetach(d) \/ DropBuses(d) \/ DropDevKeys(d) \/ DropNode(d)

\* A device that is running, or about to be or to stop, is used by its driver:
\* the name of the bus is read first, and the bus is looked up by it later.
DriverCall(t, d) ==
    /\ stage[d] \in {"driver", "publish", "active", "retire"}
    /\ \E i \in DOMAIN Needs[d] : Call(t, "pin", Needs[d][i].name, Needs[d][i].proto)
    /\ UNCHANGED <<refs, mutex>> /\ UNCHANGED tableVars
-----------------------------------------------------------------------------
Next ==
    \/ ManagerStep /\ UNCHANGED devVars
    \/ \E t \in I2cUser : UserStep(t) /\ UNCHANGED devVars
    \/ \E t \in Speeder : SpeedStep(t) /\ UNCHANGED devVars
    \/ \E t \in Driver : /\ TransactionStep(t) \/ \E d \in Device : DriverCall(t, d)
                         /\ UNCHANGED devVars
    \/ \E d \in Device : DeviceStep(d)

Spec == DevInit /\ [][Next]_vars
-----------------------------------------------------------------------------
TypeOK == /\ BusTypeOK
          /\ stage \in [Device -> Stage]
          /\ \A d \in Device : nth[d] \in 1 .. (Len(Needs[d]) + 1)

\* A device whose driver is started or running has all its keys and a lease on
\* each of its buses, whoever detaches, removes or releases buses meanwhile.
Equipped(d) ==
    /\ \A k \in DevKeys[d] : holder[k] = d
    /\ \A i \in DOMAIN Needs[d] : \E n \in attached :
          Is(n, Needs[d][i].name, Needs[d][i].proto) /\ lease[n][d] > 0
ActiveDeviceEquipped ==
    \A d \in Device : stage[d] \in {"driver", "publish", "active", "retire"} => Equipped(d)

\* A device that is gone, or was refused at any stage, has no key left.
AbsentDeviceClaimsNothing ==
    \A d \in Device : stage[d] \in {"none", "claim"} => \A k \in Key : holder[k] # d
=============================================================================
