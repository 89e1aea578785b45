--------------------------- MODULE ExpansionProofs ---------------------------
(***************************************************************************)
(* Proofs about the named buses and the expansion devices on them: type    *)
(* correctness, the ownership of keys, the hardware and port of a leased   *)
(* bus, the stability of a pinned bus, the counts of pins and of the I2C   *)
(* service's leases, and the equipment of an active device, for any number *)
(* of slots, leases, tasks and devices.                                    *)
(***************************************************************************)
EXTENDS Expansion, FiniteSetTheorems, TLAPS

-----------------------------------------------------------------------------
(* The inductive invariant, in three layers.                               *)

(***************************************************************************)
(* The tables.  That a detach takes no other bus's keys back rests on the  *)
(* names of the buses being unique, and that a bus has no lease when it is *)
(* registered, nor its UART a port, on what was true of the slot before.   *)
(***************************************************************************)
TableTypes ==
    /\ bus \in [Slot -> Def \cup {NoDef}]
    /\ attached \in SUBSET Slot /\ ready \in SUBSET Slot
    /\ port \in [Slot -> {"free", "lease", "other"}]
    /\ gens \in [Slot -> 0 .. MaxGen]
    /\ lease \in [Slot -> [Lessee -> Nat]]
    /\ holder \in [Key -> Lessee \cup {BusOwner(x) : x \in Name} \cup {NoOwner}]

NamesUnique ==
    \A m, n \in Slot : Used(m) /\ Used(n) /\ NameOf[bus[m]] = NameOf[bus[n]] => m = n

AttachedUsed == \A n \in attached : Used(n)

\* Only the port of an attached UART is ever taken.
PortsOfUarts == \A n \in Slot : port[n] # "free" => n \in attached /\ ProtoAt(n) = "uart"

TableInv == /\ TableTypes
            /\ NamesUnique
            /\ AttachedUsed
            /\ PortsOfUarts
            /\ AttachedOwns
            /\ HardwareFollowsLeases
            /\ ExclusiveLease

(***************************************************************************)
(* The operations in flight.  A pinned bus stays because the count of pins *)
(* keeps its last lease, and the count is right because the bus stays.     *)
(***************************************************************************)
TaskTypes ==
    /\ refs \in [Slot -> Nat]
    /\ mutex \in [Slot -> Task \cup {NoTask}]
    /\ pc \in [Task -> {"idle"} \cup PinPc \cup SpeedPc]
    /\ fr \in [Task -> Frame]

Using(t) == InTransaction(t) \/ pc[t] \in SpeedPc
Users(n) == {t \in Task : Using(t) /\ slot(t) = n}
SlotsUsed == \A t \in Task : Using(t) => slot(t) \in Slot

\* A call of the I2C service names a bus that is there.
Calling(t) == t \in I2cUser /\ pc[t] \in PinPc
Callers(n) == {t \in I2cUser : pc[t] \in PinPc /\ Is(n, fr[t].name, fr[t].proto)}
CallsBacked ==
    \A t \in I2cUser : pc[t] \in PinPc =>
        fr[t].proto = "i2c" /\ \E n \in Slot : Is(n, fr[t].name, "i2c")

TaskInv == /\ TaskTypes
           /\ SlotsUsed
           /\ PinnedStable
           /\ RefsCounted
           /\ CallsBacked
           /\ ServiceLeaseCovers

(***************************************************************************)
(* The devices.  What an active device has is collected on the way there,  *)
(* and what an absent one has not was given back on the way back.          *)
(***************************************************************************)
DeviceTypes ==
    /\ stage \in [Device -> Stage]
    /\ nth \in [Device -> Nat]
    /\ \A d \in Device : nth[d] \in 1 .. (Len(Needs[d]) + 1)

Working == {"driver", "publish", "active", "retire"}
Has(d, need) == \E n \in attached : Is(n, need.name, need.proto) /\ lease[n][d] > 0

NextBus == \A d \in Device : stage[d] = "acquire" => nth[d] \in DOMAIN Needs[d]
KeysHeld ==
    \A d \in Device : stage[d] \in Working \cup {"acquire"} =>
        \A k \in DevKeys[d] : holder[k] = d
BusesHeld ==
    \A d \in Device : \A i \in DOMAIN Needs[d] :
        stage[d] \in Working \/ (stage[d] = "acquire" /\ i < nth[d]) => Has(d, Needs[d][i])
NoKeys ==
    \A d \in Device : stage[d] \in {"none", "claim", "undo_node", "drop_node"} =>
        \A k \in Key : holder[k] # d

DeviceInv == DeviceTypes /\ NextBus /\ KeysHeld /\ BusesHeld /\ NoKeys

-----------------------------------------------------------------------------
(* Keys.                                                                   *)

\* A bus owner is not a lessee, not nobody, and belongs to one name.
LEMMA Owners ==
    /\ \A x \in Name : BusOwner(x) \notin Lessee /\ BusOwner(x) # NoOwner
    /\ \A x, y \in Name : BusOwner(x) = BusOwner(y) => x = y
  BY BusesAssumption DEF BusOwner

LEMMA UsedDef ==
    ASSUME TableTypes, NEW n \in Slot, Used(n)
    PROVE  /\ bus[n] \in Def /\ NameOf[bus[n]] \in Name /\ ProtoAt(n) \in Protocol
           /\ KeysOf[bus[n]] \in SUBSET Key
  BY BusesAssumption DEF TableTypes, Used, Name, ProtoAt

\* No device gains or loses a key.
DevicesKeep == \A k \in Key : \A o \in Device : holder'[k] = o <=> holder[k] = o

\* A bus takes its keys.
LEMMA TakeKeys ==
    ASSUME TableTypes, NEW d \in Def, OwnKeys(d)
    PROVE  /\ \A k \in Key : holder'[k] = IF k \in KeysOf[d] THEN BusOwner(NameOf[d]) ELSE holder[k]
           /\ \A k \in KeysOf[d] : k \in Key /\ holder[k] \in {NoOwner, BusOwner(NameOf[d])}
           /\ NameOf[d] \in Name
           /\ holder' \in [Key -> Lessee \cup {BusOwner(x) : x \in Name} \cup {NoOwner}]
<1>. USE DEF OwnKeys, Registry!ClaimAll, Registry!Grantable
<1>1. NameOf[d] \in Name /\ KeysOf[d] \subseteq Key
  BY BusesAssumption DEF Name
<1>2. holder' = [k \in Key |-> IF k \in KeysOf[d] THEN BusOwner(NameOf[d]) ELSE holder[k]]
  OBVIOUS
<1>3. \A k \in KeysOf[d] : holder[k] \in {NoOwner, BusOwner(NameOf[d])}
  OBVIOUS
<1>4. holder' \in [Key -> Lessee \cup {BusOwner(x) : x \in Name} \cup {NoOwner}]
  BY <1>1, <1>2 DEF TableTypes
<1>. QED  BY <1>1, <1>2, <1>3, <1>4

\* A bus gives its keys back.
LEMMA LoseKeys ==
    ASSUME TableTypes, NEW n \in Slot, Used(n), DropKeys(n)
    PROVE  /\ \A k \in Key : holder'[k] = IF holder[k] = BusOwner(NameOf[bus[n]]) THEN NoOwner
                                          ELSE holder[k]
           /\ holder' \in [Key -> Lessee \cup {BusOwner(x) : x \in Name} \cup {NoOwner}]
  BY DEF DropKeys, Registry!GiveBack, TableTypes

\* The slot of a bus gets its keys: no other bus loses one.
LEMMA OwnsAttached ==
    ASSUME TableTypes, AttachedOwns, AttachedUsed, NEW n \in Slot, n \notin attached,
           NEW d \in Def, OwnKeys(d), bus'[n] = d, attached' = attached \cup {n},
           \A m \in Slot \ {n} : bus'[m] = bus[m],
           \A m \in attached : NameOf[bus[m]] # NameOf[d]
    PROVE  AttachedOwns' /\ DevicesKeep
<1>1. /\ \A k \in Key : holder'[k] = IF k \in KeysOf[d] THEN BusOwner(NameOf[d]) ELSE holder[k]
      /\ \A k \in KeysOf[d] : k \in Key /\ holder[k] \in {NoOwner, BusOwner(NameOf[d])}
      /\ NameOf[d] \in Name
  BY TakeKeys
<1>2. \A m \in attached : m \in Slot /\ Used(m)
  BY DEF TableTypes, AttachedUsed
<1>3. ASSUME NEW m \in attached', NEW k \in KeysOf[bus'[m]]
      PROVE  holder'[k] = BusOwner(NameOf[bus'[m]])
  <2>1. CASE m = n
    BY <1>1, <1>3, <2>1
  <2>2. CASE m # n
    <3>1. m \in attached /\ bus'[m] = bus[m] /\ NameOf[bus[m]] \in Name /\ k \in Key
      BY <1>2, <1>3, <2>2, UsedDef
    <3>2. holder[k] = BusOwner(NameOf[bus[m]])
      BY <1>3, <3>1 DEF AttachedOwns
    <3>3. k \notin KeysOf[d]
      BY <1>1, <3>1, <3>2, Owners
    <3>. QED  BY <1>1, <3>1, <3>2, <3>3
  <2>. QED  BY <2>1, <2>2
<1>4. ASSUME NEW k \in Key, NEW x \in Name, holder'[k] = BusOwner(x)
      PROVE  \E m \in attached' : NameOf[bus'[m]] = x /\ k \in KeysOf[bus'[m]]
  <2>1. CASE k \in KeysOf[d]
    BY <1>1, <1>4, <2>1, Owners
  <2>2. CASE k \notin KeysOf[d]
    <3>1. PICK m \in attached : NameOf[bus[m]] = x /\ k \in KeysOf[bus[m]]
      BY <1>1, <1>4, <2>2 DEF AttachedOwns
    <3>. QED  BY <1>2, <3>1
  <2>. QED  BY <2>1, <2>2
<1>5. DevicesKeep
  BY <1>1, Owners, ExpansionAssumption DEF DevicesKeep
<1>. QED  BY <1>3, <1>4, <1>5 DEF AttachedOwns

\* An attached bus loses its keys: they are its own and nobody else's.
LEMMA OwnsDetached ==
    ASSUME TableTypes, NamesUnique, AttachedOwns, AttachedUsed,
           NEW n \in attached, DropKeys(n), attached' = attached \ {n},
           \A m \in Slot \ {n} : bus'[m] = bus[m]
    PROVE  AttachedOwns' /\ DevicesKeep
<1>1. n \in Slot /\ Used(n) /\ \A m \in attached : m \in Slot /\ Used(m)
  BY DEF TableTypes, AttachedUsed
<1>2. \A k \in Key : holder'[k] = IF holder[k] = BusOwner(NameOf[bus[n]]) THEN NoOwner
                                  ELSE holder[k]
  BY <1>1, LoseKeys
<1>3. ASSUME NEW m \in attached', NEW k \in KeysOf[bus'[m]]
      PROVE  holder'[k] = BusOwner(NameOf[bus'[m]])
  <2>1. m \in attached /\ m # n /\ bus'[m] = bus[m] /\ NameOf[bus[m]] \in Name /\ k \in Key
    BY <1>1, <1>3, UsedDef
  <2>2. holder[k] = BusOwner(NameOf[bus[m]])
    BY <1>3, <2>1 DEF AttachedOwns
  <2>3. NameOf[bus[n]] \in Name /\ NameOf[bus[m]] # NameOf[bus[n]]
    BY <1>1, <2>1, UsedDef DEF NamesUnique
  <2>. QED  BY <1>2, <2>1, <2>2, <2>3, Owners
<1>4. ASSUME NEW k \in Key, NEW x \in Name, holder'[k] = BusOwner(x)
      PROVE  \E m \in attached' : NameOf[bus'[m]] = x /\ k \in KeysOf[bus'[m]]
  <2>1. holder[k] = BusOwner(x) /\ BusOwner(x) # BusOwner(NameOf[bus[n]])
    BY <1>2, <1>4, Owners
  <2>2. PICK m \in attached : NameOf[bus[m]] = x /\ k \in KeysOf[bus[m]]
    BY <2>1 DEF AttachedOwns
  <2>. QED  BY <1>1, <2>1, <2>2
<1>5. NameOf[bus[n]] \in Name
  BY <1>1, UsedDef
<1>6. DevicesKeep
  BY <1>2, <1>5, Owners, ExpansionAssumption DEF DevicesKeep
<1>. QED  BY <1>3, <1>4, <1>6 DEF AttachedOwns

-----------------------------------------------------------------------------
(* Managing buses preserves the tables.                                    *)

\* A bus that somebody leases stays what it is, and no device loses a key.
ManagerKeeps ==
    /\ lease' = lease
    /\ \A n \in Slot : Leased(n) => bus'[n] = bus[n] /\ gens'[n] = gens[n]
    /\ DevicesKeep

LEMMA RegisterTable ==
    ASSUME TableInv, NEW d \in Def, Register(d)
    PROVE  TableInv' /\ ManagerKeeps
<1>. USE DEF TableInv
<1>1. PICK n \in Free :
         /\ gens[n] < MaxGen /\ gens' = [gens EXCEPT ![n] = @ + 1]
         /\ \/ /\ OwnKeys(d)
               /\ bus' = [bus EXCEPT ![n] = d]
               /\ attached' = attached \cup {n}
            \/ UNCHANGED <<bus, attached, holder>>
  BY DEF Register
<1>2. /\ UNCHANGED <<ready, port, lease>>
      /\ \A m \in Slot : Used(m) => NameOf[bus[m]] # NameOf[d]
  BY DEF Register
<1>3. n \in Slot /\ ~Used(n) /\ n \notin attached /\ ~Leased(n) /\ n \notin ready /\ port[n] = "free"
  BY DEF Free, AttachedUsed, ExclusiveLease, HardwareFollowsLeases, PortsOfUarts
<1>4. gens' \in [Slot -> 0 .. MaxGen]
  BY <1>1, <1>3, BusesAssumption DEF TableTypes
<1>5. \A m \in Slot : Leased(m)' <=> Leased(m)
  BY <1>2 DEF Leased
<1>6. CASE UNCHANGED <<bus, attached, holder>>
  <2>1. TableTypes'
    BY <1>2, <1>4, <1>6 DEF TableTypes
  <2>2. NamesUnique' /\ AttachedUsed' /\ PortsOfUarts' /\ AttachedOwns'
    BY <1>2, <1>6 DEF NamesUnique, AttachedUsed, PortsOfUarts, AttachedOwns, Used, ProtoAt
  <2>3. HardwareFollowsLeases' /\ ExclusiveLease'
    BY <1>2, <1>5, <1>6 DEF HardwareFollowsLeases, ExclusiveLease, Used, ProtoAt, Sole
  <2>4. ManagerKeeps
    BY <1>1, <1>2, <1>3, <1>6 DEF ManagerKeeps, DevicesKeep, TableTypes
  <2>. QED  BY <2>1, <2>2, <2>3, <2>4
<1>7. CASE OwnKeys(d) /\ bus' = [bus EXCEPT ![n] = d] /\ attached' = attached \cup {n}
  <2>1. /\ bus'[n] = d /\ \A m \in Slot \ {n} : bus'[m] = bus[m]
        /\ \A m \in attached : NameOf[bus[m]] # NameOf[d]
    BY <1>2, <1>3, <1>7 DEF TableTypes, AttachedUsed
  <2>2. AttachedOwns' /\ DevicesKeep
    BY <1>3, <1>7, <2>1, OwnsAttached
  <2>3. TableTypes'
    <3>1. bus' \in [Slot -> Def \cup {NoDef}]
      BY <1>3, <1>7 DEF TableTypes
    <3>2. attached' \in SUBSET Slot
      BY <1>3, <1>7 DEF TableTypes
    <3>3. holder' \in [Key -> Lessee \cup {BusOwner(x) : x \in Name} \cup {NoOwner}]
      BY <1>7, TakeKeys
    <3>. QED  BY <1>2, <1>4, <3>1, <3>2, <3>3 DEF TableTypes
  <2>4. NamesUnique'
    BY <1>2, <1>3, <2>1 DEF NamesUnique, Used
  <2>5. AttachedUsed'
    BY <1>7, <2>1, BusesAssumption DEF AttachedUsed, Used, TableTypes
  <2>6. PortsOfUarts'
    BY <1>2, <1>3, <1>7, <2>1 DEF PortsOfUarts, ProtoAt
  <2>7. HardwareFollowsLeases'
    BY <1>2, <1>3, <1>5, <1>7, <2>1 DEF HardwareFollowsLeases, Used, ProtoAt
  <2>8. ExclusiveLease'
    BY <1>2, <1>3, <1>5, <2>1 DEF ExclusiveLease, Used, Sole
  <2>9. ManagerKeeps
    BY <1>1, <1>2, <1>3, <2>1, <2>2 DEF ManagerKeeps, TableTypes
  <2>. QED  BY <2>2, <2>3, <2>4, <2>5, <2>6, <2>7, <2>8, <2>9
<1>. QED  BY <1>1, <1>6, <1>7

LEMMA AttachTable ==
    ASSUME TableInv, NEW n \in Slot, Attach(n)
    PROVE  TableInv' /\ ManagerKeeps
<1>. USE DEF TableInv
<1>1. /\ Used(n) /\ n \notin attached /\ OwnKeys(bus[n])
      /\ attached' = attached \cup {n}
      /\ UNCHANGED <<bus, ready, port, gens, lease>>
  BY DEF Attach
<1>2. bus[n] \in Def
  BY <1>1, UsedDef
<1>3. \A m \in attached : NameOf[bus[m]] # NameOf[bus[n]]
  BY <1>1 DEF NamesUnique, AttachedUsed, TableTypes
<1>4. AttachedOwns' /\ DevicesKeep
  BY <1>1, <1>2, <1>3, OwnsAttached
<1>5. TableTypes'
  <2>1. holder' \in [Key -> Lessee \cup {BusOwner(x) : x \in Name} \cup {NoOwner}]
    BY <1>1, <1>2, TakeKeys
  <2>. QED  BY <1>1, <2>1 DEF TableTypes
<1>6. NamesUnique' /\ AttachedUsed' /\ PortsOfUarts'
  BY <1>1 DEF NamesUnique, AttachedUsed, PortsOfUarts, Used, ProtoAt
<1>7. HardwareFollowsLeases' /\ ExclusiveLease'
  BY <1>1 DEF HardwareFollowsLeases, ExclusiveLease, Used, ProtoAt, Leased, Sole
<1>8. ManagerKeeps
  BY <1>1, <1>4 DEF ManagerKeeps
<1>. QED  BY <1>4, <1>5, <1>6, <1>7, <1>8

LEMMA DetachTable ==
    ASSUME TableInv, NEW n \in Slot, Detach(n)
    PROVE  TableInv' /\ ManagerKeeps
<1>. USE DEF TableInv
<1>1. /\ n \in attached /\ ~Leased(n) /\ DropKeys(n)
      /\ ProtoAt(n) = "uart" => port[n] = "free"
      /\ attached' = attached \ {n} /\ ready' = ready \ {n}
      /\ UNCHANGED <<bus, port, gens, lease>>
  BY DEF Detach, MayDetach, Idle
<1>2. AttachedOwns' /\ DevicesKeep
  BY <1>1, OwnsDetached
<1>3. TableTypes'
  <2>1. holder' \in [Key -> Lessee \cup {BusOwner(x) : x \in Name} \cup {NoOwner}]
    BY <1>1, LoseKeys DEF AttachedUsed
  <2>. QED  BY <1>1, <2>1 DEF TableTypes
<1>4. NamesUnique' /\ AttachedUsed' /\ PortsOfUarts'
  BY <1>1 DEF NamesUnique, AttachedUsed, PortsOfUarts, Used, ProtoAt
<1>5. \A m \in Slot : Leased(m)' <=> Leased(m)
  BY <1>1 DEF Leased
<1>6. HardwareFollowsLeases' /\ ExclusiveLease'
  BY <1>1, <1>5 DEF HardwareFollowsLeases, ExclusiveLease, Used, ProtoAt, Sole
<1>7. ManagerKeeps
  BY <1>1, <1>2 DEF ManagerKeeps
<1>. QED  BY <1>2, <1>3, <1>4, <1>6, <1>7

LEMMA UnregisterTable ==
    ASSUME TableInv, NEW n \in Slot, Unregister(n)
    PROVE  TableInv' /\ ManagerKeeps
<1>. USE DEF TableInv
<1>1. /\ Used(n) /\ ~Leased(n)
      /\ n \in attached => (ProtoAt(n) = "uart" => port[n] = "free")
      /\ IF n \in attached THEN DropKeys(n) ELSE UNCHANGED holder
      /\ attached' = attached \ {n} /\ ready' = ready \ {n}
      /\ UNCHANGED <<port, gens, lease>>
  BY DEF Unregister, MayDetach
<1>2. /\ bus' \in [Slot -> Def \cup {NoDef}] /\ bus'[n] \in {bus[n], NoDef}
      /\ \A m \in Slot \ {n} : bus'[m] = bus[m]
  BY DEF Unregister, TableTypes
<1>3. AttachedOwns' /\ DevicesKeep
  <2>1. CASE n \in attached
    BY <1>1, <1>2, <2>1, OwnsDetached
  <2>2. CASE n \notin attached
    <3>1. UNCHANGED <<attached, holder>> /\ \A m \in attached : m \in Slot /\ bus'[m] = bus[m]
      BY <1>1, <1>2, <2>2 DEF TableTypes
    <3>. QED  BY <3>1 DEF AttachedOwns, DevicesKeep
  <2>. QED  BY <2>1, <2>2
<1>4. TableTypes'
  <2>1. holder' \in [Key -> Lessee \cup {BusOwner(x) : x \in Name} \cup {NoOwner}]
    BY <1>1, LoseKeys DEF TableTypes
  <2>. QED  BY <1>1, <1>2, <2>1 DEF TableTypes
<1>5. NamesUnique'
  BY <1>2 DEF NamesUnique, Used
<1>6. AttachedUsed' /\ PortsOfUarts'
  BY <1>1, <1>2 DEF AttachedUsed, PortsOfUarts, Used, ProtoAt, TableTypes
<1>7. \A m \in Slot : Leased(m)' <=> Leased(m)
  BY <1>1 DEF Leased
<1>8. HardwareFollowsLeases'
  BY <1>1, <1>2, <1>7 DEF HardwareFollowsLeases, PortsOfUarts, Used, ProtoAt
<1>9. ExclusiveLease'
  BY <1>1, <1>2, <1>7 DEF ExclusiveLease, Used, Sole
<1>10. ManagerKeeps
  BY <1>1, <1>2, <1>3 DEF ManagerKeeps
<1>. QED  BY <1>3, <1>4, <1>5, <1>6, <1>8, <1>9, <1>10

LEMMA PortTakenTable ==
    ASSUME TableInv, NEW n \in Slot, PortTaken(n)
    PROVE  TableInv' /\ ManagerKeeps
<1>. USE DEF TableInv
<1>1. /\ n \in attached /\ ProtoAt(n) = "uart"
      /\ port[n] # "lease"
      /\ \E p \in {"free", "other"} : port' = [port EXCEPT ![n] = p]
      /\ UNCHANGED <<bus, attached, ready, gens, lease, holder>>
  BY DEF PortTaken
<1>2. TableTypes'
  BY <1>1 DEF TableTypes
<1>3. NamesUnique' /\ AttachedUsed' /\ AttachedOwns' /\ ExclusiveLease'
  BY <1>1 DEF NamesUnique, AttachedUsed, AttachedOwns, ExclusiveLease, Used, Leased, Sole
<1>4. PortsOfUarts'
  BY <1>1 DEF PortsOfUarts, ProtoAt, TableTypes
<1>5. \A m \in Slot : Leased(m)' <=> Leased(m)
  BY <1>1 DEF Leased
<1>6. HardwareFollowsLeases'
  BY <1>1, <1>5 DEF HardwareFollowsLeases, ProtoAt, Used, TableTypes
<1>7. ManagerKeeps
  BY <1>1 DEF ManagerKeeps, DevicesKeep
<1>. QED  BY <1>2, <1>3, <1>4, <1>6, <1>7

-----------------------------------------------------------------------------
(* The tables initially, and under the leases and the devices' keys.       *)

LEMMA InitTable == Init => TableInv
<1>. SUFFICES ASSUME Init PROVE TableInv
  OBVIOUS
<1>. USE DEF Init
<1>1. /\ Len(BoardBuses) \in Nat /\ DOMAIN BoardBuses = 1 .. Len(BoardBuses)
      /\ \A i \in 1 .. Len(BoardBuses) : i \in Slot /\ BoardBuses[i] \in Def
  BY BusesAssumption DEF Slot
<1>2. \A n \in Slot : /\ n \in attached <=> n <= Len(BoardBuses)
                      /\ n \in attached => n \in DOMAIN BoardBuses /\ bus[n] = BoardBuses[n]
                      /\ Used(n) <=> n \in attached
                      /\ ~Leased(n) /\ port[n] = "free"
  BY <1>1, BusesAssumption DEF Slot, Used, Leased
<1>3. \A d \in Board : d \in Def /\ NameOf[d] \in Name
  BY <1>1 DEF Board, Name
<1>4. ASSUME NEW n \in attached, NEW k \in KeysOf[bus[n]]
      PROVE  k \in Key /\ holder[k] = BusOwner(NameOf[bus[n]])
  <2>1. n \in DOMAIN BoardBuses /\ bus[n] = BoardBuses[n] /\ bus[n] \in Board
    BY <1>2 DEF Board
  <2>2. k \in Key
    BY <1>3, <2>1, BusesAssumption
  <2>3. PICK d \in Board : k \in KeysOf[d] /\ d = CHOOSE e \in Board : k \in KeysOf[e]
    BY <2>1
  <2>4. PICK j \in DOMAIN BoardBuses : d = BoardBuses[j]
    BY DEF Board
  <2>5. j = n
    BY <2>1, <2>3, <2>4, BusesAssumption
  <2>. QED  BY <2>1, <2>2, <2>3, <2>4, <2>5
<1>5. ASSUME NEW k \in Key, ~\E d \in Board : k \in KeysOf[d]
      PROVE  holder[k] = NoOwner
  BY <1>5
<1>6. ASSUME NEW k \in Key, NEW d \in Board, k \in KeysOf[d]
      PROVE  \E n \in attached : bus[n] = d
  BY <1>1, <1>2 DEF Board
<1>7. AttachedOwns
  <2>1. ASSUME NEW k \in Key, NEW x \in Name, holder[k] = BusOwner(x)
        PROVE  \E n \in attached : NameOf[bus[n]] = x /\ k \in KeysOf[bus[n]]
    <3>1. PICK d \in Board : k \in KeysOf[d]
      BY <1>5, <2>1, Owners
    <3>2. PICK n \in attached : bus[n] = d
      BY <1>6, <3>1
    <3>3. NameOf[bus[n]] \in Name /\ holder[k] = BusOwner(NameOf[bus[n]])
      BY <1>3, <1>4, <3>1, <3>2
    <3>. QED  BY <2>1, <3>1, <3>2, <3>3, Owners
  <2>. QED  BY <1>4, <2>1 DEF AttachedOwns
<1>8. TableTypes
  <2>1. bus \in [Slot -> Def \cup {NoDef}]
    BY <1>1 DEF Slot
  <2>2. gens \in [Slot -> 0 .. MaxGen] /\ lease \in [Slot -> [Lessee -> Nat]]
    BY BusesAssumption
  <2>3. ASSUME NEW k \in Key
        PROVE  holder[k] \in {BusOwner(x) : x \in Name} \cup {NoOwner}
    BY <1>3, <1>4, <1>5, <1>6
  <2>4. holder \in [Key -> Lessee \cup {BusOwner(x) : x \in Name} \cup {NoOwner}]
    BY <2>3
  <2>5. attached \in SUBSET Slot /\ ready \in SUBSET Slot
    OBVIOUS
  <2>6. port \in [Slot -> {"free", "lease", "other"}]
    OBVIOUS
  <2>. QED  BY <2>1, <2>2, <2>4, <2>5, <2>6 DEF TableTypes
<1>9. NamesUnique
  BY <1>2, BusesAssumption DEF NamesUnique
<1>10. AttachedUsed /\ PortsOfUarts
  BY <1>2 DEF AttachedUsed, PortsOfUarts
<1>11. HardwareFollowsLeases /\ ExclusiveLease
  BY <1>2 DEF HardwareFollowsLeases, ExclusiveLease
<1>. QED  BY <1>7, <1>8, <1>9, <1>10, <1>11 DEF TableInv

\* A call about the leases of o: it touches no bus, no key and nobody else's
\* lease, and the bus of a pinned operation keeps a lease.
LeaseKeeps(o) ==
    /\ UNCHANGED <<bus, attached, gens, holder>>
    /\ \A n \in Slot : \A q \in Lessee \ {o} : lease'[n][q] = lease[n][q]
    /\ \A n \in Slot : Leased(n) /\ refs[n] > 0 => Leased(n)'

LEMMA AcquireTable ==
    ASSUME TableInv, NEW x, NEW p, NEW o \in Lessee, Acquire(x, p, o)
    PROVE  /\ TableInv' /\ LeaseKeeps(o)
           /\ \E n \in attached : /\ Is(n, x, p) /\ lease'[n][o] = lease[n][o] + 1
                                  /\ \A m \in Slot \ {n} : lease'[m] = lease[m]
<1>. USE DEF TableInv
<1>1. PICK n \in Slot :
         /\ Is(n, x, p) /\ Grants(n, o)
         /\ lease' = [lease EXCEPT ![n][o] = @ + 1]
         /\ IF Leased(n) THEN UNCHANGED <<ready, port>>
            ELSE /\ ready' = ready \cup {n}
                 /\ port' = IF p = "uart" THEN [port EXCEPT ![n] = "lease"] ELSE port
         /\ UNCHANGED <<bus, attached, gens, holder>>
  BY DEF Acquire
<1>2. /\ n \in attached /\ Used(n) /\ ProtoAt(n) = p
      /\ bus[n] \in Exclusive => lease[n][o] > 0 \/ ~Leased(n)
  BY <1>1 DEF Is, ProtoAt, Grants
<1>3. /\ lease[n] \in [Lessee -> Nat] /\ lease[n][o] \in Nat /\ lease' \in [Slot -> [Lessee -> Nat]]
      /\ lease'[n][o] = lease[n][o] + 1
      /\ \A q \in Lessee \ {o} : lease'[n][q] = lease[n][q]
      /\ \A m \in Slot \ {n} : lease'[m] = lease[m]
  BY <1>1 DEF TableTypes
<1>4. Leased(n)' /\ \A m \in Slot \ {n} : Leased(m)' <=> Leased(m)
  BY <1>3 DEF Leased
<1>5. TableTypes'
  BY <1>1, <1>3 DEF TableTypes
<1>6. NamesUnique' /\ AttachedUsed' /\ AttachedOwns'
  BY <1>1 DEF NamesUnique, AttachedUsed, AttachedOwns, Used
<1>7. /\ \A m \in Slot \ {n} : port'[m] = port[m] /\ (m \in ready' <=> m \in ready)
      /\ n \in ready' /\ (Leased(n) => port'[n] = port[n])
      /\ ~Leased(n) => port'[n] = IF p = "uart" THEN "lease" ELSE port[n]
  BY <1>1 DEF TableTypes, HardwareFollowsLeases
<1>8. PortsOfUarts'
  BY <1>1, <1>2, <1>7 DEF PortsOfUarts, ProtoAt
<1>9. HardwareFollowsLeases'
  BY <1>1, <1>2, <1>4, <1>7 DEF HardwareFollowsLeases, Used, ProtoAt
<1>10. ExclusiveLease'
  <2>1. ASSUME bus[n] \in Exclusive PROVE Sole(n, o)'
    <3>1. CASE ~Leased(n)
      BY <1>3, <3>1 DEF Leased, Sole
    <3>2. CASE Leased(n) /\ lease[n][o] > 0
      <4>1. PICK q \in Lessee : Sole(n, q)
        BY <2>1, <3>2 DEF ExclusiveLease
      <4>. QED  BY <1>3, <3>2, <4>1 DEF Sole
    <3>. QED  BY <1>2, <2>1, <3>1, <3>2
  <2>2. \A m \in Slot \ {n} : \A q \in Lessee : Sole(m, q)' <=> Sole(m, q)
    BY <1>3 DEF Sole
  <2>3. \A m \in Slot : Used(m)' <=> Used(m)
    BY <1>1 DEF Used
  <2>. QED  BY <1>1, <1>2, <1>4, <2>1, <2>2, <2>3 DEF ExclusiveLease
<1>11. LeaseKeeps(o)
  BY <1>1, <1>3, <1>4 DEF LeaseKeeps
<1>. QED  BY <1>1, <1>2, <1>3, <1>5, <1>6, <1>8, <1>9, <1>10, <1>11

\* The end of leases that keep no pinned bus.
LEMMA EndTable ==
    ASSUME TableInv, NEW o \in Lessee, NEW N \in SUBSET Slot, End(N, o),
           \A n \in N : lease[n][o] > 0 /\ ~Pinned(n, o)
    PROVE  /\ TableInv' /\ LeaseKeeps(o)
           /\ \A n \in Slot : lease'[n][o] = IF n \in N THEN 0 ELSE lease[n][o]
<1>. USE DEF TableInv
<1>. DEFINE stopped == {n \in N : Stops(n, o)}
<1>1. /\ lease' = [n \in Slot |-> IF n \in N THEN [lease[n] EXCEPT ![o] = 0] ELSE lease[n]]
      /\ ready' = ready \ stopped
      /\ port' = [n \in Slot |-> IF n \in stopped /\ ProtoAt(n) = "uart" THEN "free" ELSE port[n]]
      /\ UNCHANGED <<bus, attached, gens, holder>>
  BY DEF End
<1>2. \A n \in Slot : lease[n] \in [Lessee -> Nat]
  BY DEF TableTypes
<1>3. /\ \A n \in N : lease'[n] = [lease[n] EXCEPT ![o] = 0]
      /\ \A n \in Slot \ N : lease'[n] = lease[n]
  BY <1>1
<1>4. /\ \A n \in Slot : \A q \in Lessee \ {o} : lease'[n][q] = lease[n][q]
      /\ \A n \in Slot : lease'[n][o] = IF n \in N THEN 0 ELSE lease[n][o]
  BY <1>2, <1>3
<1>5. TableTypes'
  <2>1. lease' \in [Slot -> [Lessee -> Nat]]
    BY <1>1, <1>2
  <2>2. port' \in [Slot -> {"free", "lease", "other"}]
    BY <1>1 DEF TableTypes
  <2>. QED  BY <1>1, <2>1, <2>2 DEF TableTypes
<1>6. NamesUnique' /\ AttachedUsed' /\ AttachedOwns'
  BY <1>1 DEF NamesUnique, AttachedUsed, AttachedOwns, Used
<1>7. PortsOfUarts'
  BY <1>1 DEF PortsOfUarts, ProtoAt
<1>8. /\ \A n \in Slot \ N : Leased(n)' <=> Leased(n)
      /\ \A n \in N : Leased(n) /\ (Leased(n)' <=> ~Sole(n, o))
  <2>1. \A n \in Slot \ N : Leased(n)' <=> Leased(n)
    BY <1>3 DEF Leased
  <2>2. \A n \in N : Leased(n)
    BY DEF Leased
  <2>3. ASSUME NEW n \in N PROVE Leased(n)' <=> ~Sole(n, o)
    BY <1>2, <1>4 DEF Leased, Sole
  <2>. QED  BY <2>1, <2>2, <2>3
<1>9. \A n \in N : ProtoAt(n) = "uart" => Sole(n, o)
  <2>1. SUFFICES ASSUME NEW n \in N, ProtoAt(n) = "uart" PROVE Sole(n, o)
    OBVIOUS
  <2>2. Used(n) /\ bus[n] \in Exclusive
    BY <1>8, <2>1, UsedDef, BusesAssumption DEF ExclusiveLease, ProtoAt
  <2>3. PICK q \in Lessee : Sole(n, q)
    BY <1>8, <2>2 DEF ExclusiveLease
  <2>4. q = o
    BY <1>2, <2>3 DEF Sole
  <2>. QED  BY <2>3, <2>4
<1>10. HardwareFollowsLeases'
  <2>1. ASSUME NEW n \in Slot, n \notin N
        PROVE  /\ Leased(n)' => n \in attached' /\ n \in ready'
               /\ n \in ready' => n \in attached' /\ (ProtoAt(n)' = "i2c" \/ Leased(n)')
               /\ Used(n)' /\ ProtoAt(n)' = "uart" => (port'[n] = "lease" <=> Leased(n)')
    BY <1>1, <1>8, <2>1 DEF HardwareFollowsLeases, Used, ProtoAt
  <2>2. ASSUME NEW n \in N
        PROVE  /\ Leased(n)' => n \in attached' /\ n \in ready'
               /\ n \in ready' => n \in attached' /\ (ProtoAt(n)' = "i2c" \/ Leased(n)')
               /\ Used(n)' /\ ProtoAt(n)' = "uart" => (port'[n] = "lease" <=> Leased(n)')
    <3>1. n \in Slot /\ n \in attached /\ n \in ready /\ Used(n) /\ ProtoAt(n) \in Protocol
      BY <1>8, UsedDef DEF HardwareFollowsLeases, ExclusiveLease
    <3>2. n \in ready' <=> ~Stops(n, o)
      BY <1>1, <3>1
    <3>3. Stops(n, o) <=> ProtoAt(n) # "i2c" /\ Sole(n, o)
      BY <1>9, <3>1 DEF Stops, Protocol
    <3>4. ProtoAt(n) = "uart" => port'[n] = "free"
      BY <1>1, <1>9, <3>1 DEF Stops
    <3>5. ProtoAt(n)' = ProtoAt(n)
      BY <1>1 DEF ProtoAt
    <3>. QED  BY <1>1, <1>8, <1>9, <3>1, <3>2, <3>3, <3>4, <3>5
  <2>. QED  BY <2>1, <2>2 DEF HardwareFollowsLeases
<1>11. ExclusiveLease'
  <2>1. ASSUME NEW n \in Slot, NEW q \in Lessee, Sole(n, q) PROVE Sole(n, q)'
    BY <1>4, <2>1 DEF Sole
  <2>2. \A n \in Slot : Leased(n)' => Leased(n)
    BY <1>8
  <2>. QED  BY <1>1, <2>1, <2>2 DEF ExclusiveLease, Used
<1>12. LeaseKeeps(o)
  BY <1>1, <1>4, <1>8 DEF LeaseKeeps, Pinned
<1>. QED  BY <1>4, <1>5, <1>6, <1>7, <1>10, <1>11, <1>12

LEMMA ReleaseTable ==
    ASSUME TableInv, NEW x, NEW p, NEW o \in Lessee, Release(x, p, o)
    PROVE  /\ TableInv' /\ LeaseKeeps(o)
           /\ \A n \in Slot : IF Is(n, x, p) THEN lease'[n][o] + 1 >= lease[n][o]
                              ELSE lease'[n][o] = lease[n][o]
<1>. USE DEF TableInv
<1>1. \A n \in Slot : lease[n] \in [Lessee -> Nat] /\ lease[n][o] \in Nat
  BY DEF TableTypes
<1>2. CASE \E n \in Slot : /\ Is(n, x, p) /\ lease[n][o] > 1
                           /\ lease' = [lease EXCEPT ![n][o] = @ - 1]
                           /\ UNCHANGED <<bus, attached, ready, port, gens, holder>>
  <2>1. PICK n \in Slot : /\ Is(n, x, p) /\ lease[n][o] > 1
                          /\ lease' = [lease EXCEPT ![n][o] = @ - 1]
                          /\ UNCHANGED <<bus, attached, ready, port, gens, holder>>
    BY <1>2
  <2>2. /\ lease' \in [Slot -> [Lessee -> Nat]]
        /\ lease'[n][o] = lease[n][o] - 1
        /\ \A q \in Lessee \ {o} : lease'[n][q] = lease[n][q]
        /\ \A m \in Slot \ {n} : lease'[m] = lease[m]
    <3>1. lease[n][o] - 1 \in Nat
      BY <1>1, <2>1
    <3>. QED  BY <1>1, <2>1, <3>1 DEF TableTypes
  <2>3. \A m \in Slot : Leased(m)' <=> Leased(m)
    BY <1>1, <2>1, <2>2 DEF Leased
  <2>4. TableTypes' /\ NamesUnique' /\ AttachedUsed' /\ PortsOfUarts' /\ AttachedOwns'
    BY <2>1, <2>2 DEF TableTypes, NamesUnique, AttachedUsed, PortsOfUarts, AttachedOwns, Used, ProtoAt
  <2>5. HardwareFollowsLeases'
    BY <2>1, <2>3 DEF HardwareFollowsLeases, Used, ProtoAt
  <2>6. ExclusiveLease'
    <3>1. ASSUME NEW m \in Slot, NEW q \in Lessee, Sole(m, q) PROVE Sole(m, q)'
      <4>1. m = n => q = o
        BY <2>1, <3>1 DEF Sole
      <4>. QED  BY <2>2, <3>1, <4>1 DEF Sole
    <3>. QED  BY <2>1, <2>3, <3>1 DEF ExclusiveLease, Used
  <2>7. LeaseKeeps(o)
    BY <2>1, <2>2, <2>3 DEF LeaseKeeps
  <2>8. \A m \in Slot : IF Is(m, x, p) THEN lease'[m][o] + 1 >= lease[m][o]
                        ELSE lease'[m][o] = lease[m][o]
    BY <1>1, <2>1, <2>2
  <2>. QED  BY <2>4, <2>5, <2>6, <2>7, <2>8
<1>3. CASE \E n \in Slot : Is(n, x, p) /\ lease[n][o] = 1 /\ ~Pinned(n, o) /\ End({n}, o)
  <2>1. PICK n \in Slot : Is(n, x, p) /\ lease[n][o] = 1 /\ ~Pinned(n, o) /\ End({n}, o)
    BY <1>3
  <2>2. /\ TableInv' /\ LeaseKeeps(o)
        /\ \A m \in Slot : lease'[m][o] = IF m \in {n} THEN 0 ELSE lease[m][o]
    BY <2>1, EndTable
  <2>3. \A m \in Slot : IF Is(m, x, p) THEN lease'[m][o] + 1 >= lease[m][o]
                        ELSE lease'[m][o] = lease[m][o]
    BY <1>1, <2>1, <2>2
  <2>. QED  BY <2>2, <2>3
<1>4. CASE UNCHANGED tableVars
  <2>. USE DEF tableVars
  <2>1. TableTypes' /\ NamesUnique' /\ AttachedUsed' /\ PortsOfUarts' /\ AttachedOwns'
    BY <1>4 DEF TableTypes, NamesUnique, AttachedUsed, PortsOfUarts, AttachedOwns, Used, ProtoAt
  <2>2. HardwareFollowsLeases' /\ ExclusiveLease'
    BY <1>4 DEF HardwareFollowsLeases, ExclusiveLease, Used, ProtoAt, Leased, Sole
  <2>3. LeaseKeeps(o)
    BY <1>4 DEF LeaseKeeps, Leased
  <2>4. \A m \in Slot : IF Is(m, x, p) THEN lease'[m][o] + 1 >= lease[m][o]
                        ELSE lease'[m][o] = lease[m][o]
    BY <1>1, <1>4
  <2>. QED  BY <2>1, <2>2, <2>3, <2>4
<1>. QED  BY <1>2, <1>3, <1>4 DEF Release

LEMMA ReleaseOwnerTable ==
    ASSUME TableInv, NEW o \in Lessee, ReleaseOwner(o)
    PROVE  TableInv' /\ LeaseKeeps(o)
<1>1. PICK N \in SUBSET Slot : End(N, o) /\ \A n \in N : lease[n][o] > 0 /\ ~Pinned(n, o)
  BY DEF ReleaseOwner
<1>. QED  BY <1>1, EndTable

LEMMA SameTable ==
    ASSUME TableInv, UNCHANGED tableVars
    PROVE  TableInv'
<1>. USE DEF TableInv, tableVars
<1>1. TableTypes' /\ NamesUnique' /\ AttachedUsed' /\ PortsOfUarts' /\ AttachedOwns'
  BY DEF TableTypes, NamesUnique, AttachedUsed, PortsOfUarts, AttachedOwns, Used, ProtoAt
<1>2. HardwareFollowsLeases' /\ ExclusiveLease'
  BY DEF HardwareFollowsLeases, ExclusiveLease, Used, ProtoAt, Leased, Sole
<1>. QED  BY <1>1, <1>2

\* A device claims its keys, or gives everything back: the buses keep theirs,
\* and so do the other devices.
OthersKeep(d) == \A k \in Key : \A e \in Device \ {d} : holder'[k] = e <=> holder[k] = e

LEMMA DeviceKeysTable ==
    ASSUME TableInv, NEW d \in Device, NoBusChange,
           holder' \in [Key -> Lessee \cup {BusOwner(x) : x \in Name} \cup {NoOwner}],
           \A k \in Key : holder'[k] # holder[k] =>
              {holder[k], holder'[k]} \subseteq {NoOwner, d}
    PROVE  TableInv' /\ OthersKeep(d)
<1>. USE DEF TableInv, NoBusChange
<1>1. d \in Lessee /\ \A e \in Device : e # NoOwner
  BY ExpansionAssumption
<1>2. \A k \in Key, x \in Name : holder'[k] = BusOwner(x) <=> holder[k] = BusOwner(x)
  BY <1>1, Owners
<1>3. \A n \in attached : bus[n] \in Def /\ NameOf[bus[n]] \in Name /\ KeysOf[bus[n]] \in SUBSET Key
  BY UsedDef DEF AttachedUsed, TableTypes
<1>4. AttachedOwns'
  <2>1. ASSUME NEW n \in attached, NEW k \in KeysOf[bus[n]]
        PROVE  holder'[k] = BusOwner(NameOf[bus[n]])
    BY <1>2, <1>3 DEF AttachedOwns
  <2>2. ASSUME NEW k \in Key, NEW x \in Name, holder'[k] = BusOwner(x)
        PROVE  \E n \in attached : NameOf[bus[n]] = x /\ k \in KeysOf[bus[n]]
    BY <1>2, <2>2 DEF AttachedOwns
  <2>. QED  BY <2>1, <2>2 DEF AttachedOwns
<1>5. TableTypes' /\ NamesUnique' /\ AttachedUsed' /\ PortsOfUarts'
  BY DEF TableTypes, NamesUnique, AttachedUsed, PortsOfUarts, Used, ProtoAt
<1>6. HardwareFollowsLeases' /\ ExclusiveLease'
  BY DEF HardwareFollowsLeases, ExclusiveLease, Used, ProtoAt, Leased, Sole
<1>7. OthersKeep(d)
  BY <1>1 DEF OthersKeep
<1>. QED  BY <1>4, <1>5, <1>6, <1>7

LEMMA ClaimsTable ==
    ASSUME TableInv, NEW d \in Device, DevClaims(d), NoBusChange
    PROVE  TableInv' /\ OthersKeep(d) /\ \A k \in DevKeys[d] : holder'[k] = d
<1>1. d \in Lessee /\ DevKeys[d] \subseteq Key
  BY ExpansionAssumption
<1>2. /\ holder' = [k \in Key |-> IF k \in DevKeys[d] THEN d ELSE holder[k]]
      /\ \A k \in DevKeys[d] : holder[k] \in {NoOwner, d}
  BY DEF DevClaims, Registry!ClaimAll, Registry!Grantable
<1>3. holder' \in [Key -> Lessee \cup {BusOwner(x) : x \in Name} \cup {NoOwner}]
  BY <1>1, <1>2 DEF TableInv, TableTypes
<1>4. /\ \A k \in Key : holder'[k] # holder[k] => {holder[k], holder'[k]} \subseteq {NoOwner, d}
      /\ \A k \in DevKeys[d] : holder'[k] = d
  BY <1>1, <1>2
<1>. QED  BY <1>3, <1>4, DeviceKeysTable

LEMMA GiveBackTable ==
    ASSUME TableInv, NEW d \in Device, Registry!GiveBack(Key, d), NoBusChange
    PROVE  TableInv' /\ OthersKeep(d) /\ \A k \in Key : holder'[k] # d
<1>1. d \in Lessee /\ d # NoOwner
  BY ExpansionAssumption
<1>2. holder' = [k \in Key |-> IF holder[k] = d THEN NoOwner ELSE holder[k]]
  BY DEF Registry!GiveBack
<1>3. holder' \in [Key -> Lessee \cup {BusOwner(x) : x \in Name} \cup {NoOwner}]
  BY <1>2 DEF TableInv, TableTypes
<1>4. /\ \A k \in Key : holder'[k] # holder[k] => {holder[k], holder'[k]} \subseteq {NoOwner, d}
      /\ \A k \in Key : holder'[k] # d
  BY <1>1, <1>2
<1>. QED  BY <1>3, <1>4, DeviceKeysTable

-----------------------------------------------------------------------------
(* The operations in flight.                                               *)

\* Only t moves.
OthersRest(t) == \A u \in Task \ {t} : pc'[u] = pc[u] /\ fr'[u] = fr[u]

LEMMA UsersFinite ==
    ASSUME NEW n PROVE IsFiniteSet(Users(n)) /\ Cardinality(Users(n)) \in Nat
<1>1. Users(n) \subseteq Task
  BY DEF Users
<1>. QED  BY <1>1, FS_Subset, FS_CardinalityType, BusesAssumption

LEMMA CallersFinite ==
    ASSUME NEW n PROVE IsFiniteSet(Callers(n)) /\ Cardinality(Callers(n)) \in Nat
<1>1. Callers(n) \subseteq Task
  BY DEF Callers, Task
<1>. QED  BY <1>1, FS_Subset, FS_CardinalityType, BusesAssumption

LEMMA RefsAre ==
    RefsCounted <=> \A n \in Slot : refs[n] = Cardinality(Users(n))
  BY DEF RefsCounted, Users, Using

LEMMA CoversAre ==
    ServiceLeaseCovers <=>
        \A n \in Slot : Used(n) => lease[n][Service] >= Cardinality(Callers(n))
  BY DEF ServiceLeaseCovers, Callers

\* The bus of an operation is counted as in use.
LEMMA UserCounted ==
    ASSUME TaskInv, NEW t \in Task, Using(t)
    PROVE  slot(t) \in Slot /\ refs[slot(t)] \in Nat /\ refs[slot(t)] > 0
<1>1. slot(t) \in Slot /\ t \in Users(slot(t))
  BY DEF TaskInv, SlotsUsed, Users
<1>2. Cardinality(Users(slot(t))) > 0
  BY <1>1, UsersFinite, FS_EmptySet
<1>. QED  BY <1>1, <1>2, RefsAre DEF TaskInv, TaskTypes

LEMMA RefsSame ==
    ASSUME RefsCounted, NEW t \in Task, OthersRest(t), UNCHANGED refs,
           Using(t)' <=> Using(t), Using(t) => slot(t)' = slot(t)
    PROVE  RefsCounted'
<1>1. ASSUME NEW n \in Slot PROVE Users(n)' = Users(n)
  BY DEF OthersRest, Users, Using, InTransaction, slot
<1>2. \A n \in Slot : refs'[n] = Cardinality(Users(n)')
  BY <1>1, RefsAre
<1>. QED  BY <1>2 DEF RefsCounted, Users, Using

LEMMA RefsUp ==
    ASSUME RefsCounted, TaskTypes, NEW t \in Task, NEW n \in Slot, OthersRest(t),
           ~Using(t), Using(t)', slot(t)' = n, refs' = [refs EXCEPT ![n] = @ + 1]
    PROVE  RefsCounted'
<1>1. /\ \A m \in Slot \ {n} : Users(m)' = Users(m)
      /\ t \notin Users(n) /\ Users(n)' = Users(n) \cup {t}
  <2>. USE DEF OthersRest, Users, Using, InTransaction, slot
  <2>1. \A m \in Slot \ {n} : Users(m)' = Users(m)
    OBVIOUS
  <2>2. t \notin Users(n) /\ Users(n)' = Users(n) \cup {t}
    OBVIOUS
  <2>. QED  BY <2>1, <2>2
<1>2. Cardinality(Users(n)') = Cardinality(Users(n)) + 1
  BY <1>1, UsersFinite, FS_AddElement
<1>3. \A m \in Slot : refs'[m] = Cardinality(Users(m)')
  BY <1>1, <1>2, RefsAre DEF TaskTypes
<1>. QED  BY <1>3 DEF RefsCounted, Users, Using

LEMMA RefsDown ==
    ASSUME RefsCounted, TaskTypes, NEW t \in Task, NEW n \in Slot, OthersRest(t),
           Using(t), slot(t) = n, ~Using(t)', refs' = [refs EXCEPT ![n] = @ - 1]
    PROVE  RefsCounted'
<1>1. /\ \A m \in Slot \ {n} : Users(m)' = Users(m)
      /\ t \in Users(n) /\ Users(n)' = Users(n) \ {t}
  <2>. USE DEF OthersRest, Users, Using, InTransaction, slot
  <2>1. \A m \in Slot \ {n} : Users(m)' = Users(m)
    OBVIOUS
  <2>2. t \in Users(n) /\ Users(n)' = Users(n) \ {t}
    OBVIOUS
  <2>. QED  BY <2>1, <2>2
<1>2. Cardinality(Users(n)') = Cardinality(Users(n)) - 1
  BY <1>1, UsersFinite, FS_RemoveElement
<1>3. \A m \in Slot : refs'[m] = Cardinality(Users(m)')
  BY <1>1, <1>2, RefsAre DEF TaskTypes
<1>. QED  BY <1>3 DEF RefsCounted, Users, Using

\* The promise of PinnedStable to one operation.
PinnedBy(t) ==
    /\ Is(slot(t), fr[t].name, fr[t].proto)
    /\ gens[slot(t)] = fr[t].gen
    /\ slot(t) \in attached /\ Usable(slot(t))

\* A leased bus that is in use stays, with a lease.
BusesStay ==
    \A n \in Slot : Leased(n) /\ refs[n] > 0 =>
        bus'[n] = bus[n] /\ gens'[n] = gens[n] /\ Leased(n)'

LEMMA PinStays ==
    ASSUME TaskInv, TableInv', BusesStay, NEW t \in Task, InTransaction(t), fr'[t] = fr[t]
    PROVE  PinnedBy(t)'
<1>1. slot(t) \in Slot /\ refs[slot(t)] > 0
  BY UserCounted DEF Using
<1>2. PinnedBy(t)
  BY DEF TaskInv, PinnedStable, PinnedBy
<1>3. PICK n \in Slot : n = slot(t)
  BY <1>1
<1>4. bus'[n] = bus[n] /\ gens'[n] = gens[n] /\ Leased(n)'
  BY <1>1, <1>2, <1>3 DEF BusesStay, PinnedBy, Usable
<1>5. n \in attached' /\ n \in ready'
  BY <1>4 DEF TableInv, HardwareFollowsLeases
<1>. QED  BY <1>2, <1>3, <1>4, <1>5 DEF PinnedBy, Is, Used, Usable, slot

\* The service's leases stay where they are, and the buses under them.
ServiceStays ==
    \A n \in Slot : /\ lease'[n][Service] = lease[n][Service]
                    /\ lease[n][Service] > 0 => bus'[n] = bus[n]

\* A call of the service has a lease under it.
LEMMA CallBacked ==
    ASSUME TableInv, TaskInv, NEW t \in I2cUser, pc[t] \in PinPc
    PROVE  \E n \in Slot : /\ Is(n, fr[t].name, "i2c") /\ fr[t].proto = "i2c"
                           /\ lease[n][Service] > 0
<1>1. PICK n \in Slot : Is(n, fr[t].name, "i2c") /\ fr[t].proto = "i2c"
  BY DEF TaskInv, CallsBacked
<1>2. t \in Callers(n)
  BY <1>1 DEF Callers
<1>3. Cardinality(Callers(n)) > 0
  BY <1>2, CallersFinite, FS_EmptySet
<1>4. lease[n][Service] \in Nat
  BY BusesAssumption DEF TableInv, TableTypes
<1>5. lease[n][Service] >= Cardinality(Callers(n))
  BY <1>1, CoversAre DEF TaskInv, Is
<1>. QED  BY <1>1, <1>3, <1>4, <1>5, CallersFinite

\* Calls that end or go on need no more leases.
LEMMA CallsKept ==
    ASSUME TableInv, TableInv', TaskInv, ServiceStays,
           \A t \in I2cUser : pc'[t] \in PinPc =>
              pc[t] \in PinPc /\ fr'[t].name = fr[t].name /\ fr'[t].proto = fr[t].proto
    PROVE  CallsBacked' /\ ServiceLeaseCovers'
<1>1. ASSUME NEW t \in I2cUser, pc'[t] \in PinPc
      PROVE  \E n \in Slot : /\ Is(n, fr[t].name, "i2c")' /\ fr'[t].proto = "i2c"
                             /\ Is(n, fr[t].name, "i2c") /\ bus'[n] = bus[n]
  <2>1. PICK n \in Slot : /\ Is(n, fr[t].name, "i2c") /\ fr[t].proto = "i2c"
                          /\ lease[n][Service] > 0
    BY <1>1, CallBacked
  <2>2. bus'[n] = bus[n]
    BY <2>1 DEF ServiceStays
  <2>. QED  BY <1>1, <2>1, <2>2 DEF Is, Used
<1>2. CallsBacked'
  BY <1>1 DEF CallsBacked
<1>3. ASSUME NEW n \in Slot, Used(n)' PROVE Callers(n)' \subseteq Callers(n)
  <2>1. SUFFICES ASSUME NEW t \in I2cUser, pc'[t] \in PinPc,
                        Is(n, fr[t].name, fr[t].proto)'
                 PROVE  t \in Callers(n)
    BY DEF Callers
  <2>2. PICK m \in Slot : /\ Is(m, fr[t].name, "i2c")' /\ Is(m, fr[t].name, "i2c")
                          /\ fr'[t].proto = "i2c"
    BY <1>1, <2>1
  <2>3. m = n
    BY <2>1, <2>2 DEF TableInv, NamesUnique, Is
  <2>4. pc[t] \in PinPc /\ fr[t].proto = "i2c"
    BY <2>1, <2>2
  <2>. QED  BY <2>2, <2>3, <2>4 DEF Callers
<1>4. ASSUME NEW n \in Slot, Used(n)' PROVE lease'[n][Service] >= Cardinality(Callers(n)')
  <2>0. lease[n][Service] \in Nat
    BY BusesAssumption DEF TableInv, TableTypes
  <2>1. CASE Used(n)
    <3>1. lease[n][Service] >= Cardinality(Callers(n)) /\ lease'[n][Service] = lease[n][Service]
      BY <2>1, CoversAre DEF TaskInv, ServiceStays
    <3>2. Cardinality(Callers(n)') <= Cardinality(Callers(n)) /\ Cardinality(Callers(n)') \in Nat
      BY <1>3, <1>4, CallersFinite, FS_Subset, FS_CardinalityType
    <3>. QED  BY <2>0, <3>1, <3>2, CallersFinite
  <2>2. CASE ~Used(n)
    <3>1. Callers(n) = {}
      BY <2>2 DEF Callers, Is
    <3>2. Cardinality(Callers(n)') = 0
      BY <1>3, <1>4, <3>1, FS_EmptySet
    <3>. QED  BY <2>0, <3>2 DEF ServiceStays
  <2>. QED  BY <2>1, <2>2
<1>. QED  BY <1>2, <1>4 DEF ServiceLeaseCovers, Callers

-----------------------------------------------------------------------------
(* The operations under the steps that are not theirs, and under their own. *)

LEMMA OthersLeaveTasks ==
    ASSUME TableInv, TableInv', TaskInv, BusesStay, ServiceStays, UNCHANGED taskVars
    PROVE  TaskInv'
<1>. USE DEF taskVars
<1>1. TaskTypes' /\ SlotsUsed' /\ RefsCounted'
  BY DEF TaskInv, TaskTypes, SlotsUsed, RefsCounted, Using, InTransaction, slot
<1>2. ASSUME NEW t \in Task, InTransaction(t)' PROVE PinnedBy(t)'
  BY <1>2, PinStays DEF InTransaction
<1>3. PinnedStable'
  BY <1>2 DEF PinnedStable, PinnedBy
<1>4. CallsBacked' /\ ServiceLeaseCovers'
  BY CallsKept
<1>. QED  BY <1>1, <1>3, <1>4 DEF TaskInv

LEMMA SameStays ==
    ASSUME UNCHANGED tableVars PROVE BusesStay /\ ServiceStays
  BY DEF tableVars, BusesStay, ServiceStays, Leased

LEMMA ManagerStays ==
    ASSUME TableInv, ManagerKeeps PROVE BusesStay /\ ServiceStays
<1>1. \A n \in Slot : lease[n][Service] > 0 => Leased(n)
  BY BusesAssumption DEF Leased
<1>. QED  BY <1>1 DEF ManagerKeeps, BusesStay, ServiceStays, Leased

LEMMA LeaseStays ==
    ASSUME NEW o \in Lessee, LeaseKeeps(o) PROVE BusesStay /\ (o # Service => ServiceStays)
  BY BusesAssumption DEF LeaseKeeps, BusesStay, ServiceStays

LEMMA NoFrameType == NoFrame \in Frame
<1>1. 0 \in 0 .. BusMax /\ 0 \in 0 .. MaxGen
  BY BusesAssumption
<1>. QED  BY <1>1 DEF NoFrame, Frame, Protocol

\* What remains to be shown of a step of task t.
MovesPinned(t) == InTransaction(t)' => PinnedBy(t)'
LEMMA TaskMoves ==
    ASSUME TableInv', TaskInv, NEW t \in Task, OthersRest(t), BusesStay,
           MovesPinned(t), TaskTypes', RefsCounted', Using(t)' => slot(t)' \in Slot,
           CallsBacked', ServiceLeaseCovers'
    PROVE  TaskInv'
<1>1. SlotsUsed'
  BY DEF TaskInv, SlotsUsed, OthersRest, Using, InTransaction, slot
<1>2. ASSUME NEW u \in Task, InTransaction(u)' PROVE PinnedBy(u)'
  <2>1. CASE u = t
    BY <1>2, <2>1 DEF MovesPinned
  <2>2. CASE u # t
    BY <1>2, <2>2, PinStays DEF OthersRest, InTransaction
  <2>. QED  BY <2>1, <2>2
<1>3. PinnedStable'
  BY <1>2 DEF PinnedStable, PinnedBy
<1>. QED  BY <1>1, <1>3 DEF TaskInv

LEMMA TasksApart ==
    /\ I2cUser \subseteq Task /\ Driver \subseteq Task /\ Speeder \subseteq Task
    /\ \A t \in Driver \cup Speeder : t \notin I2cUser
  BY BusesAssumption DEF Task

\* A step of t that begins no call of the service.
LEMMA MoveCalls ==
    ASSUME TableInv, TableInv', TaskInv, ServiceStays, NEW t \in Task, OthersRest(t),
           t \in I2cUser /\ pc'[t] \in PinPc =>
              pc[t] \in PinPc /\ fr'[t].name = fr[t].name /\ fr'[t].proto = fr[t].proto
    PROVE  CallsBacked' /\ ServiceLeaseCovers'
<1>1. \A u \in I2cUser : pc'[u] \in PinPc =>
         pc[u] \in PinPc /\ fr'[u].name = fr[u].name /\ fr'[u].proto = fr[u].proto
  BY TasksApart DEF OthersRest
<1>. QED  BY <1>1, CallsKept

LEMMA FinishMoves ==
    ASSUME TaskTypes, NEW t \in I2cUser \cup Driver, Finish(t)
    PROVE  /\ OthersRest(t) /\ pc'[t] \in {"release", "idle"} /\ ~Using(t)' /\ ~InTransaction(t)'
           /\ t \in I2cUser => fr' = fr
           /\ t \notin I2cUser => pc'[t] = "idle"
           /\ pc' \in [Task -> {"idle"} \cup PinPc \cup SpeedPc] /\ fr' \in [Task -> Frame]
<1>1. t \in Task
  BY TasksApart
<1>2. CASE t \in I2cUser
  BY <1>1, <1>2 DEF Finish, Goto, TaskTypes, OthersRest, Using, InTransaction, PinPc, SpeedPc
<1>3. CASE t \notin I2cUser
  <2>1. pc' = [pc EXCEPT ![t] = "idle"] /\ fr' = [fr EXCEPT ![t] = NoFrame]
    BY <1>3 DEF Finish, Return, Goto
  <2>. QED  BY <1>1, <1>3, <2>1, NoFrameType DEF TaskTypes, OthersRest, Using, InTransaction, PinPc, SpeedPc
<1>. QED  BY <1>2, <1>3

LEMMA PinStep ==
    ASSUME TableInv, TaskInv, NEW t \in I2cUser \cup Driver, Pin(t)
    PROVE  TableInv' /\ TaskInv'
<1>0. t \in Task /\ TableInv' /\ BusesStay /\ ServiceStays
  BY SameTable, SameStays, TasksApart DEF Pin
<1>1. pc[t] = "pin" /\ ~Using(t) /\ UNCHANGED mutex /\ UNCHANGED tableVars /\ TaskTypes /\ RefsCounted
  BY DEF Pin, At, Using, InTransaction, SpeedPc, TaskInv
<1>2. CASE Finish(t) /\ UNCHANGED refs
  <2>1. /\ OthersRest(t) /\ ~Using(t)' /\ ~InTransaction(t)'
        /\ t \in I2cUser => fr' = fr
        /\ t \notin I2cUser => pc'[t] = "idle"
        /\ TaskTypes'
    BY <1>1, <1>2, FinishMoves DEF TaskTypes
  <2>2. RefsCounted'
    BY <1>0, <1>1, <1>2, <2>1, RefsSame
  <2>3. CallsBacked' /\ ServiceLeaseCovers'
    BY <1>0, <1>1, <2>1, MoveCalls DEF PinPc
  <2>. QED  BY <1>0, <2>1, <2>2, <2>3, TaskMoves DEF MovesPinned
<1>3. CASE \E n \in Slot : /\ Is(n, fr[t].name, fr[t].proto) /\ Usable(n)
                           /\ refs' = [refs EXCEPT ![n] = @ + 1]
                           /\ fr' = [fr EXCEPT ![t].slot = n, ![t].gen = gens[n]]
                           /\ Goto(t, "wait")
  <2>1. PICK n \in Slot : /\ Is(n, fr[t].name, fr[t].proto) /\ Usable(n)
                          /\ refs' = [refs EXCEPT ![n] = @ + 1]
                          /\ fr' = [fr EXCEPT ![t].slot = n, ![t].gen = gens[n]]
                          /\ pc' = [pc EXCEPT ![t] = "wait"]
    BY <1>3 DEF Goto
  <2>2. n \in 0 .. BusMax /\ gens[n] \in 0 .. MaxGen /\ fr[t] \in Frame
    BY <1>0, <1>1, BusesAssumption DEF Slot, TableInv, TableTypes, TaskTypes
  <2>3. /\ fr'[t] = [fr[t] EXCEPT !.slot = n, !.gen = gens[n]] /\ pc'[t] = "wait"
        /\ OthersRest(t)
    BY <1>0, <1>1, <2>1 DEF TaskTypes, OthersRest
  <2>4. /\ fr'[t] \in Frame /\ fr'[t].slot = n /\ fr'[t].gen = gens[n]
        /\ fr'[t].name = fr[t].name /\ fr'[t].proto = fr[t].proto
    BY <2>2, <2>3 DEF Frame
  <2>5. TaskTypes'
    <3>1. fr' \in [Task -> Frame]
      BY <1>0, <1>1, <2>1, <2>3, <2>4 DEF TaskTypes
    <3>2. pc' \in [Task -> {"idle"} \cup PinPc \cup SpeedPc]
      BY <1>0, <1>1, <2>1 DEF TaskTypes, PinPc
    <3>3. refs' \in [Slot -> Nat]
      BY <1>1, <2>1 DEF TaskTypes
    <3>. QED  BY <1>1, <3>1, <3>2, <3>3 DEF TaskTypes
  <2>6. Using(t)' /\ slot(t)' = n
    BY <2>3, <2>4 DEF Using, InTransaction, slot
  <2>7. RefsCounted'
    BY <1>0, <1>1, <2>1, <2>3, <2>6, RefsUp
  <2>8. CallsBacked' /\ ServiceLeaseCovers'
    <3>1. pc[t] \in PinPc /\ fr'[t].name = fr[t].name /\ fr'[t].proto = fr[t].proto
      BY <1>1, <2>4 DEF PinPc
    <3>2. OthersRest(t)
      BY <2>3
    <3>. QED  BY <1>0, <3>1, <3>2, MoveCalls
  <2>9. PinnedBy(t)'
    <3>1. n \in attached /\ n \in ready /\ Leased(n)
      BY <2>1 DEF Usable, TableInv, HardwareFollowsLeases
    <3>2. /\ n \in attached' /\ n \in ready' /\ Leased(n)'
          /\ bus'[n] = bus[n] /\ gens'[n] = gens[n]
      BY <1>1, <3>1 DEF tableVars, Leased
    <3>3. Is(n, fr[t].name, fr[t].proto)
      BY <2>1
    <3>. QED  BY <2>4, <3>2, <3>3 DEF PinnedBy, Is, Used, Usable, slot
  <2>. QED  BY <1>0, <2>3, <2>5, <2>6, <2>7, <2>8, <2>9, TaskMoves DEF MovesPinned
<1>. QED  BY <1>2, <1>3 DEF Pin

\* A step of an operation that keeps its bus: the frame stays, refs too.
LEMMA StayStep ==
    ASSUME TableInv, TaskInv, NEW t \in Task, UNCHANGED <<refs, fr>>, UNCHANGED tableVars,
           NEW l \in PinPc \cup SpeedPc, Goto(t, l), mutex' \in [Slot -> Task \cup {NoTask}],
           Using(t), Using(t)', InTransaction(t)' => InTransaction(t),
           l \in PinPc => pc[t] \in PinPc
    PROVE  TableInv' /\ TaskInv'
<1>0. TableInv' /\ BusesStay /\ ServiceStays
  BY SameTable, SameStays
<1>1. pc'[t] = l /\ OthersRest(t) /\ TaskTypes'
  BY DEF TaskInv, TaskTypes, Goto, OthersRest
<1>2. slot(t) \in Slot /\ slot(t)' = slot(t)
  BY UserCounted DEF slot
<1>3. RefsCounted'
  BY <1>1, <1>2, RefsSame DEF TaskInv
<1>4. CallsBacked' /\ ServiceLeaseCovers'
  BY <1>0, <1>1, MoveCalls
<1>5. MovesPinned(t)
  BY <1>0, PinStays DEF MovesPinned
<1>. QED  BY <1>0, <1>1, <1>2, <1>3, <1>4, <1>5, TaskMoves

\* The end of an operation that is counted.
LEMMA EndStep ==
    ASSUME TableInv, TaskInv, NEW t \in Task, UNCHANGED tableVars, OthersRest(t), TaskTypes',
           Using(t), ~Using(t)', refs' = [refs EXCEPT ![slot(t)] = @ - 1],
           t \in I2cUser => fr' = fr /\ pc[t] \in PinPc
    PROVE  TableInv' /\ TaskInv'
<1>0. TableInv' /\ BusesStay /\ ServiceStays
  BY SameTable, SameStays
<1>1. slot(t) \in Slot /\ RefsCounted /\ TaskTypes
  BY UserCounted DEF TaskInv
<1>2. RefsCounted'
  BY <1>1, RefsDown
<1>3. CallsBacked' /\ ServiceLeaseCovers'
  BY <1>0, MoveCalls
<1>4. MovesPinned(t)
  BY DEF MovesPinned, Using
<1>. QED  BY <1>0, <1>2, <1>3, <1>4, TaskMoves

LEMMA TakeMutexStep ==
    ASSUME TableInv, TaskInv, NEW t \in Task, TakeMutex(t)
    PROVE  TableInv' /\ TaskInv'
<1>1. Using(t) /\ InTransaction(t) /\ pc[t] \in PinPc
  BY DEF TakeMutex, At, Using, InTransaction, PinPc
<1>2. mutex' \in [Slot -> Task \cup {NoTask}]
  BY DEF TakeMutex, TaskInv, TaskTypes
<1>3. Using(t)'
  BY DEF TakeMutex, Goto, Using, InTransaction, TaskInv, TaskTypes
<1>. QED  BY <1>1, <1>2, <1>3, StayStep DEF TakeMutex, PinPc

LEMMA GiveMutexStep ==
    ASSUME TableInv, TaskInv, NEW t \in Task, GiveMutex(t)
    PROVE  TableInv' /\ TaskInv'
<1>1. Using(t) /\ InTransaction(t) /\ pc[t] \in PinPc
  BY DEF GiveMutex, At, Using, InTransaction, PinPc
<1>2. mutex' \in [Slot -> Task \cup {NoTask}]
  BY DEF GiveMutex, TaskInv, TaskTypes
<1>3. Using(t)'
  BY DEF GiveMutex, Goto, Using, InTransaction, TaskInv, TaskTypes
<1>. QED  BY <1>1, <1>2, <1>3, StayStep DEF GiveMutex, PinPc

\* The second look at the bus finds it: the frame does not even change.
LEMMA RecheckStep ==
    ASSUME TableInv, TaskInv, NEW t \in Task, Recheck(t)
    PROVE  TableInv' /\ TaskInv'
<1>1. Using(t) /\ InTransaction(t) /\ pc[t] \in PinPc
  BY DEF Recheck, At, Using, InTransaction, PinPc
<1>2. PinnedBy(t)
  BY <1>1 DEF TaskInv, PinnedStable, PinnedBy
<1>3. Used(slot(t)) /\ ProtoAt(slot(t)) = fr[t].proto /\ Usable(slot(t))
  BY <1>2 DEF PinnedBy, Is, ProtoAt
<1>4. /\ fr' = [fr EXCEPT ![t].gen = gens[slot(t)]]
      /\ Goto(t, "io") /\ UNCHANGED <<refs, mutex>> /\ UNCHANGED tableVars
  BY <1>3 DEF Recheck
<1>5. fr' = fr
  BY <1>2, <1>4 DEF PinnedBy, TaskInv, TaskTypes, Frame
<1>6. Using(t)' /\ mutex' \in [Slot -> Task \cup {NoTask}]
  BY <1>4 DEF Goto, Using, InTransaction, TaskInv, TaskTypes
<1>. QED  BY <1>1, <1>4, <1>5, <1>6, StayStep DEF PinPc

LEMMA UnpinStep ==
    ASSUME TableInv, TaskInv, NEW t \in I2cUser \cup Driver, Unpin(t)
    PROVE  TableInv' /\ TaskInv'
<1>0. t \in Task
  BY TasksApart
<1>1. Using(t) /\ InTransaction(t) /\ pc[t] \in PinPc
  BY DEF Unpin, At, Using, InTransaction, PinPc
<1>2. gens[slot(t)] = fr[t].gen /\ slot(t) \in Slot /\ refs[slot(t)] > 0 /\ TaskTypes
  BY <1>0, <1>1, UserCounted DEF TaskInv, PinnedStable
<1>3. refs' = [refs EXCEPT ![slot(t)] = @ - 1]
  BY <1>2 DEF Unpin
<1>4. Finish(t) /\ UNCHANGED mutex /\ UNCHANGED tableVars
  BY DEF Unpin
<1>5. /\ OthersRest(t) /\ ~Using(t)'
      /\ t \in I2cUser => fr' = fr
      /\ pc' \in [Task -> {"idle"} \cup PinPc \cup SpeedPc] /\ fr' \in [Task -> Frame]
  BY <1>2, <1>4, FinishMoves
<1>6. refs' \in [Slot -> Nat]
  BY <1>2, <1>3 DEF TaskTypes
<1>7. TaskTypes'
  BY <1>2, <1>4, <1>5, <1>6 DEF TaskTypes
<1>. QED  BY <1>0, <1>1, <1>3, <1>4, <1>5, <1>7, EndStep

\* A change of the rate: it pins the bus, but not as a transaction does.
LEMMA SpeedFindStep ==
    ASSUME TableInv, TaskInv, NEW t \in Speeder, NEW n \in Slot, SpeedFind(t, n)
    PROVE  TableInv' /\ TaskInv'
<1>0. t \in Task /\ t \notin I2cUser /\ TableInv' /\ BusesStay /\ ServiceStays
  BY SameTable, SameStays, TasksApart DEF SpeedFind
<1>1. /\ Used(n) /\ pc[t] = "idle" /\ pc' = [pc EXCEPT ![t] = "speed_wait"]
      /\ fr' = [fr EXCEPT ![t].name = NameOf[bus[n]], ![t].slot = n]
      /\ refs' = [refs EXCEPT ![n] = @ + 1]
      /\ UNCHANGED mutex /\ TaskTypes /\ RefsCounted
  BY DEF SpeedFind, At, Goto, TaskInv
<1>2. n \in 0 .. BusMax /\ NameOf[bus[n]] \in Name /\ fr[t] \in Frame
  BY <1>0, <1>1, UsedDef, BusesAssumption DEF Slot, TableInv, TaskTypes
<1>3. fr'[t] = [fr[t] EXCEPT !.name = NameOf[bus[n]], !.slot = n] /\ pc'[t] = "speed_wait"
  BY <1>0, <1>1 DEF TaskTypes
<1>4. OthersRest(t)
  BY <1>0, <1>1 DEF TaskTypes, OthersRest
<1>5. fr'[t] \in Frame /\ fr'[t].slot = n
  BY <1>2, <1>3 DEF Frame
<1>6. TaskTypes'
  <2>1. fr' \in [Task -> Frame]
    BY <1>0, <1>1, <1>5 DEF TaskTypes
  <2>2. pc' \in [Task -> {"idle"} \cup PinPc \cup SpeedPc]
    BY <1>0, <1>1 DEF TaskTypes, SpeedPc
  <2>3. refs' \in [Slot -> Nat]
    BY <1>1 DEF TaskTypes
  <2>. QED  BY <1>1, <2>1, <2>2, <2>3 DEF TaskTypes
<1>7. ~Using(t) /\ Using(t)' /\ ~InTransaction(t)' /\ slot(t)' = n
  BY <1>1, <1>3, <1>5 DEF Using, InTransaction, SpeedPc, slot
<1>8. RefsCounted'
  BY <1>0, <1>1, <1>4, <1>7, RefsUp
<1>9. CallsBacked' /\ ServiceLeaseCovers'
  BY <1>0, <1>4, MoveCalls
<1>. QED  BY <1>0, <1>4, <1>6, <1>7, <1>8, <1>9, TaskMoves DEF MovesPinned

LEMMA SpeedMutexStep ==
    ASSUME TableInv, TaskInv, NEW t \in Speeder, SpeedMutex(t)
    PROVE  TableInv' /\ TaskInv'
<1>1. t \in Task /\ Using(t) /\ Using(t)' /\ ~InTransaction(t)'
  BY TasksApart DEF SpeedMutex, At, Goto, Using, InTransaction, SpeedPc, TaskInv, TaskTypes
<1>2. mutex' \in [Slot -> Task \cup {NoTask}]
  BY <1>1 DEF SpeedMutex, TaskInv, TaskTypes
<1>. QED  BY <1>1, <1>2, StayStep DEF SpeedMutex, SpeedPc, PinPc

LEMMA SpeedSetStep ==
    ASSUME TableInv, TaskInv, NEW t \in Speeder, SpeedSet(t)
    PROVE  TableInv' /\ TaskInv'
<1>1. t \in Task /\ t \notin I2cUser /\ Using(t) /\ TaskTypes
  BY TasksApart DEF SpeedSet, At, Using, SpeedPc, TaskInv
<1>2. slot(t) \in Slot /\ refs[slot(t)] \in Nat /\ refs[slot(t)] > 0
  BY <1>1, UserCounted
<1>3. /\ refs' = [refs EXCEPT ![slot(t)] = @ - 1]
      /\ mutex' = [mutex EXCEPT ![slot(t)] = NoTask]
      /\ pc' = [pc EXCEPT ![t] = "idle"] /\ fr' = [fr EXCEPT ![t] = NoFrame]
      /\ UNCHANGED tableVars
  BY <1>2 DEF SpeedSet, Return, Goto
<1>4. pc'[t] = "idle" /\ OthersRest(t)
  BY <1>1, <1>3 DEF TaskTypes, OthersRest
<1>5. TaskTypes'
  <2>1. refs' \in [Slot -> Nat]
    BY <1>1, <1>2, <1>3 DEF TaskTypes
  <2>. QED  BY <1>1, <1>2, <1>3, <2>1, NoFrameType DEF TaskTypes
<1>6. ~Using(t)'
  BY <1>4 DEF Using, InTransaction, SpeedPc
<1>. QED  BY <1>1, <1>3, <1>4, <1>5, <1>6, EndStep

\* The begin of a call: a name, and nothing counted yet.
LEMMA CallMoves ==
    ASSUME TaskTypes, NEW t \in Task, NEW x \in Name, NEW p \in Protocol, Call(t, "pin", x, p)
    PROVE  /\ OthersRest(t) /\ ~Using(t) /\ ~Using(t)' /\ ~InTransaction(t)'
           /\ pc[t] = "idle" /\ pc'[t] = "pin" /\ fr'[t].name = x /\ fr'[t].proto = p
           /\ pc' \in [Task -> {"idle"} \cup PinPc \cup SpeedPc] /\ fr' \in [Task -> Frame]
<1>1. /\ pc[t] = "idle" /\ pc' = [pc EXCEPT ![t] = "pin"]
      /\ fr' = [fr EXCEPT ![t].name = x, ![t].proto = p]
  BY DEF Call, At, Goto
<1>2. fr[t] \in Frame /\ pc'[t] = "pin" /\ fr'[t] = [fr[t] EXCEPT !.name = x, !.proto = p]
  BY <1>1 DEF TaskTypes
<1>3. fr'[t] \in Frame /\ fr'[t].name = x /\ fr'[t].proto = p
  BY <1>2 DEF Frame
<1>4. pc' \in [Task -> {"idle"} \cup PinPc \cup SpeedPc] /\ OthersRest(t)
  BY <1>1 DEF TaskTypes, PinPc, OthersRest
<1>5. fr' \in [Task -> Frame]
  BY <1>1, <1>3 DEF TaskTypes
<1>6. ~Using(t) /\ ~Using(t)' /\ ~InTransaction(t)'
  BY <1>1, <1>2 DEF Using, InTransaction, SpeedPc
<1>. QED  BY <1>1, <1>2, <1>3, <1>4, <1>5, <1>6

LEMMA NeedsAre ==
    ASSUME NEW d \in Device
    PROVE  /\ Len(Needs[d]) \in Nat /\ DOMAIN Needs[d] = 1 .. Len(Needs[d])
           /\ \A i \in DOMAIN Needs[d] : Needs[d][i].name \in Name /\ Needs[d][i].proto \in Protocol
<1>. DEFINE Bus == [name : Name, proto : Protocol]
<1>1. Needs[d] \in Seq(Bus)
  BY ExpansionAssumption
<1>2. \A b \in Bus : b.name \in Name /\ b.proto \in Protocol
  OBVIOUS
<1>. HIDE DEF Bus
<1>3. /\ Len(Needs[d]) \in Nat /\ DOMAIN Needs[d] = 1 .. Len(Needs[d])
      /\ \A i \in DOMAIN Needs[d] : Needs[d][i] \in Bus
  BY <1>1
<1>. QED  BY <1>2, <1>3

LEMMA DriverCallStep ==
    ASSUME TableInv, TaskInv, NEW t \in Driver, NEW d \in Device, DriverCall(t, d)
    PROVE  TableInv' /\ TaskInv'
<1>0. t \in Task /\ t \notin I2cUser /\ TableInv' /\ BusesStay /\ ServiceStays
  BY SameTable, SameStays, TasksApart DEF DriverCall
<1>1. PICK i \in DOMAIN Needs[d] : Call(t, "pin", Needs[d][i].name, Needs[d][i].proto)
  BY DEF DriverCall
<1>2. Needs[d][i].name \in Name /\ Needs[d][i].proto \in Protocol
  BY NeedsAre
<1>3. /\ OthersRest(t) /\ ~Using(t) /\ ~Using(t)' /\ ~InTransaction(t)'
      /\ pc' \in [Task -> {"idle"} \cup PinPc \cup SpeedPc] /\ fr' \in [Task -> Frame]
  BY <1>0, <1>1, <1>2, CallMoves DEF TaskInv
<1>4. UNCHANGED <<refs, mutex>> /\ TaskTypes /\ RefsCounted
  BY DEF DriverCall, TaskInv
<1>5. TaskTypes'
  BY <1>3, <1>4 DEF TaskTypes
<1>6. RefsCounted'
  BY <1>0, <1>3, <1>4, RefsSame
<1>7. CallsBacked' /\ ServiceLeaseCovers'
  BY <1>0, <1>3, MoveCalls
<1>. QED  BY <1>0, <1>3, <1>5, <1>6, <1>7, TaskMoves DEF MovesPinned

\* A call of the service begins with a lease of its own under it.
LEMMA ServiceAcquireStep ==
    ASSUME TableInv, TaskInv, NEW t \in I2cUser, NEW x \in Name, ServiceAcquire(t, x)
    PROVE  TableInv' /\ TaskInv' /\ LeaseKeeps(Service)
<1>0. t \in Task /\ Service \in Lessee /\ "i2c" \in Protocol
  BY TasksApart, BusesAssumption DEF Protocol
<1>1. TableInv' /\ LeaseKeeps(Service)
  BY <1>0, AcquireTable DEF ServiceAcquire
<1>2. PICK n \in attached : /\ Is(n, x, "i2c") /\ lease'[n][Service] = lease[n][Service] + 1
                            /\ \A m \in Slot \ {n} : lease'[m] = lease[m]
  BY <1>0, AcquireTable DEF ServiceAcquire
<1>3. n \in Slot /\ bus' = bus /\ \A m \in Slot : lease[m][Service] \in Nat
  BY <1>0, <1>1 DEF TableInv, TableTypes, LeaseKeeps
<1>4. BusesStay
  BY <1>0, <1>1, LeaseStays
<1>5. /\ OthersRest(t) /\ ~Using(t) /\ ~Using(t)' /\ ~InTransaction(t)'
      /\ pc[t] = "idle" /\ pc'[t] = "pin" /\ fr'[t].name = x /\ fr'[t].proto = "i2c"
      /\ pc' \in [Task -> {"idle"} \cup PinPc \cup SpeedPc] /\ fr' \in [Task -> Frame]
  BY <1>0, CallMoves DEF ServiceAcquire, TaskInv
<1>6. UNCHANGED <<refs, mutex>> /\ TaskTypes /\ RefsCounted
  BY DEF ServiceAcquire, TaskInv
<1>7. TaskTypes'
  BY <1>5, <1>6 DEF TaskTypes
<1>8. RefsCounted'
  BY <1>0, <1>5, <1>6, RefsSame
<1>9. CallsBacked'
  <2>1. ASSUME NEW u \in I2cUser, pc'[u] \in PinPc
        PROVE  fr'[u].proto = "i2c" /\ \E m \in Slot : Is(m, fr'[u].name, "i2c")
    <3>1. CASE u = t
      BY <1>2, <1>3, <1>5, <3>1
    <3>2. CASE u # t
      <4>1. pc[u] \in PinPc /\ fr'[u] = fr[u]
        BY <1>5, <2>1, <3>2, TasksApart DEF OthersRest
      <4>. QED  BY <4>1 DEF TaskInv, CallsBacked
    <3>. QED  BY <3>1, <3>2
  <2>. QED  BY <1>3, <2>1 DEF CallsBacked, Is, Used
<1>10. ASSUME NEW m \in Slot, Used(m)' PROVE lease'[m][Service] >= Cardinality(Callers(m)')
  <2>1. lease[m][Service] >= Cardinality(Callers(m)) /\ Cardinality(Callers(m)) \in Nat
    BY <1>3, <1>10, CoversAre, CallersFinite DEF TaskInv, Used
  <2>2. CASE m = n
    <3>1. Callers(m)' \subseteq Callers(m) \cup {t}
      BY <1>3, <1>5, TasksApart DEF Callers, Is, Used, OthersRest
    <3>2. t \notin Callers(m)
      BY <1>5 DEF Callers, PinPc
    <3>3. /\ IsFiniteSet(Callers(m) \cup {t})
          /\ Cardinality(Callers(m) \cup {t}) = Cardinality(Callers(m)) + 1
      BY <3>2, CallersFinite, FS_AddElement
    <3>4. Cardinality(Callers(m)') <= Cardinality(Callers(m)) + 1 /\ Cardinality(Callers(m)') \in Nat
      BY <3>1, <3>3, FS_Subset, FS_CardinalityType
    <3>. QED  BY <1>2, <1>3, <2>1, <2>2, <3>4
  <2>3. CASE m # n
    <3>1. Callers(m)' \subseteq Callers(m)
      <4>1. SUFFICES ASSUME NEW u \in I2cUser, pc'[u] \in PinPc, Is(m, fr[u].name, fr[u].proto)'
                     PROVE  u \in Callers(m)
        BY DEF Callers
      <4>2. u # t
        <5>1. Used(n) /\ Used(m) /\ NameOf[bus[n]] = x
          BY <1>2, <1>3, <1>10 DEF Is, Used
        <5>2. NameOf[bus[m]] # x
          BY <1>3, <2>3, <5>1 DEF TableInv, NamesUnique
        <5>. QED  BY <1>3, <1>5, <4>1, <5>2 DEF Is
      <4>3. pc[u] = pc'[u] /\ fr'[u] = fr[u]
        BY <1>5, <4>2, TasksApart DEF OthersRest
      <4>. QED  BY <1>3, <4>1, <4>3 DEF Callers, Is, Used
    <3>2. Cardinality(Callers(m)') <= Cardinality(Callers(m)) /\ Cardinality(Callers(m)') \in Nat
      BY <3>1, CallersFinite, FS_Subset, FS_CardinalityType
    <3>3. lease'[m][Service] = lease[m][Service]
      BY <1>2, <2>3
    <3>. QED  BY <1>3, <2>1, <3>2, <3>3
  <2>. QED  BY <2>2, <2>3
<1>11. ServiceLeaseCovers'
  BY <1>10 DEF ServiceLeaseCovers, Callers
<1>. QED  BY <1>0, <1>1, <1>4, <1>5, <1>7, <1>8, <1>9, <1>11, TaskMoves DEF MovesPinned

\* And ends with one lease less, unless the bus cannot lose it.
LEMMA ServiceReleaseStep ==
    ASSUME TableInv, TaskInv, NEW t \in I2cUser, ServiceRelease(t)
    PROVE  TableInv' /\ TaskInv' /\ LeaseKeeps(Service)
<1>0. t \in Task /\ Service \in Lessee
  BY TasksApart, BusesAssumption
<1>1. /\ TableInv' /\ LeaseKeeps(Service)
      /\ \A n \in Slot : IF Is(n, fr[t].name, "i2c")
                         THEN lease'[n][Service] + 1 >= lease[n][Service]
                         ELSE lease'[n][Service] = lease[n][Service]
  BY <1>0, ReleaseTable DEF ServiceRelease
<1>2. /\ bus' = bus /\ BusesStay
      /\ \A m \in Slot : lease[m][Service] \in Nat /\ lease'[m][Service] \in Nat
  BY <1>0, <1>1, LeaseStays DEF TableInv, TableTypes, LeaseKeeps
<1>3. /\ pc[t] = "release" /\ pc' = [pc EXCEPT ![t] = "idle"] /\ fr' = [fr EXCEPT ![t] = NoFrame]
      /\ UNCHANGED <<refs, mutex>> /\ TaskTypes /\ RefsCounted
  BY DEF ServiceRelease, At, Return, Goto, TaskInv
<1>4. pc'[t] = "idle" /\ OthersRest(t)
  BY <1>0, <1>3 DEF TaskTypes, OthersRest
<1>5. TaskTypes'
  BY <1>3, NoFrameType DEF TaskTypes
<1>6. ~Using(t) /\ ~Using(t)' /\ ~InTransaction(t)'
  BY <1>3, <1>4 DEF Using, InTransaction, SpeedPc
<1>7. RefsCounted'
  BY <1>0, <1>3, <1>4, <1>6, RefsSame
<1>8. ASSUME NEW u \in I2cUser, pc'[u] \in PinPc
      PROVE  u # t /\ pc[u] \in PinPc /\ fr'[u] = fr[u]
  BY <1>4, <1>8, TasksApart DEF OthersRest, PinPc
<1>9. CallsBacked'
  <2>1. ASSUME NEW u \in I2cUser, pc'[u] \in PinPc
        PROVE  fr'[u].proto = "i2c" /\ \E m \in Slot : Is(m, fr'[u].name, "i2c")
    BY <1>8, <2>1 DEF TaskInv, CallsBacked
  <2>. QED  BY <1>2, <2>1 DEF CallsBacked, Is, Used
<1>10. ASSUME NEW m \in Slot, Used(m)' PROVE lease'[m][Service] >= Cardinality(Callers(m)')
  <2>1. lease[m][Service] >= Cardinality(Callers(m)) /\ Cardinality(Callers(m)) \in Nat
    BY <1>2, <1>10, CoversAre, CallersFinite DEF TaskInv, Used
  <2>2. Callers(m)' \subseteq Callers(m) \ {t}
    BY <1>2, <1>8 DEF Callers, Is, Used
  <2>3. CASE t \in Callers(m)
    <3>1. IsFiniteSet(Callers(m) \ {t}) /\ Cardinality(Callers(m) \ {t}) = Cardinality(Callers(m)) - 1
      BY <2>3, CallersFinite, FS_RemoveElement
    <3>2. Cardinality(Callers(m)') <= Cardinality(Callers(m)) - 1 /\ Cardinality(Callers(m)') \in Nat
      BY <2>2, <3>1, FS_Subset, FS_CardinalityType
    <3>3. lease'[m][Service] + 1 >= lease[m][Service]
      BY <1>1, <1>2
    <3>. QED  BY <1>2, <2>1, <3>2, <3>3
  <2>4. CASE t \notin Callers(m)
    <3>1. Cardinality(Callers(m)') <= Cardinality(Callers(m)) /\ Cardinality(Callers(m)') \in Nat
      BY <2>2, CallersFinite, FS_Subset, FS_CardinalityType
    <3>2. fr[t].proto = "i2c"
      BY <1>3 DEF TaskInv, CallsBacked, PinPc
    <3>3. ~Is(m, fr[t].name, "i2c")
      BY <1>3, <2>4, <3>2 DEF Callers, PinPc
    <3>. QED  BY <1>1, <1>2, <2>1, <3>1, <3>3
  <2>. QED  BY <2>3, <2>4
<1>11. ServiceLeaseCovers'
  BY <1>10 DEF ServiceLeaseCovers, Callers
<1>. QED  BY <1>0, <1>1, <1>2, <1>4, <1>5, <1>6, <1>7, <1>9, <1>11, TaskMoves DEF MovesPinned

LEMMA InitTasks == Init => TaskInv
<1>. SUFFICES ASSUME Init PROVE TaskInv
  OBVIOUS
<1>1. /\ \A t \in Task : pc[t] = "idle" /\ ~Using(t) /\ ~InTransaction(t)
      /\ \A n \in Slot : refs[n] = 0
  BY DEF Init, Using, InTransaction, SpeedPc
<1>2. TaskTypes
  BY NoFrameType DEF Init, TaskTypes
<1>3. SlotsUsed /\ PinnedStable
  BY <1>1 DEF SlotsUsed, PinnedStable
<1>4. RefsCounted
  <2>1. \A n \in Slot : Users(n) = {}
    BY <1>1 DEF Users
  <2>. QED  BY <1>1, <2>1, RefsAre, FS_EmptySet
<1>5. CallsBacked
  BY <1>1, TasksApart DEF CallsBacked, PinPc
<1>6. ServiceLeaseCovers
  <2>1. \A n \in Slot : Callers(n) = {}
    BY <1>1, TasksApart DEF Callers, PinPc
  <2>2. \A n \in Slot : lease[n][Service] = 0
    BY BusesAssumption DEF Init
  <2>. QED  BY <2>1, <2>2, CoversAre, FS_EmptySet
<1>. QED  BY <1>2, <1>3, <1>4, <1>5, <1>6 DEF TaskInv

-----------------------------------------------------------------------------
(* The devices, under the steps of others and under their own.             *)

\* What DeviceInv says of one device.
Stands(d) ==
    /\ stage[d] = "acquire" => nth[d] \in DOMAIN Needs[d]
    /\ stage[d] \in Working \cup {"acquire"} => \A k \in DevKeys[d] : holder[k] = d
    /\ \A i \in DOMAIN Needs[d] :
          stage[d] \in Working \/ (stage[d] = "acquire" /\ i < nth[d]) => Has(d, Needs[d][i])
    /\ stage[d] \in {"none", "claim", "undo_node", "drop_node"} => \A k \in Key : holder[k] # d

LEMMA AllStand == DeviceInv <=> DeviceTypes /\ \A d \in Device : Stands(d)
  BY DEF DeviceInv, NextBus, KeysHeld, BusesHeld, NoKeys, Stands

\* The keys and the leases of d stay.
KeysStay(d) == \A k \in Key : holder'[k] = d <=> holder[k] = d
LeasesStay(d) == \A n \in Slot : lease[n][d] > 0 => lease'[n][d] > 0 /\ bus'[n] = bus[n]

LEMMA HasStays ==
    ASSUME TableInv, TableInv', NEW d \in Device, LeasesStay(d), NEW need, Has(d, need)
    PROVE  Has(d, need)'
<1>1. PICK n \in attached : Is(n, need.name, need.proto) /\ lease[n][d] > 0
  BY DEF Has
<1>2. n \in Slot /\ lease'[n][d] > 0 /\ bus'[n] = bus[n]
  BY <1>1 DEF TableInv, TableTypes, LeasesStay
<1>3. n \in attached'
  <2>1. Leased(n)'
    BY <1>2, ExpansionAssumption DEF Leased
  <2>. QED  BY <1>2, <2>1 DEF TableInv, HardwareFollowsLeases
<1>. QED  BY <1>1, <1>2, <1>3 DEF Has, Is, Used

\* A device that does not move stands.
LEMMA StandStays ==
    ASSUME TableInv, TableInv', NEW d \in Device, Stands(d), KeysStay(d), LeasesStay(d),
           stage'[d] = stage[d], nth'[d] = nth[d]
    PROVE  Stands(d)'
<1>1. \A k \in DevKeys[d] : k \in Key
  BY ExpansionAssumption
<1>2. ASSUME NEW i \in DOMAIN Needs[d], Has(d, Needs[d][i]) PROVE Has(d, Needs[d][i])'
  <2>1. PICK need : need = Needs[d][i]
    OBVIOUS
  <2>2. Has(d, need)'
    BY <1>2, <2>1, HasStays
  <2>. QED  BY <2>1, <2>2
<1>. QED  BY <1>1, <1>2 DEF Stands, KeysStay

LEMMA OthersLeaveDevices ==
    ASSUME TableInv, TableInv', DeviceInv, UNCHANGED devVars,
           \A d \in Device : KeysStay(d) /\ LeasesStay(d)
    PROVE  DeviceInv'
<1>. USE DEF devVars
<1>1. DeviceTypes'
  BY DEF DeviceInv, DeviceTypes
<1>2. \A d \in Device : Stands(d)'
  BY StandStays, AllStand
<1>. QED  BY <1>1, <1>2 DEF DeviceInv, NextBus, KeysHeld, BusesHeld, NoKeys, Stands

LEMMA SameDevices ==
    ASSUME UNCHANGED tableVars, NEW d PROVE KeysStay(d) /\ LeasesStay(d)
  BY DEF tableVars, KeysStay, LeasesStay

LEMMA ManagerDevices ==
    ASSUME ManagerKeeps, NEW d \in Device PROVE KeysStay(d) /\ LeasesStay(d)
<1>1. \A n \in Slot : lease[n][d] > 0 => Leased(n)
  BY ExpansionAssumption DEF Leased
<1>. QED  BY <1>1 DEF ManagerKeeps, DevicesKeep, KeysStay, LeasesStay

LEMMA LeaseDevices ==
    ASSUME NEW o \in Lessee, LeaseKeeps(o), NEW d \in Device, d # o PROVE KeysStay(d) /\ LeasesStay(d)
  BY ExpansionAssumption DEF LeaseKeeps, KeysStay, LeasesStay

LEMMA KeyDevices ==
    ASSUME NEW e \in Device, OthersKeep(e), NoBusChange, NEW d \in Device, d # e
    PROVE  KeysStay(d) /\ LeasesStay(d)
  BY DEF OthersKeep, NoBusChange, KeysStay, LeasesStay

\* What remains to be shown of a step of device d.
OthersStand(d) == \A e \in Device \ {d} : stage'[e] = stage[e] /\ nth'[e] = nth[e]

LEMMA DeviceMoves ==
    ASSUME TableInv, TableInv', DeviceInv, NEW d \in Device, OthersStand(d),
           \A e \in Device \ {d} : KeysStay(e) /\ LeasesStay(e),
           DeviceTypes', Stands(d)'
    PROVE  DeviceInv'
<1>1. ASSUME NEW e \in Device PROVE Stands(e)'
  <2>1. CASE e = d
    BY <2>1
  <2>2. CASE e # d
    BY <2>2, StandStays, AllStand DEF OthersStand
  <2>. QED  BY <2>1, <2>2
<1>. QED  BY <1>1 DEF DeviceInv, NextBus, KeysHeld, BusesHeld, NoKeys, Stands

LEMMA Moved ==
    ASSUME DeviceTypes, NEW d \in Device, NEW s \in Stage, To(d, s), UNCHANGED nth
    PROVE  stage'[d] = s /\ nth'[d] = nth[d] /\ OthersStand(d) /\ DeviceTypes'
  BY DEF DeviceTypes, To, OthersStand

\* A step that touches no bus and no key.
LEMMA QuietStep ==
    ASSUME TableInv, TaskInv, DeviceInv, NEW d \in Device, NEW s \in Stage, To(d, s),
           UNCHANGED nth, UNCHANGED busVars, s # "acquire", s \in Working => stage[d] \in Working,
           s \in {"none", "claim", "undo_node", "drop_node"} =>
              stage[d] \in {"none", "claim", "undo_node", "drop_node"}
    PROVE  TableInv' /\ TaskInv' /\ DeviceInv'
<1>1. UNCHANGED tableVars /\ UNCHANGED taskVars
  BY DEF busVars, tableVars, taskVars
<1>2. TableInv' /\ TaskInv'
  BY <1>1, SameTable, SameStays, OthersLeaveTasks
<1>3. stage'[d] = s /\ nth'[d] = nth[d] /\ OthersStand(d) /\ DeviceTypes'
  BY Moved DEF DeviceInv
<1>4. Stands(d)'
  <2>1. Stands(d) /\ holder' = holder /\ \A k \in DevKeys[d] : k \in Key
    BY <1>1, AllStand, ExpansionAssumption DEF tableVars
  <2>2. ASSUME NEW i \in DOMAIN Needs[d], stage[d] \in Working PROVE Has(d, Needs[d][i])'
    BY <1>1, <2>1, <2>2 DEF Stands, Has, Is, Used, tableVars
  <2>. QED  BY <1>3, <2>1, <2>2 DEF Stands, Working
<1>. QED  BY <1>1, <1>2, <1>3, <1>4, SameDevices, DeviceMoves

LEMMA ClaimKeysStep ==
    ASSUME TableInv, TaskInv, DeviceInv, NEW d \in Device, ClaimKeys(d)
    PROVE  TableInv' /\ TaskInv' /\ DeviceInv'
<1>1. /\ stage[d] = "claim" /\ nth' = [nth EXCEPT ![d] = 1]
      /\ NoBusChange /\ UNCHANGED taskVars
      /\ \/ DevClaims(d) /\ To(d, IF Needs[d] = <<>> THEN "driver" ELSE "acquire")
         \/ To(d, "undo_node") /\ UNCHANGED holder
  BY DEF ClaimKeys, On
<1>2. TableInv' /\ OthersKeep(d)
  <2>1. CASE DevClaims(d)
    BY <1>1, <2>1, ClaimsTable
  <2>2. CASE UNCHANGED holder
    <3>1. UNCHANGED tableVars
      BY <1>1, <2>2 DEF NoBusChange, tableVars
    <3>. QED  BY <2>2, <3>1, SameTable DEF OthersKeep
  <2>. QED  BY <1>1, <2>1, <2>2
<1>3. BusesStay /\ ServiceStays
  BY <1>1 DEF NoBusChange, BusesStay, ServiceStays, Leased
<1>4. TaskInv'
  BY <1>1, <1>2, <1>3, OthersLeaveTasks
<1>5. \E s \in {"driver", "acquire", "undo_node"} : stage' = [stage EXCEPT ![d] = s]
  BY <1>1 DEF To
<1>6. OthersStand(d) /\ DeviceTypes' /\ nth'[d] = 1
  <2>1. 1 \in 1 .. (Len(Needs[d]) + 1)
    BY NeedsAre
  <2>2. stage' \in [Device -> Stage] /\ \A e \in Device \ {d} : stage'[e] = stage[e]
    BY <1>5 DEF DeviceInv, DeviceTypes, Stage
  <2>. QED  BY <1>1, <2>1, <2>2 DEF DeviceInv, DeviceTypes, OthersStand
<1>7. Stands(d)'
  <2>1. CASE DevClaims(d) /\ To(d, IF Needs[d] = <<>> THEN "driver" ELSE "acquire")
    <3>1. \A k \in DevKeys[d] : holder'[k] = d
      BY <1>1, <2>1, ClaimsTable
    <3>2. CASE Needs[d] = <<>>
      <4>1. stage'[d] = "driver" /\ DOMAIN Needs[d] = {}
        BY <2>1, <3>2 DEF To, DeviceInv, DeviceTypes
      <4>. QED  BY <3>1, <4>1 DEF Stands
    <3>3. CASE Needs[d] # <<>>
      <4>1. stage'[d] = "acquire"
        BY <2>1, <3>3 DEF To, DeviceInv, DeviceTypes
      <4>2. 1 \in DOMAIN Needs[d] /\ \A i \in DOMAIN Needs[d] : ~(i < 1)
        <5>1. Len(Needs[d]) # 0
          BY <3>3, ExpansionAssumption
        <5>. QED  BY <5>1, NeedsAre
      <4>. QED  BY <1>6, <3>1, <4>1, <4>2 DEF Stands, Working
    <3>. QED  BY <3>2, <3>3
  <2>2. CASE To(d, "undo_node") /\ UNCHANGED holder
    <3>1. stage'[d] = "undo_node" /\ \A k \in Key : holder'[k] # d
      BY <1>1, <2>2, AllStand DEF To, DeviceInv, DeviceTypes, Stands
    <3>. QED  BY <3>1 DEF Stands, Working
  <2>. QED  BY <1>1, <2>1, <2>2
<1>. QED  BY <1>1, <1>2, <1>4, <1>6, <1>7, KeyDevices, DeviceMoves

LEMMA AcquireNextStep ==
    ASSUME TableInv, TaskInv, DeviceInv, NEW d \in Device, AcquireNext(d)
    PROVE  TableInv' /\ TaskInv' /\ DeviceInv'
<1>. DEFINE need == Needs[d][nth[d]]
<1>0. d \in Lessee /\ d # Service /\ \A k \in DevKeys[d] : k \in Key
  BY ExpansionAssumption
<1>1. /\ stage[d] = "acquire" /\ UNCHANGED taskVars
      /\ Stands(d) /\ nth[d] \in DOMAIN Needs[d]
      /\ \A k \in DevKeys[d] : holder[k] = d
  BY AllStand DEF AcquireNext, On, Stands
<1>2. CASE /\ Acquire(need.name, need.proto, d)
           /\ To(d, IF nth[d] = Len(Needs[d]) THEN "driver" ELSE "acquire")
           /\ nth' = [nth EXCEPT ![d] = IF @ = Len(Needs[d]) THEN 1 ELSE @ + 1]
  <2>1. TableInv' /\ LeaseKeeps(d)
    BY <1>0, <1>2, AcquireTable
  <2>2. PICK n \in attached : /\ Is(n, need.name, need.proto) /\ lease'[n][d] = lease[n][d] + 1
                              /\ \A m \in Slot \ {n} : lease'[m] = lease[m]
    BY <1>0, <1>2, AcquireTable
  <2>3. TaskInv'
    BY <1>0, <1>1, <2>1, LeaseStays, OthersLeaveTasks
  <2>4. n \in Slot /\ lease[n][d] \in Nat
    BY <1>0 DEF TableInv, TableTypes
  <2>5. LeasesStay(d)
    BY <2>1, <2>2, <2>4 DEF LeasesStay, LeaseKeeps
  <2>6. PICK j \in DOMAIN Needs[d] : j = nth[d]
    BY <1>1
  <2>7. Has(d, Needs[d][j])'
    BY <2>1, <2>2, <2>4, <2>6 DEF Has, Is, Used, LeaseKeeps
  <2>8. ASSUME NEW i \in DOMAIN Needs[d], i < j PROVE Has(d, Needs[d][i])'
    <3>1. PICK bn : bn = Needs[d][i]
      OBVIOUS
    <3>2. Has(d, bn)
      BY <1>1, <2>6, <2>8, <3>1 DEF Stands
    <3>3. Has(d, bn)'
      BY <2>1, <2>5, <3>2, HasStays
    <3>. QED  BY <3>1, <3>3
  <2>9. /\ j \in 1 .. Len(Needs[d]) /\ Len(Needs[d]) \in Nat
        /\ DOMAIN Needs[d] = 1 .. Len(Needs[d])
    BY <2>6, NeedsAre
  <2>10. /\ stage'[d] = IF j = Len(Needs[d]) THEN "driver" ELSE "acquire"
         /\ nth'[d] = IF j = Len(Needs[d]) THEN 1 ELSE j + 1
         /\ OthersStand(d) /\ DeviceTypes'
    <3>1. /\ stage' = [stage EXCEPT ![d] = IF j = Len(Needs[d]) THEN "driver" ELSE "acquire"]
          /\ nth' = [nth EXCEPT ![d] = IF j = Len(Needs[d]) THEN 1 ELSE j + 1]
      BY <1>2, <2>6 DEF To
    <3>2. stage' \in [Device -> Stage]
      BY <3>1 DEF DeviceInv, DeviceTypes, Stage
    <3>3. (IF j = Len(Needs[d]) THEN 1 ELSE j + 1) \in 1 .. (Len(Needs[d]) + 1)
      BY <2>9
    <3>. QED  BY <2>9, <3>1, <3>2, <3>3 DEF DeviceInv, DeviceTypes, OthersStand
  <2>11. holder' = holder
    BY <2>1 DEF LeaseKeeps
  <2>12. Stands(d)'
    <3>1. CASE j = Len(Needs[d])
      <4>1. \A i \in DOMAIN Needs[d] : Has(d, Needs[d][i])'
        BY <2>7, <2>8, <2>9, <3>1
      <4>. QED  BY <1>1, <2>10, <2>11, <3>1, <4>1 DEF Stands, Working
    <3>2. CASE j # Len(Needs[d])
      <4>1. \A i \in DOMAIN Needs[d] : i < j + 1 => Has(d, Needs[d][i])'
        BY <2>7, <2>8, <2>9
      <4>2. j + 1 \in DOMAIN Needs[d]
        BY <2>9, <3>2
      <4>. QED  BY <1>1, <2>10, <2>11, <3>2, <4>1, <4>2 DEF Stands, Working
    <3>. QED  BY <3>1, <3>2
  <2>. QED  BY <1>0, <2>1, <2>3, <2>10, <2>12, LeaseDevices, DeviceMoves
<1>3. CASE /\ To(d, "undo_bus") /\ nth' = [nth EXCEPT ![d] = 1] /\ UNCHANGED tableVars
  <2>1. TableInv' /\ TaskInv'
    BY <1>1, <1>3, SameTable, SameStays, OthersLeaveTasks
  <2>2. 1 \in 1 .. (Len(Needs[d]) + 1)
    BY NeedsAre
  <2>3. stage'[d] = "undo_bus" /\ OthersStand(d) /\ DeviceTypes'
    BY <1>3, <2>2 DEF To, DeviceInv, DeviceTypes, Stage, OthersStand
  <2>4. Stands(d)'
    BY <2>3 DEF Stands, Working
  <2>. QED  BY <1>3, <2>1, <2>3, <2>4, SameDevices, DeviceMoves
<1>. QED  BY <1>2, <1>3 DEF AcquireNext

LEMMA DropBusesStep ==
    ASSUME TableInv, TaskInv, DeviceInv, NEW d \in Device, DropBuses(d)
    PROVE  TableInv' /\ TaskInv' /\ DeviceInv'
<1>0. d \in Lessee /\ d # Service
  BY ExpansionAssumption
<1>1. TableInv' /\ LeaseKeeps(d)
  BY <1>0, ReleaseOwnerTable DEF DropBuses
<1>2. TaskInv'
  BY <1>0, <1>1, LeaseStays, OthersLeaveTasks DEF DropBuses
<1>3. PICK s \in {"drop_keys", "undo_keys"} : To(d, s) /\ UNCHANGED nth
  BY DEF DropBuses
<1>4. stage'[d] = s /\ OthersStand(d) /\ DeviceTypes'
  BY <1>3, Moved DEF Stage, DeviceInv
<1>5. Stands(d)'
  BY <1>4 DEF Stands, Working
<1>. QED  BY <1>0, <1>1, <1>2, <1>4, <1>5, LeaseDevices, DeviceMoves

LEMMA DropDevKeysStep ==
    ASSUME TableInv, TaskInv, DeviceInv, NEW d \in Device, DropDevKeys(d)
    PROVE  TableInv' /\ TaskInv' /\ DeviceInv'
<1>1. TableInv' /\ OthersKeep(d) /\ \A k \in Key : holder'[k] # d
  BY GiveBackTable DEF DropDevKeys
<1>2. NoBusChange /\ UNCHANGED taskVars
  BY DEF DropDevKeys
<1>3. BusesStay /\ ServiceStays
  BY <1>2 DEF NoBusChange, BusesStay, ServiceStays, Leased
<1>4. TaskInv'
  BY <1>1, <1>2, <1>3, OthersLeaveTasks
<1>5. PICK s \in {"drop_node", "undo_node"} : To(d, s) /\ UNCHANGED nth
  BY DEF DropDevKeys
<1>6. stage'[d] = s /\ OthersStand(d) /\ DeviceTypes'
  BY <1>5, Moved DEF Stage, DeviceInv
<1>7. Stands(d)'
  BY <1>1, <1>6 DEF Stands, Working
<1>. QED  BY <1>1, <1>2, <1>4, <1>6, <1>7, KeyDevices, DeviceMoves

LEMMA DeviceStepInv ==
    ASSUME TableInv, TaskInv, DeviceInv, NEW d \in Device, DeviceStep(d)
    PROVE  TableInv' /\ TaskInv' /\ DeviceInv'
<1>1. CASE Reserve(d)
  BY <1>1, QuietStep DEF Reserve, On, Stage, Working
<1>2. CASE ClaimKeys(d)
  BY <1>2, ClaimKeysStep
<1>3. CASE AcquireNext(d)
  BY <1>3, AcquireNextStep
<1>4. CASE DriverAttach(d)
  BY <1>4, QuietStep DEF DriverAttach, On, Stage, Working
<1>5. CASE Publish(d)
  BY <1>5, QuietStep DEF Publish, On, Stage, Working
<1>6. CASE DetachDevice(d)
  BY <1>6, QuietStep DEF DetachDevice, On, Stage, Working
<1>7. CASE DriverDetach(d)
  BY <1>7, QuietStep DEF DriverDetach, On, Stage, Working
<1>8. CASE DropBuses(d)
  BY <1>8, DropBusesStep
<1>9. CASE DropDevKeys(d)
  BY <1>9, DropDevKeysStep
<1>10. CASE DropNode(d)
  BY <1>10, QuietStep DEF DropNode, Stage, Working
<1>. QED  BY <1>1, <1>2, <1>3, <1>4, <1>5, <1>6, <1>7, <1>8, <1>9, <1>10 DEF DeviceStep

LEMMA InitDevices == DevInit => DeviceInv
<1>. SUFFICES ASSUME DevInit PROVE DeviceInv
  OBVIOUS
<1>1. \A d \in Device : stage[d] = "none" /\ nth[d] = 1 /\ d \in Lessee /\ d # NoOwner
  BY ExpansionAssumption DEF DevInit
<1>2. DeviceTypes
  <2>1. \A d \in Device : 1 \in 1 .. (Len(Needs[d]) + 1)
    BY NeedsAre
  <2>. QED  BY <2>1 DEF DevInit, DeviceTypes, Stage
<1>3. ASSUME NEW k \in Key, NEW d \in Device PROVE holder[k] # d
  <2>1. CASE \E b \in Board : k \in KeysOf[b]
    <3>1. PICK b \in Board : holder[k] = BusOwner(NameOf[b])
      BY <2>1 DEF DevInit, Init
    <3>2. NameOf[b] \in Name
      BY BusesAssumption DEF Board, Name
    <3>. QED  BY <1>1, <3>1, <3>2, Owners
  <2>2. CASE ~\E b \in Board : k \in KeysOf[b]
    BY <1>1, <2>2 DEF DevInit, Init
  <2>. QED  BY <2>1, <2>2
<1>4. \A d \in Device : Stands(d)
  BY <1>1, <1>3 DEF Stands, Working
<1>. QED  BY <1>2, <1>4, AllStand

-----------------------------------------------------------------------------
(* The invariant, and what it gives.                                       *)

DevicesInv == TableInv /\ TaskInv /\ DeviceInv

LEMMA InitInv == DevInit => DevicesInv
  BY InitTable, InitTasks, InitDevices DEF DevInit, DevicesInv

LEMMA ManagerStepInv ==
    ASSUME DevicesInv, ManagerStep, UNCHANGED devVars
    PROVE  DevicesInv'
<1>. USE DEF DevicesInv
<1>1. UNCHANGED taskVars
  BY DEF ManagerStep, Register, Attach, Detach, Unregister, PortTaken
<1>2. TableInv' /\ ManagerKeeps
  BY RegisterTable, AttachTable, DetachTable, UnregisterTable, PortTakenTable DEF ManagerStep
<1>3. TaskInv'
  BY <1>1, <1>2, ManagerStays, OthersLeaveTasks
<1>4. DeviceInv'
  BY <1>2, ManagerDevices, OthersLeaveDevices
<1>. QED  BY <1>2, <1>3, <1>4

\* A task's step is no device's business.
LEMMA TaskLeavesDevices ==
    ASSUME DevicesInv, TableInv', UNCHANGED devVars, UNCHANGED tableVars \/ LeaseKeeps(Service)
    PROVE  DeviceInv'
<1>1. \A d \in Device : Service \in Lessee /\ d # Service
  BY BusesAssumption, ExpansionAssumption
<1>2. \A d \in Device : KeysStay(d) /\ LeasesStay(d)
  BY <1>1, SameDevices, LeaseDevices
<1>. QED  BY <1>2, OthersLeaveDevices DEF DevicesInv

LEMMA TransactionStepInv ==
    ASSUME DevicesInv, NEW t \in I2cUser \cup Driver, TransactionStep(t), UNCHANGED devVars
    PROVE  DevicesInv'
<1>. USE DEF DevicesInv
<1>1. t \in Task
  BY TasksApart
<1>2. TableInv' /\ TaskInv'
  BY <1>1, PinStep, TakeMutexStep, RecheckStep, GiveMutexStep, UnpinStep DEF TransactionStep
<1>3. UNCHANGED tableVars
  BY DEF TransactionStep, Pin, TakeMutex, Recheck, GiveMutex, Unpin
<1>. QED  BY <1>2, <1>3, TaskLeavesDevices

LEMMA UserStepInv ==
    ASSUME DevicesInv, NEW t \in I2cUser, UserStep(t), UNCHANGED devVars
    PROVE  DevicesInv'
<1>1. CASE TransactionStep(t)
  BY <1>1, TransactionStepInv
<1>2. CASE \E x \in Name : ServiceAcquire(t, x)
  BY <1>2, ServiceAcquireStep, TaskLeavesDevices DEF DevicesInv
<1>3. CASE ServiceRelease(t)
  BY <1>3, ServiceReleaseStep, TaskLeavesDevices DEF DevicesInv
<1>. QED  BY <1>1, <1>2, <1>3 DEF UserStep

LEMMA SpeedStepInv ==
    ASSUME DevicesInv, NEW t \in Speeder, SpeedStep(t), UNCHANGED devVars
    PROVE  DevicesInv'
<1>. USE DEF DevicesInv
<1>1. TableInv' /\ TaskInv'
  BY SpeedFindStep, SpeedMutexStep, SpeedSetStep DEF SpeedStep
<1>2. UNCHANGED tableVars
  BY DEF SpeedStep, SpeedFind, SpeedMutex, SpeedSet
<1>. QED  BY <1>1, <1>2, TaskLeavesDevices

LEMMA DriverCallInv ==
    ASSUME DevicesInv, NEW t \in Driver, NEW d \in Device, DriverCall(t, d), UNCHANGED devVars
    PROVE  DevicesInv'
<1>. USE DEF DevicesInv
<1>1. TableInv' /\ TaskInv' /\ UNCHANGED tableVars
  BY DriverCallStep DEF DriverCall
<1>. QED  BY <1>1, TaskLeavesDevices

LEMMA NextInv == DevicesInv /\ [Next]_vars => DevicesInv'
<1>. SUFFICES ASSUME DevicesInv, [Next]_vars PROVE DevicesInv'
  OBVIOUS
<1>1. CASE ManagerStep /\ UNCHANGED devVars
  BY <1>1, ManagerStepInv
<1>2. CASE \E t \in I2cUser : UserStep(t) /\ UNCHANGED devVars
  BY <1>2, UserStepInv
<1>3. CASE \E t \in Speeder : SpeedStep(t) /\ UNCHANGED devVars
  BY <1>3, SpeedStepInv
<1>4. CASE \E t \in Driver : /\ TransactionStep(t) \/ \E d \in Device : DriverCall(t, d)
                             /\ UNCHANGED devVars
  BY <1>4, TransactionStepInv, DriverCallInv
<1>5. CASE \E d \in Device : DeviceStep(d)
  BY <1>5, DeviceStepInv DEF DevicesInv
<1>6. CASE UNCHANGED vars
  <2>1. UNCHANGED tableVars /\ UNCHANGED taskVars /\ UNCHANGED devVars
    BY <1>6 DEF vars, busVars, tableVars, taskVars
  <2>2. TableInv' /\ TaskInv'
    BY <2>1, SameTable, SameStays, OthersLeaveTasks DEF DevicesInv
  <2>. QED  BY <2>1, <2>2, TaskLeavesDevices DEF DevicesInv
<1>. QED  BY <1>1, <1>2, <1>3, <1>4, <1>5, <1>6 DEF Next

LEMMA Invariant == Spec => []DevicesInv
  BY InitInv, NextInv, PTL DEF Spec

\* Every variable has its type in every reachable state; a bus is never counted
\* as in use more often than there are tasks.
THEOREM TypeCorrect == Spec => []TypeOK
<1>1. DevicesInv => TypeOK
  <2>. SUFFICES ASSUME DevicesInv PROVE TypeOK
    OBVIOUS
  <2>. USE DEF DevicesInv
  <2>1. ASSUME NEW n \in Slot PROVE refs[n] \in 0 .. Cardinality(Task)
    <3>1. Users(n) \subseteq Task
      BY DEF Users
    <3>2. Cardinality(Users(n)) <= Cardinality(Task) /\ Cardinality(Task) \in Nat
      BY <3>1, FS_Subset, FS_CardinalityType, BusesAssumption
    <3>3. refs[n] = Cardinality(Users(n))
      BY RefsAre DEF TaskInv
    <3>. QED  BY <3>2, <3>3, UsersFinite
  <2>2. refs \in [Slot -> 0 .. Cardinality(Task)]
    BY <2>1 DEF TaskInv, TaskTypes
  <2>3. BusTypeOK
    BY <2>2 DEF BusTypeOK, TableInv, TableTypes, TaskInv, TaskTypes
  <2>. QED  BY <2>3 DEF TypeOK, DeviceInv, DeviceTypes
<1>. QED  BY <1>1, Invariant, PTL

\* From its pin to its unpin a transaction has the bus it named, of the
\* generation it noted, attached, running and leased, whatever the managers of
\* buses and the other lessees do meanwhile.
THEOREM PinnedBusStays == Spec => []PinnedStable
<1>1. DevicesInv => PinnedStable
  BY DEF DevicesInv, TaskInv
<1>. QED  BY <1>1, Invariant, PTL

\* The count of pinned operations of a slot, which outlives the bus in it and is
\* dropped under three different conditions, is the number of operations in
\* flight there.
THEOREM PinsAreCounted == Spec => []RefsCounted
<1>1. DevicesInv => RefsCounted
  BY DEF DevicesInv, TaskInv
<1>. QED  BY <1>1, Invariant, PTL

\* An attached bus owns its keys, and no key stays with a bus that is detached,
\* removed or was refused.
THEOREM AttachedBusOwns == Spec => []AttachedOwns
<1>1. DevicesInv => AttachedOwns
  BY DEF DevicesInv, TableInv
<1>. QED  BY <1>1, Invariant, PTL

\* Hardware runs exactly while somebody leases the bus, an I2C bus until it is
\* detached, and the lease of a UART has its port.
THEOREM HardwareIsLeased == Spec => []HardwareFollowsLeases
<1>1. DevicesInv => HardwareFollowsLeases
  BY DEF DevicesInv, TableInv
<1>. QED  BY <1>1, Invariant, PTL

\* An exclusive bus has one lessee; a slot without a bus has none.
THEOREM ExclusiveBusHasOneLessee == Spec => []ExclusiveLease
<1>1. DevicesInv => ExclusiveLease
  BY DEF DevicesInv, TableInv
<1>. QED  BY <1>1, Invariant, PTL

\* The calls of the I2C service share one owner name and end one another's
\* leases; the bus still has a lease for each call in flight.
THEOREM ServiceIsCovered == Spec => []ServiceLeaseCovers
<1>1. DevicesInv => ServiceLeaseCovers
  BY DEF DevicesInv, TaskInv
<1>. QED  BY <1>1, Invariant, PTL

\* A device whose driver starts, runs or stops has all its keys and a lease on
\* each of its buses.
THEOREM ActiveDevicesEquipped == Spec => []ActiveDeviceEquipped
<1>1. DevicesInv => ActiveDeviceEquipped
  BY DEF DevicesInv, DeviceInv, KeysHeld, BusesHeld, Has, ActiveDeviceEquipped, Equipped, Working
<1>. QED  BY <1>1, Invariant, PTL

\* A device that is gone, or was refused at any stage, has no key left.
THEOREM AbsentDevicesClaimNothing == Spec => []AbsentDeviceClaimsNothing
<1>1. DevicesInv => AbsentDeviceClaimsNothing
  BY DEF DevicesInv, DeviceInv, NoKeys, AbsentDeviceClaimsNothing
<1>. QED  BY <1>1, Invariant, PTL
=============================================================================
