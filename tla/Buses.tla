-------------------------------- MODULE Buses --------------------------------
(***************************************************************************)
(* The named-bus registry of SolarOS (src/services/solar_os_buses.c): a    *)
(* table of buses with their generations, the leases that start and stop   *)
(* their hardware, and the transactions that pin a bus while they wait for *)
(* its mutex and use it.  The resource registry appears as its promise     *)
(* (OwnerMap): a refused claim needs no reason here, because the table of  *)
(* claims is shared with every other service and may be full.              *)
(*                                                                         *)
(* Each call that manages buses or leases is one section under             *)
(* buses_mutex and one operator or action; a transaction or a change of    *)
(* the I2C rate is several.  Who leases a bus is in Expansion and below.   *)
(***************************************************************************)
EXTENDS Naturals, Sequences, FiniteSets

CONSTANTS
    BusMax,          \* SOLAR_OS_BUS_MAX
    LeaseMax,        \* SOLAR_OS_BUS_LEASE_MAX
    Def, NoDef,      \* bus descriptors; no bus in a slot
    NameOf,          \* [Def -> names]
    Proto,           \* [Def -> Protocol]
    Endpoint,        \* [Def -> controllers]: a distinct one where there is none
    KeysOf,          \* [Def -> SUBSET Key]: controller and signal pins
    BoardBuses,      \* the board's own buses, in the order of their table
    Fixed,           \* those whose signals cannot be routed: never detached
    Exclusive,       \* descriptors registered with SOLAR_OS_BUS_EXCLUSIVE
    Faulty,          \* descriptors whose hardware may fail to start or stop
    Lessee,          \* lease owners
    Service,         \* I2C_SERVICE_OWNER, one of them
    Key, NoOwner,    \* resources, and nobody
    I2cUser,         \* tasks inside solar_os_i2c calls
    Driver,          \* tasks in which device drivers use their bus
    Speeder,         \* tasks that change the rate of an I2C bus
    NoTask,
    MaxGen,          \* bound: registrations of one slot
    LeaseCap         \* [Lessee -> Nat], a bound: leases of one owner on one bus

Protocol == {"i2c", "spi", "plain", "uart"}   \* plain: 1-Wire and PS/2
Slot == 1 .. BusMax
Board == {BoardBuses[i] : i \in DOMAIN BoardBuses}
Name == {NameOf[d] : d \in Def}
Task == I2cUser \cup Driver \cup Speeder
BusOwner(x) == <<"bus", x>>     \* bus_resource_owner

ASSUME BusesAssumption ==
    /\ BusMax \in Nat /\ LeaseMax \in Nat /\ MaxGen \in Nat \ {0} /\ LeaseCap \in [Lessee -> Nat]
    /\ NoDef \notin Def
    /\ DOMAIN NameOf = Def
    /\ Proto \in [Def -> Protocol]
    /\ DOMAIN Endpoint = Def
    /\ KeysOf \in [Def -> (SUBSET Key) \ {{}}]
    /\ BoardBuses \in Seq(Def) /\ Len(BoardBuses) <= BusMax
    /\ \A i, j \in DOMAIN BoardBuses : i # j =>
          /\ NameOf[BoardBuses[i]] # NameOf[BoardBuses[j]]
          /\ KeysOf[BoardBuses[i]] \cap KeysOf[BoardBuses[j]] = {}
    /\ Fixed \subseteq Board
    /\ \A d \in Def : Proto[d] = "uart" => d \in Exclusive
    /\ Service \in Lessee
    /\ \A x \in Name : BusOwner(x) \notin Lessee \cup {NoOwner}
    /\ IsFiniteSet(Task)
    /\ I2cUser \cap Driver = {} /\ I2cUser \cap Speeder = {} /\ Driver \cap Speeder = {}
    /\ NoTask \notin Task

VARIABLES
    bus,       \* [Slot -> Def \cup {NoDef}]
    attached,  \* the slots whose bus has its keys
    ready,     \* the slots whose hardware runs
    port,      \* the UART port of a slot: who claimed it
    gens,      \* bus_generations
    refs,      \* bus_refs
    lease,     \* leases: how many each owner has on each slot
    mutex,     \* bus_mutexes: the task that has it
    holder,    \* the owner of each resource key
    pc, fr     \* each task's call and its local variables

busVars == <<bus, attached, ready, port, gens, refs, lease, mutex, holder, pc, fr>>
tableVars == <<bus, attached, ready, port, gens, lease, holder>>
taskVars == <<refs, mutex, pc, fr>>

Registry == INSTANCE OwnerMap WITH
    Owner <- Lessee \cup {BusOwner(x) : x \in Name},
    Bundle <- {KeysOf[d] : d \in Def}

Frame == [name : Name \cup {""}, proto : Protocol, slot : 0 .. BusMax, gen : 0 .. MaxGen]
NoFrame == [name |-> "", proto |-> "i2c", slot |-> 0, gen |-> 0]
PinPc == {"pin", "wait", "recheck", "io", "unpin", "release"}
SpeedPc == {"speed_wait", "speed_set"}

Init ==
    /\ bus = [n \in Slot |-> IF n <= Len(BoardBuses) THEN BoardBuses[n] ELSE NoDef]
    /\ attached = {n \in Slot : bus[n] # NoDef}
    /\ ready = {}
    /\ port = [n \in Slot |-> "free"]
    /\ gens = [n \in Slot |-> IF bus[n] = NoDef THEN 0 ELSE 1]
    /\ refs = [n \in Slot |-> 0]
    /\ lease = [n \in Slot |-> [o \in Lessee |-> 0]]
    /\ mutex = [n \in Slot |-> NoTask]
    /\ holder = [k \in Key |->
          IF \E d \in Board : k \in KeysOf[d]
          THEN BusOwner(NameOf[CHOOSE d \in Board : k \in KeysOf[d]]) ELSE NoOwner]
    /\ pc = [t \in Task |-> "idle"]
    /\ fr = [t \in Task |-> NoFrame]

Used(n) == bus[n] # NoDef
Is(n, x, p) == Used(n) /\ NameOf[bus[n]] = x /\ Proto[bus[n]] = p
ProtoAt(n) == Proto[bus[n]]
Free == {n \in Slot : ~Used(n)}

Leased(n) == \E o \in Lessee : lease[n][o] > 0
Sole(n, o) == \A q \in Lessee \ {o} : lease[n][q] = 0
Leases == {l \in Slot \X Lessee : lease[l[1]][l[2]] > 0}

OwnKeys(d) == Registry!ClaimAll(KeysOf[d], BusOwner(NameOf[d]))
DropKeys(n) == Registry!GiveBack(Key, BusOwner(NameOf[bus[n]]))
-----------------------------------------------------------------------------
(***************************************************************************)
(* Managing buses.  The first free slot gets a new generation even when    *)
(* the keys, or the UART service, then refuse the bus.                     *)
(***************************************************************************)
Register(d) ==
    /\ d \notin Board
    /\ \A n \in Slot : Used(n) => /\ NameOf[bus[n]] # NameOf[d]
                                  /\ Endpoint[bus[n]] # Endpoint[d]
    /\ \E n \in Free :
          /\ \A m \in Free : n <= m
          /\ gens[n] < MaxGen
          /\ gens' = [gens EXCEPT ![n] = @ + 1]
          /\ \/ /\ OwnKeys(d)
                /\ bus' = [bus EXCEPT ![n] = d]
                /\ attached' = attached \cup {n}
             \/ UNCHANGED <<bus, attached, holder>>
    /\ UNCHANGED <<ready, port, lease>> /\ UNCHANGED taskVars

\* Fault: the keys given back at the detach are not claimed again.
AttachUnclaimed(n) ==
    /\ Used(n) /\ n \notin attached /\ bus[n] \notin Fixed
    /\ attached' = attached \cup {n}
    /\ UNCHANGED <<bus, ready, port, gens, lease, holder>> /\ UNCHANGED taskVars
Attach(n) ==
    /\ Used(n) /\ n \notin attached /\ bus[n] \notin Fixed
    /\ OwnKeys(bus[n])
    /\ attached' = attached \cup {n}
    /\ UNCHANGED <<bus, ready, port, gens, lease>> /\ UNCHANGED taskVars

\* detach_bus_locked for an attached bus: a UART whose port somebody has is
\* refused by the port registry.  Fault: only pinned operations are looked at.
IdleUnpinned(n) == refs[n] = 0
Idle(n) == ~Leased(n) /\ refs[n] = 0
MayDetach(n) == Idle(n) /\ (ProtoAt(n) = "uart" => port[n] = "free")

Detach(n) ==
    /\ n \in attached /\ bus[n] \notin Fixed /\ MayDetach(n)
    /\ DropKeys(n)
    /\ attached' = attached \ {n}
    /\ ready' = ready \ {n}
    /\ UNCHANGED <<bus, port, gens, lease>> /\ UNCHANGED taskVars

\* A detached bus is removed whatever is pinned; bus_refs stays as it is.  A
\* UART may be detached and then refused by the UART service.  Fault: the count
\* of the slot is cleared with the rest of it.
UnregisterUncounted(n) ==
    /\ Used(n) /\ bus[n] \notin Board /\ ~Leased(n)
    /\ n \in attached => MayDetach(n)
    /\ IF n \in attached THEN DropKeys(n) ELSE UNCHANGED holder
    /\ attached' = attached \ {n} /\ ready' = ready \ {n}
    /\ bus' = [bus EXCEPT ![n] = NoDef] /\ refs' = [refs EXCEPT ![n] = 0]
    /\ UNCHANGED <<port, gens, lease, mutex, pc, fr>>
Unregister(n) ==
    /\ Used(n) /\ bus[n] \notin Board /\ ~Leased(n)
    /\ n \in attached => MayDetach(n)
    /\ IF n \in attached THEN DropKeys(n) ELSE UNCHANGED holder
    /\ attached' = attached \ {n}
    /\ ready' = ready \ {n}
    /\ \/ bus' = [bus EXCEPT ![n] = NoDef]
       \/ ProtoAt(n) = "uart" /\ UNCHANGED bus
    /\ UNCHANGED <<port, gens, lease>> /\ UNCHANGED taskVars

\* Shells, jobs and apps claim the port of a UART without a lease.
PortTaken(n) ==
    /\ n \in attached /\ ProtoAt(n) = "uart"
    /\ \/ port[n] = "free" /\ port' = [port EXCEPT ![n] = "other"]
       \/ port[n] = "other" /\ port' = [port EXCEPT ![n] = "free"]
    /\ UNCHANGED <<bus, attached, ready, gens, lease, holder>> /\ UNCHANGED taskVars
-----------------------------------------------------------------------------
(***************************************************************************)
(* Leases.  The first lease of a bus starts its hardware (an I2C bus that  *)
(* already runs is left alone), the last one stops it, except for I2C.     *)
(***************************************************************************)
Starts(n) == ProtoAt(n) = "uart" => port[n] = "free"
MayFail(n) == bus[n] \in Faulty

\* Fault: an exclusive bus is shared.
GrantsShared(n, o) ==
    n \in attached /\ (lease[n][o] > 0 \/ (Cardinality(Leases) < LeaseMax /\ (Leased(n) \/ Starts(n))))
Grants(n, o) ==
    /\ n \in attached
    /\ \/ lease[n][o] > 0
       \/ /\ bus[n] \in Exclusive => ~Leased(n)
          /\ Cardinality(Leases) < LeaseMax
          /\ Leased(n) \/ Starts(n)

\* Fault: a lease the owner already has is not counted again.
AcquireUncounted(x, p, o) ==
    \E n \in Slot :
        /\ Is(n, x, p) /\ Grants(n, o)
        /\ lease' = [lease EXCEPT ![n][o] = 1]
        /\ IF Leased(n) THEN UNCHANGED <<ready, port>>
           ELSE /\ ready' = ready \cup {n}
                /\ port' = IF p = "uart" THEN [port EXCEPT ![n] = "lease"] ELSE port
        /\ UNCHANGED <<bus, attached, gens, holder>>
Acquire(x, p, o) ==
    \E n \in Slot :
        /\ Is(n, x, p) /\ Grants(n, o)
        /\ lease[n][o] < LeaseCap[o]
        /\ lease' = [lease EXCEPT ![n][o] = @ + 1]
        /\ IF Leased(n) THEN UNCHANGED <<ready, port>>
           ELSE /\ ready' = ready \cup {n}
                /\ port' = IF p = "uart" THEN [port EXCEPT ![n] = "lease"] ELSE port
        /\ UNCHANGED <<bus, attached, gens, holder>>

Refused(x, p, o) ==
    \A n \in Slot : Is(n, x, p) => ~Grants(n, o) \/ (~Leased(n) /\ MayFail(n))

\* What the end of o's lease stops.  Fault: an SPI host is left running.
StopsButSpi(n, o) == ProtoAt(n) = "uart" \/ (ProtoAt(n) = "plain" /\ Sole(n, o))
Stops(n, o) == \/ ProtoAt(n) = "uart"
               \/ ProtoAt(n) \in {"spi", "plain"} /\ Sole(n, o)
StopMayFail(n, o) == Stops(n, o) /\ ProtoAt(n) # "plain" /\ MayFail(n)

End(N, o) ==    \* o's leases on the buses N end
    LET stopped == {n \in N : Stops(n, o)} IN
    /\ lease' = [n \in Slot |-> IF n \in N THEN [lease[n] EXCEPT ![o] = 0] ELSE lease[n]]
    /\ ready' = ready \ stopped
    /\ port' = [n \in Slot |-> IF n \in stopped /\ ProtoAt(n) = "uart" THEN "free" ELSE port[n]]
    /\ UNCHANGED <<bus, attached, gens, holder>>

\* The last lease of a bus that is in use.  Fault: uses are not looked at.
PinnedNever(n, o) == FALSE
Pinned(n, o) == Sole(n, o) /\ refs[n] > 0

\* solar_os_bus_release, whatever it returns.
Release(x, p, o) ==
    LET has == {n \in Slot : Is(n, x, p) /\ lease[n][o] > 0} IN
    \/ \E n \in has : /\ lease[n][o] > 1
                      /\ lease' = [lease EXCEPT ![n][o] = @ - 1]
                      /\ UNCHANGED <<bus, attached, ready, port, gens, holder>>
    \/ \E n \in has : lease[n][o] = 1 /\ ~Pinned(n, o) /\ End({n}, o)
    \/ /\ \A n \in has : lease[n][o] = 1 /\ (Pinned(n, o) \/ StopMayFail(n, o))
       /\ UNCHANGED tableVars

\* solar_os_bus_release_owner leaves the leases it cannot end.
ReleaseOwner(o) ==
    LET mine == {n \in Slot : lease[n][o] > 0 /\ ~Pinned(n, o)} IN
    \E stuck \in SUBSET {n \in mine : StopMayFail(n, o)} : End(mine \ stuck, o)
-----------------------------------------------------------------------------
Goto(t, l) == pc' = [pc EXCEPT ![t] = l]
Return(t) == Goto(t, "idle") /\ fr' = [fr EXCEPT ![t] = NoFrame]
At(t, l) == pc[t] = l
slot(t) == fr[t].slot
Call(t, l, x, p) == /\ At(t, "idle")
                    /\ Goto(t, l)
                    /\ fr' = [fr EXCEPT ![t].name = x, ![t].proto = p]

\* A transaction is over: the I2C service still has to release its lease.
Finish(t) == IF t \in I2cUser THEN Goto(t, "release") /\ UNCHANGED fr ELSE Return(t)

(***************************************************************************)
(* A call of the I2C service: lease the bus, use it, release the lease.    *)
(***************************************************************************)
ServiceAcquire(t, x) ==
    /\ Acquire(x, "i2c", Service)
    /\ Call(t, "pin", x, "i2c")
    /\ UNCHANGED <<refs, mutex>>

ServiceRelease(t) ==
    /\ At(t, "release")
    /\ Release(fr[t].name, "i2c", Service)
    /\ Return(t)
    /\ UNCHANGED <<refs, mutex>>

(***************************************************************************)
(* A transaction: pin_ready_bus, the transfer, unpin_bus.                  *)
(***************************************************************************)
Usable(n) == n \in ready /\ Leased(n)

Pin(t) ==
    /\ At(t, "pin")
    /\ LET found == {n \in Slot : Is(n, fr[t].name, fr[t].proto) /\ Usable(n)} IN
       \/ \E n \in found :
             /\ refs' = [refs EXCEPT ![n] = @ + 1]
             /\ fr' = [fr EXCEPT ![t].slot = n, ![t].gen = gens[n]]
             /\ Goto(t, "wait")
       \/ found = {} /\ Finish(t) /\ UNCHANGED refs
    /\ UNCHANGED mutex /\ UNCHANGED tableVars

TakeMutex(t) ==
    /\ At(t, "wait") /\ mutex[slot(t)] = NoTask
    /\ mutex' = [mutex EXCEPT ![slot(t)] = t]
    /\ Goto(t, "recheck")
    /\ UNCHANGED <<refs, fr>> /\ UNCHANGED tableVars

Recheck(t) ==
    /\ At(t, "recheck")
    /\ IF Used(slot(t)) /\ ProtoAt(slot(t)) = fr[t].proto /\ Usable(slot(t))
       THEN /\ fr' = [fr EXCEPT ![t].gen = gens[slot(t)]]
            /\ Goto(t, "io")
            /\ UNCHANGED <<refs, mutex>>
       ELSE /\ refs' = [refs EXCEPT ![slot(t)] = IF @ > 0 THEN @ - 1 ELSE @]
            /\ mutex' = [mutex EXCEPT ![slot(t)] = NoTask]
            /\ Finish(t)
    /\ UNCHANGED tableVars

GiveMutex(t) ==
    /\ At(t, "io")
    /\ mutex' = [mutex EXCEPT ![slot(t)] = NoTask]
    /\ Goto(t, "unpin")
    /\ UNCHANGED <<refs, fr>> /\ UNCHANGED tableVars

Unpin(t) ==
    /\ At(t, "unpin")
    /\ refs' = [refs EXCEPT ![slot(t)] =
                    IF gens[slot(t)] = fr[t].gen /\ @ > 0 THEN @ - 1 ELSE @]
    /\ Finish(t)
    /\ UNCHANGED mutex /\ UNCHANGED tableVars

(***************************************************************************)
(* solar_os_bus_i2c_set_speed, for a rate the bus does not have already:   *)
(* the bus is counted as in use without a lease, a check that it is        *)
(* attached, or its generation.  The rate itself is not modelled.          *)
(***************************************************************************)
SpeedFind(t, n) ==
    /\ Used(n) /\ ProtoAt(n) = "i2c"
    /\ At(t, "idle") /\ Goto(t, "speed_wait")
    /\ fr' = [fr EXCEPT ![t].name = NameOf[bus[n]], ![t].slot = n]
    /\ refs' = [refs EXCEPT ![n] = @ + 1]
    /\ UNCHANGED mutex /\ UNCHANGED tableVars

SpeedMutex(t) ==
    /\ At(t, "speed_wait") /\ mutex[slot(t)] = NoTask
    /\ mutex' = [mutex EXCEPT ![slot(t)] = t]
    /\ Goto(t, "speed_set")
    /\ UNCHANGED <<refs, fr>> /\ UNCHANGED tableVars

\* Sets the rate if an I2C bus is in the slot; then, under the same lock, the
\* count, and the bus mutex after it.  Fault: the count is kept.
SpeedSetCounted(t) ==
    /\ At(t, "speed_set")
    /\ mutex' = [mutex EXCEPT ![slot(t)] = NoTask]
    /\ Return(t)
    /\ UNCHANGED refs /\ UNCHANGED tableVars
SpeedSet(t) ==
    /\ At(t, "speed_set")
    /\ refs' = [refs EXCEPT ![slot(t)] = IF @ > 0 THEN @ - 1 ELSE @]
    /\ mutex' = [mutex EXCEPT ![slot(t)] = NoTask]
    /\ Return(t)
    /\ UNCHANGED tableVars
-----------------------------------------------------------------------------
ManagerStep == \/ \E d \in Def : Register(d)
               \/ \E n \in Slot : Attach(n) \/ Detach(n) \/ Unregister(n) \/ PortTaken(n)

TransactionStep(t) == Pin(t) \/ TakeMutex(t) \/ Recheck(t) \/ GiveMutex(t) \/ Unpin(t)

UserStep(t) == \/ \E x \in Name : ServiceAcquire(t, x)
               \/ TransactionStep(t) \/ ServiceRelease(t)

SpeedStep(t) == \/ \E n \in Slot : SpeedFind(t, n)
                \/ SpeedMutex(t) \/ SpeedSet(t)
-----------------------------------------------------------------------------
BusTypeOK ==
    /\ bus \in [Slot -> Def \cup {NoDef}]
    /\ attached \in SUBSET Slot /\ ready \in SUBSET Slot
    /\ port \in [Slot -> {"free", "lease", "other"}]
    /\ gens \in [Slot -> 0 .. MaxGen]
    /\ refs \in [Slot -> 0 .. Cardinality(Task)]
    /\ lease \in [Slot -> [Lessee -> Nat]]
    /\ mutex \in [Slot -> Task \cup {NoTask}]
    /\ holder \in [Key -> Lessee \cup {BusOwner(x) : x \in Name} \cup {NoOwner}]
    /\ pc \in [Task -> {"idle"} \cup PinPc \cup SpeedPc]
    /\ fr \in [Task -> Frame]

\* service-concurrency.md: detach, unregister and the last release refuse a bus
\* with pinned operations.  So from its pin to its unpin a transaction has the
\* bus it named, of the generation it noted, attached, running and leased.
InTransaction(t) == pc[t] \in {"wait", "recheck", "io", "unpin"}
PinnedStable ==
    \A t \in Task : InTransaction(t) =>
        /\ Is(slot(t), fr[t].name, fr[t].proto)
        /\ gens[slot(t)] = fr[t].gen
        /\ slot(t) \in attached /\ Usable(slot(t))

\* Although bus_refs outlives a bus and is dropped under three different
\* conditions, it always is the number of operations in flight on the slot: a
\* bus is never stuck as pinned, nor free while it is pinned.
RefsCounted ==
    \A n \in Slot : refs[n] =
        Cardinality({t \in Task : (InTransaction(t) \/ pc[t] \in SpeedPc) /\ slot(t) = n})

\* python.md: "Attached buses own their hardware endpoint and signal pins".  And
\* no key stays with a bus that is detached, removed or was refused.
AttachedOwns ==
    /\ \A n \in attached : \A k \in KeysOf[bus[n]] : holder[k] = BusOwner(NameOf[bus[n]])
    /\ \A k \in Key, x \in Name : holder[k] = BusOwner(x) =>
          \E n \in attached : NameOf[bus[n]] = x /\ k \in KeysOf[bus[n]]

\* Hardware runs exactly while somebody has a lease (an I2C bus runs on until
\* it is detached), and a UART lease has the port.
HardwareFollowsLeases ==
    \A n \in Slot :
        /\ Leased(n) => n \in attached /\ n \in ready
        /\ n \in ready => n \in attached /\ (ProtoAt(n) = "i2c" \/ Leased(n))
        /\ Used(n) /\ ProtoAt(n) = "uart" => (port[n] = "lease" <=> Leased(n))

\* An exclusive bus has one lessee; a slot without a bus has none.
ExclusiveLease ==
    \A n \in Slot : Leased(n) =>
        /\ Used(n)
        /\ bus[n] \in Exclusive => \E o \in Lessee : Sole(n, o)

\* All calls of the I2C service lease under one name and count on one another's
\* releases: the bus has at least one lease for each call in flight.
ServiceLeaseCovers ==
    \A n \in Slot : Used(n) => lease[n][Service] >=
        Cardinality({t \in I2cUser : pc[t] \in PinPc /\ Is(n, fr[t].name, fr[t].proto)})
=============================================================================
