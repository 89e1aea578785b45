-------------------------------- MODULE Ports --------------------------------
(***************************************************************************)
(* The port registry of SolarOS (src/services/solar_os_port.c) with the    *)
(* stream endpoint it publishes for every port                             *)
(* (src/services/solar_os_stream.c).                                       *)
(*                                                                         *)
(* Every section under port_mutex or under the stream mutex is one action. *)
(* The driver's open and close callbacks and the calls from one registry   *)
(* into the other run with no lock held, so any other task may run between *)
(* them.  A provider task registers and unregisters the port of its own    *)
(* driver; a client task claims a port by name, or opens its stream, and   *)
(* later gives it back.                                                    *)
(***************************************************************************)
EXTENDS Naturals, FiniteSets

CONSTANTS
    Name,          \* names of ports and of streams
    NoName,        \* the name of an entry that is not registered
    NumPorts,      \* SOLAR_OS_PORT_MAX
    NumStreams,    \* SOLAR_OS_STREAM_MAX
    Foreign,       \* streams other services registered before and keep
    Provider,      \* tasks that own a driver
    DriverName,    \* the port name of each provider's driver
    Client,        \* tasks that use ports
    Known,         \* the ports clients ask for
    KnownStream,   \* the streams clients ask for
    SlowClose,     \* drivers whose close callback may report an error
    Careless,      \* clients that ignore a failed release (jobs, transfers);
                   \* the others (bus leases) keep the handle to retry
    NoClient,      \* nobody
    TokenSpace,    \* claim tokens are 1 .. TokenSpace - 1: 2^32 in the code
    MaxRegs,       \* bound: registrations begun in one behaviour
    MaxCalls       \* bound: claims and stream opens begun in one behaviour

PortSlot == 1 .. NumPorts
StreamSlot == 1 .. NumStreams
Task == Provider \cup Client

ASSUME PortsAssumption ==
    /\ NoName \notin Name
    /\ NumPorts \in Nat \ {0}
    /\ NumStreams \in Nat \ {0}
    /\ Foreign \subseteq Name
    /\ IsFiniteSet(Foreign) /\ Cardinality(Foreign) <= NumStreams
    /\ DriverName \in [Provider -> Name]
    /\ Known \subseteq Name
    /\ KnownStream \subseteq Name
    /\ SlowClose \subseteq Name
    /\ Careless \subseteq Client
    /\ Provider \cap Client = {}
    /\ NoClient \notin Client
    /\ TokenSpace \in Nat /\ TokenSpace > 2
    /\ MaxRegs \in Nat
    /\ MaxCalls \in Nat

VARIABLES
    port,        \* ports: name and claim token, 0 when not claimed
    nextToken,   \* next_token
    stream,      \* streams: id, driver.user (a port slot), generation, active
    dev,         \* the drivers whose open callback ran and close did not
    pc, fr,      \* each task's call and its local variables
    regs, calls

vars == <<port, nextToken, stream, dev, pc, fr, regs, calls>>

Token == 1 .. TokenSpace - 1
PortEntry == [name : Name \cup {NoName}, token : Token \cup {0}]
StreamEntry == [id : Name \cup {NoName}, user : PortSlot \cup {0},
                gen : Nat, active : Nat]

\* What a task keeps between two sections: the port handle (slot and token)
\* with the driver its callbacks belong to, and the stream handle (slot and
\* generation) with the driver.user it copied.  Slot 0 is no handle.
Frame == [slot : PortSlot \cup {0}, token : Token \cup {0}, drv : Name \cup {NoName},
          str : StreamSlot \cup {0}, gen : Nat, user : PortSlot \cup {0}]
NoFrame == [slot |-> 0, token |-> 0, drv |-> NoName,
            str |-> 0, gen |-> 0, user |-> 0]

ProviderPc == {"idle", "reg_stream", "reg_rollback", "unreg_stream", "unreg_clear"}
ClientPc == {"idle", "claim_open", "claim_rollback", "open_claim",
             "open_rollback", "close_fetch", "close_check", "rel_begin",
             "rel_close", "rel_clear", "close_drop"}

FreePort == [name |-> NoName, token |-> 0]
PortNamed(n) == {s \in PortSlot : port[s].name = n}
StreamNamed(n) == {s \in StreamSlot : stream[s].id = n}

Init ==
    /\ port = [s \in PortSlot |-> FreePort]
    /\ nextToken = 1
    /\ \E at \in [Foreign -> StreamSlot] :
        /\ \A f, g \in Foreign : at[f] = at[g] => f = g
        /\ stream = [s \in StreamSlot |->
              IF \E f \in Foreign : at[f] = s
              THEN [id |-> CHOOSE f \in Foreign : at[f] = s,
                    user |-> 0, gen |-> 1, active |-> 0]
              ELSE [id |-> NoName, user |-> 0, gen |-> 0, active |-> 0]]
    /\ dev = {}
    /\ pc = [t \in Task |-> "idle"]
    /\ fr = [t \in Task |-> NoFrame]
    /\ regs = 0
    /\ calls = 0

Goto(t, l) == pc' = [pc EXCEPT ![t] = l]

(***************************************************************************)
(* Registration.  The port is published first, its endpoint afterwards; a  *)
(* refused endpoint takes the port back.  A refused call changes nothing.  *)
(***************************************************************************)

\* The first slot that is not in use.
IsFirstFreePort(s) == port[s].name = NoName /\ \A r \in 1 .. s - 1 : port[r].name # NoName
IsFirstFreeStream(s) == stream[s].id = NoName /\ \A r \in 1 .. s - 1 : stream[r].id # NoName

Register(p) ==
    LET n == DriverName[p] IN
    /\ pc[p] = "idle"
    /\ regs < MaxRegs
    /\ PortNamed(n) = {}
    /\ \E s \in PortSlot :
        /\ IsFirstFreePort(s)
        /\ port' = [port EXCEPT ![s] = [name |-> n, token |-> 0]]
        /\ fr' = [fr EXCEPT ![p] = [NoFrame EXCEPT !.slot = s, !.drv = n]]
    /\ Goto(p, "reg_stream")
    /\ regs' = regs + 1
    /\ UNCHANGED <<nextToken, stream, dev, calls>>

EndpointFits(n) == StreamNamed(n) = {} /\ \E s \in StreamSlot : stream[s].id = NoName

RegisterStream(p) ==
    /\ pc[p] = "reg_stream"
    /\ EndpointFits(fr[p].drv)
    /\ \E s \in StreamSlot :
        /\ IsFirstFreeStream(s)
        /\ stream' = [stream EXCEPT ![s] =
              [id |-> fr[p].drv, user |-> fr[p].slot, gen |-> @.gen + 1, active |-> 0]]
    /\ Goto(p, "idle")
    /\ fr' = [fr EXCEPT ![p] = NoFrame]
    /\ UNCHANGED <<port, nextToken, dev, regs, calls>>

RegisterStreamRefused(p) ==
    /\ pc[p] = "reg_stream"
    /\ ~ EndpointFits(fr[p].drv)
    /\ Goto(p, "reg_rollback")
    /\ UNCHANGED <<port, nextToken, stream, dev, fr, regs, calls>>

\* The rollback clears the slot whatever it holds by now.
RegisterRollback(p) ==
    /\ pc[p] = "reg_rollback"
    /\ port' = [port EXCEPT ![fr[p].slot] = FreePort]
    /\ Goto(p, "idle")
    /\ fr' = [fr EXCEPT ![p] = NoFrame]
    /\ UNCHANGED <<nextToken, stream, dev, regs, calls>>

(***************************************************************************)
(* Unregistration: check the port, remove the endpoint, check again.       *)
(***************************************************************************)
\* The first check, before the endpoint is removed.
IsUnclaimed(s) == port[s].token = 0

Unregister(p) ==
    /\ pc[p] = "idle"
    /\ \E s \in PortNamed(DriverName[p]) : IsUnclaimed(s)
    /\ fr' = [fr EXCEPT ![p] = [NoFrame EXCEPT !.drv = DriverName[p]]]
    /\ Goto(p, "unreg_stream")
    /\ UNCHANGED <<port, nextToken, stream, dev, regs, calls>>

\* No such stream is no error; one that is open refuses the call.  Fault: an
\* open one is removed as well.
IsClosedUnchecked(s) == TRUE
IsClosed(s) == stream[s].active = 0

UnregisterStream(p) ==
    /\ pc[p] = "unreg_stream"
    /\ \/ /\ \E s \in StreamNamed(fr[p].drv) : ~ IsClosed(s)
          /\ Goto(p, "idle")
          /\ fr' = [fr EXCEPT ![p] = NoFrame]
          /\ UNCHANGED stream
       \/ /\ \A s \in StreamNamed(fr[p].drv) : IsClosed(s)
          /\ stream' = [s \in StreamSlot |->
                IF s \in StreamNamed(fr[p].drv)
                THEN [id |-> NoName, user |-> 0, gen |-> stream[s].gen, active |-> 0]
                ELSE stream[s]]
          /\ Goto(p, "unreg_clear")
          /\ UNCHANGED fr
    /\ UNCHANGED <<port, nextToken, dev, regs, calls>>

\* The second check.  Fault: the first one is trusted.
ClearableUnchecked(s) == TRUE
Clearable(s) == port[s].token = 0

UnregisterClear(p) ==
    /\ pc[p] = "unreg_clear"
    /\ port' = [s \in PortSlot |->
          IF s \in PortNamed(fr[p].drv) /\ Clearable(s) THEN FreePort ELSE port[s]]
    /\ Goto(p, "idle")
    /\ fr' = [fr EXCEPT ![p] = NoFrame]
    /\ UNCHANGED <<nextToken, stream, dev, regs, calls>>

(***************************************************************************)
(* Claiming a port, by name or through its stream.                         *)
(***************************************************************************)
\* Fault: a claimed port is claimed again.
ClaimableUnchecked(s) == TRUE
Claimable(s) == port[s].token = 0

\* Zero is no token: the counter skips it when it wraps.  Fault: it does not.
NextTokenWrapped(t) == (t + 1) % TokenSpace
NextToken(t) == IF t + 1 = TokenSpace THEN 1 ELSE t + 1

\* The section of solar_os_port_claim: token, handle and the driver's open
\* callback are taken together.
ClaimEntry(c, s) ==
    /\ Claimable(s)
    /\ port' = [port EXCEPT ![s].token = nextToken]
    /\ nextToken' = NextToken(nextToken)
    /\ fr' = [fr EXCEPT ![c].slot = s, ![c].token = nextToken, ![c].drv = port[s].name]
    /\ Goto(c, "claim_open")

Claim(c, n) ==
    /\ pc[c] = "idle" /\ fr[c] = NoFrame
    /\ calls < MaxCalls
    /\ \E s \in PortNamed(n) : ClaimEntry(c, s)
    /\ calls' = calls + 1
    /\ UNCHANGED <<stream, dev, regs>>

\* Port streams are exclusive.  A stream of another service has no port.
StreamOpen(c, n) ==
    /\ pc[c] = "idle" /\ fr[c] = NoFrame
    /\ calls < MaxCalls
    /\ \E s \in StreamNamed(n) :
        /\ stream[s].user # 0
        /\ stream[s].active = 0
        /\ stream' = [stream EXCEPT ![s].active = @ + 1]
        /\ fr' = [fr EXCEPT ![c].str = s, ![c].gen = stream[s].gen,
                            ![c].user = stream[s].user]
    /\ Goto(c, "open_claim")
    /\ calls' = calls + 1
    /\ UNCHANGED <<port, nextToken, dev, regs>>

\* port_stream_open claims whatever name its port slot has now.
AdapterClaim(c) ==
    /\ pc[c] = "open_claim"
    /\ \/ \E s \in PortNamed(port[fr[c].user].name) :
            /\ port[s].name # NoName
            /\ ClaimEntry(c, s)
       \/ /\ \A s \in PortNamed(port[fr[c].user].name) :
                port[s].name = NoName \/ ~ Claimable(s)
          /\ Goto(c, "open_rollback")
          /\ UNCHANGED <<port, nextToken, fr>>
    /\ UNCHANGED <<stream, dev, regs, calls>>

NoPortHandle(f) == [f EXCEPT !.slot = 0, !.token = 0, !.drv = NoName]

\* The driver's open callback.
DriverOpened(c) ==
    /\ pc[c] = "claim_open"
    /\ dev' = dev \cup {fr[c].drv}
    /\ Goto(c, "idle")
    /\ UNCHANGED <<port, nextToken, stream, fr, regs, calls>>

DriverRefused(c) ==
    /\ pc[c] = "claim_open"
    /\ Goto(c, "claim_rollback")
    /\ UNCHANGED <<port, nextToken, stream, dev, fr, regs, calls>>

\* The entry still carries the claim this call made.  Fault: never found.
SameClaimNever(f) == FALSE
SameClaim(f) == port[f.slot].name # NoName /\ port[f.slot].token = f.token

Unclaim(f) == IF SameClaim(f) THEN [port EXCEPT ![f.slot].token = 0] ELSE port

ClaimRollback(c) ==
    /\ pc[c] = "claim_rollback"
    /\ port' = Unclaim(fr[c])
    /\ fr' = [fr EXCEPT ![c] = NoPortHandle(@)]
    /\ Goto(c, IF fr[c].str = 0 THEN "idle" ELSE "open_rollback")
    /\ UNCHANGED <<nextToken, stream, dev, regs, calls>>

\* One open handle fewer, if the endpoint is still the one that was opened.
\* Fault: compared with the generation the next registration will get.
SameStreamOffByOne(f) == stream[f.str].id # NoName /\ stream[f.str].gen = f.gen + 1
SameStream(f) == stream[f.str].id # NoName /\ stream[f.str].gen = f.gen

DropStream(f) ==
    IF SameStream(f) /\ stream[f.str].active > 0
    THEN [stream EXCEPT ![f.str].active = @ - 1]
    ELSE stream

OpenRollback(c) ==
    /\ pc[c] = "open_rollback"
    /\ stream' = DropStream(fr[c])
    /\ fr' = [fr EXCEPT ![c] = NoFrame]
    /\ Goto(c, "idle")
    /\ UNCHANGED <<port, nextToken, dev, regs, calls>>

(***************************************************************************)
(* Giving a port back, directly or by closing its stream.                  *)
(***************************************************************************)
HandleValid(f) == f.slot # 0 /\ port[f.slot].name # NoName /\ port[f.slot].token = f.token

\* A holder checks its handle before it releases it.
ReleaseCall(c) ==
    /\ pc[c] = "idle" /\ fr[c].slot # 0 /\ fr[c].str = 0
    /\ IF HandleValid(fr[c])
       THEN Goto(c, "rel_begin") /\ UNCHANGED fr
       ELSE fr' = [fr EXCEPT ![c] = NoFrame] /\ UNCHANGED pc
    /\ UNCHANGED <<port, nextToken, stream, dev, regs, calls>>

CloseCall(c) ==
    /\ pc[c] = "idle" /\ fr[c].str # 0
    /\ IF SameStream(fr[c])
       THEN Goto(c, "close_fetch") /\ UNCHANGED fr
       ELSE fr' = [fr EXCEPT ![c] = NoFrame] /\ UNCHANGED pc
    /\ UNCHANGED <<port, nextToken, stream, dev, regs, calls>>

\* A slot cleared meanwhile has no close callback any more.
CloseFetch(c) ==
    /\ pc[c] = "close_fetch"
    /\ Goto(c, IF stream[fr[c].str].id = NoName THEN "close_drop" ELSE "close_check")
    /\ UNCHANGED <<port, nextToken, stream, dev, fr, regs, calls>>

\* port_stream_close releases a handle it finds valid and forgets it anyway.
CloseCheck(c) ==
    /\ pc[c] = "close_check"
    /\ IF HandleValid(fr[c])
       THEN Goto(c, "rel_begin") /\ UNCHANGED fr
       ELSE Goto(c, "close_drop") /\ fr' = [fr EXCEPT ![c] = NoPortHandle(@)]
    /\ UNCHANGED <<port, nextToken, stream, dev, regs, calls>>

\* solar_os_port_release returned to a holder or to port_stream_close, which
\* no longer have a handle; a careful holder keeps one that was not released.
Returned(c) ==
    /\ fr' = [fr EXCEPT ![c] = NoPortHandle(@)]
    /\ Goto(c, IF fr[c].str = 0 THEN "idle" ELSE "close_drop")

ReleaseBegin(c) ==
    /\ pc[c] = "rel_begin"
    /\ IF HandleValid(fr[c])
       THEN /\ fr' = [fr EXCEPT ![c].drv = port[fr[c].slot].name]
            /\ Goto(c, "rel_close")
       ELSE Returned(c)
    /\ UNCHANGED <<port, nextToken, stream, dev, regs, calls>>

\* The driver's close callback.  Fault: it is not called.
DriverClosedNot(c) ==
    /\ pc[c] = "rel_close"
    /\ Goto(c, "rel_clear")
    /\ UNCHANGED <<port, nextToken, stream, dev, fr, regs, calls>>
DriverClosed(c) ==
    /\ pc[c] = "rel_close"
    /\ dev' = dev \ {fr[c].drv}
    /\ Goto(c, "rel_clear")
    /\ UNCHANGED <<port, nextToken, stream, fr, regs, calls>>

DriverNotClosed(c) ==
    /\ pc[c] = "rel_close"
    /\ fr[c].drv \in SlowClose
    /\ IF fr[c].str = 0 /\ c \notin Careless
       THEN Goto(c, "idle") /\ UNCHANGED fr
       ELSE Returned(c)
    /\ UNCHANGED <<port, nextToken, stream, dev, regs, calls>>

ReleaseClear(c) ==
    /\ pc[c] = "rel_clear"
    /\ port' = Unclaim(fr[c])
    /\ Returned(c)
    /\ UNCHANGED <<nextToken, stream, dev, regs, calls>>

CloseDrop(c) ==
    /\ pc[c] = "close_drop"
    /\ stream' = DropStream(fr[c])
    /\ fr' = [fr EXCEPT ![c] = NoFrame]
    /\ Goto(c, "idle")
    /\ UNCHANGED <<port, nextToken, dev, regs, calls>>

\* Nobody has to call the registry again.
Rest == (\A t \in Task : pc[t] = "idle") /\ UNCHANGED vars

ProviderStep(p) ==
    \/ Register(p) \/ RegisterStream(p) \/ RegisterStreamRefused(p)
    \/ RegisterRollback(p) \/ Unregister(p) \/ UnregisterStream(p)
    \/ UnregisterClear(p)

ClientStep(c) ==
    \/ \E n \in Known : Claim(c, n)
    \/ \E n \in KnownStream : StreamOpen(c, n)
    \/ AdapterClaim(c) \/ DriverOpened(c) \/ DriverRefused(c)
    \/ ClaimRollback(c) \/ OpenRollback(c) \/ ReleaseCall(c) \/ CloseCall(c)
    \/ CloseFetch(c) \/ CloseCheck(c) \/ ReleaseBegin(c) \/ DriverClosed(c)
    \/ DriverNotClosed(c) \/ ReleaseClear(c) \/ CloseDrop(c)

Next == (\E p \in Provider : ProviderStep(p)) \/ (\E c \in Client : ClientStep(c)) \/ Rest

Spec == Init /\ [][Next]_vars

-----------------------------------------------------------------------------
(***************************************************************************)
(* What must hold.                                                         *)
(***************************************************************************)

\* Every variable stays in its type, every task inside a call it may make.
TypeOK ==
    /\ port \in [PortSlot -> PortEntry]
    /\ nextToken \in Token
    /\ stream \in [StreamSlot -> StreamEntry]
    /\ dev \subseteq Name
    /\ pc \in [Task -> ProviderPc \cup ClientPc]
    /\ \A p \in Provider : pc[p] \in ProviderPc
    /\ \A c \in Client : pc[c] \in ClientPc
    /\ fr \in [Task -> Frame]
    /\ regs \in 0 .. MaxRegs
    /\ calls \in 0 .. MaxCalls

\* The tasks that have a claim on slot s, or are making or ending one.
Holders(s) == {c \in Client : fr[c].slot = s /\ fr[c].token = port[s].token}
InUse(c) == fr[c].slot # 0 /\ pc[c] \in {"idle", "claim_open", "claim_rollback",
                                         "close_fetch", "close_check", "rel_begin",
                                         "rel_close", "rel_clear"}

\* A claim, direct or through the stream, lasts until its holder ends it: no
\* unregister, no other claim and no registration takes the entry away.
ClaimKept == \A c \in Client :
    InUse(c) => HandleValid(fr[c]) /\ port[fr[c].slot].name = fr[c].drv

\* solar_os_port_claim runs a driver's open callback only while the driver is
\* closed: the last holder's close callback returned before.
OpenOnClosed == \A c \in Client : pc[c] = "claim_open" => fr[c].drv \notin dev

\* A driver is open only while its port is registered and claimed: neither
\* unregister nor a failed claim leaves a device running behind.
OpenMeansClaimed == \A n \in dev : \E s \in PortNamed(n) : port[s].token # 0

\* A claimed port has exactly one task that can release it.
ClaimsHeld == \A s \in PortSlot :
    port[s].token # 0 => Cardinality(Holders(s)) = 1

\* active_handles counts the tasks that opened the endpoint and did not close
\* it yet, which is never more than one for a port.
HandlesCounted == \A s \in StreamSlot :
    LET users == {c \in Client : fr[c].str = s /\ fr[c].gen = stream[s].gen}
    IN stream[s].active = Cardinality(users) /\ stream[s].active <= 1

\* driver.user of a port's endpoint is the slot of that port as long as the
\* endpoint is registered, and as long as an open on its way will use it.
EndpointBacked ==
    /\ \A s \in StreamSlot : stream[s].user # 0 => port[stream[s].user].name = stream[s].id
    /\ \A c \in Client : pc[c] = "open_claim" =>
          /\ SameStream(fr[c])
          /\ stream[fr[c].str].user = fr[c].user

\* The registry implements PortClaims.  A port is owned from the section that
\* claims it to the section that releases it or rolls it back.
OwnersOf(n) == {c \in Client : fr[c].drv = n /\ HandleValid(fr[c])}
Claims == INSTANCE PortClaims WITH
    there <- {n \in Name : PortNamed(n) # {}},
    owner <- [n \in Name |-> IF OwnersOf(n) = {} THEN NoClient
                             ELSE CHOOSE c \in OwnersOf(n) : TRUE]
ClaimsSpec == Claims!Spec
=============================================================================
