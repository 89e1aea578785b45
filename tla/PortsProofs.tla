----------------------------- MODULE PortsProofs -----------------------------
(***************************************************************************)
(* Proofs about the port registry (Ports), for every number of port and    *)
(* stream slots, every set of drivers and clients and every token space.   *)
(***************************************************************************)
EXTENDS Ports, FiniteSetTheorems, TLAPS

USE DEF Task, PortSlot, StreamSlot, Token

(***************************************************************************)
(* Stream handles.  Nothing is assumed of the drivers or of the tables'    *)
(* sizes here.                                                             *)
(***************************************************************************)

\* What the endpoint in slot s is for client c, from its open to its close.
Opened(c, s) ==
    /\ stream[s].id \in Name
    /\ stream[s].gen = fr[c].gen
    /\ stream[s].user = fr[c].user
    /\ stream[s].user # 0
    /\ stream[s].active = 1

\* A slot without endpoint belongs to no port, an open endpoint has an opener,
\* and no two endpoints have one name.
StreamsSound ==
    /\ \A s \in StreamSlot : stream[s].id = NoName => stream[s].user = 0
    /\ \A s \in StreamSlot : stream[s].active = 0 \/ \E c \in Client : fr[c].str = s
    /\ \A r, s \in StreamSlot : stream[r].id = stream[s].id /\ stream[s].id # NoName => r = s

\* The calls of a client that work on a stream it has opened.
StreamCall == {"open_claim", "open_rollback", "close_fetch", "close_check", "close_drop"}

\* Whoever has a stream handle has it alone, and the endpoint stays its own.
OpenersSound ==
    /\ \A c \in Client : fr[c].str # 0 => Opened(c, fr[c].str)
    /\ \A c, d \in Client : fr[c].str # 0 /\ fr[c].str = fr[d].str => c = d
    /\ \A c \in Client : pc[c] \in StreamCall => fr[c].str # 0

\* A call knows the name of the driver it works for.
CallsSound ==
    /\ \A p \in Provider : pc[p] # "idle" => fr[p].drv = DriverName[p]
    /\ \A c \in Client : pc[c] = "claim_open" => fr[c].drv \in Name

HandleInv == TypeOK /\ StreamsSound /\ OpenersSound /\ CallsSound
-----------------------------------------------------------------------------
\* The token after the last one is 1, never 0.
LEMMA NextTokenType == ASSUME NEW t \in Token PROVE NextToken(t) \in Token
BY PortsAssumption DEF NextToken

\* No handle of either kind.
LEMMA NoFrameType == /\ NoFrame \in Frame
                     /\ NoFrame.slot = 0 /\ NoFrame.str = 0
                     /\ NoFrame.gen = 0 /\ NoFrame.user = 0
BY DEF NoFrame, Frame

\* Nothing is claimed or opened at the start; the streams of other services
\* are spread over different slots.
LEMMA InitHandleInv == Init => HandleInv
<1>. SUFFICES ASSUME Init PROVE HandleInv
  OBVIOUS
<1>. USE PortsAssumption
<1>1. PICK at \in [Foreign -> StreamSlot] :
        /\ \A f, g \in Foreign : at[f] = at[g] => f = g
        /\ stream = [s \in StreamSlot |->
              IF \E f \in Foreign : at[f] = s
              THEN [id |-> CHOOSE f \in Foreign : at[f] = s,
                    user |-> 0, gen |-> 1, active |-> 0]
              ELSE [id |-> NoName, user |-> 0, gen |-> 0, active |-> 0]]
  BY DEF Init
<1>2. ASSUME NEW s \in StreamSlot
      PROVE  /\ stream[s] \in StreamEntry
             /\ stream[s].user = 0 /\ stream[s].active = 0
             /\ \/ stream[s].id = NoName
                \/ stream[s].id \in Foreign /\ at[stream[s].id] = s
  <2>1. CASE \E f \in Foreign : at[f] = s
    <3>. DEFINE g == CHOOSE f \in Foreign : at[f] = s
    <3>1. g \in Foreign /\ at[g] = s
      BY <2>1
    <3>2. stream[s] = [id |-> g, user |-> 0, gen |-> 1, active |-> 0]
      BY <1>1, <2>1
    <3>. HIDE DEF g
    <3>. QED  BY <3>1, <3>2 DEF StreamEntry
  <2>2. CASE ~ \E f \in Foreign : at[f] = s
    <3>1. stream[s] = [id |-> NoName, user |-> 0, gen |-> 0, active |-> 0]
      BY <1>1, <2>2
    <3>. QED  BY <3>1 DEF StreamEntry
  <2>. QED  BY <2>1, <2>2
<1>3. stream = [s \in StreamSlot |-> stream[s]]
  BY <1>1
<1>4. stream \in [StreamSlot -> StreamEntry]
  BY <1>2, <1>3
<1>5. TypeOK
  <2>1. port \in [PortSlot -> PortEntry] /\ nextToken \in Token
    BY DEF Init, PortEntry, FreePort
  <2>3. pc = [t \in Task |-> "idle"] /\ fr = [t \in Task |-> NoFrame]
    BY DEF Init
  <2>4. fr \in [Task -> Frame]
    BY <2>3, NoFrameType
  <2>5. dev = {} /\ regs \in 0 .. MaxRegs /\ calls \in 0 .. MaxCalls
    BY DEF Init
  <2>. QED  BY <1>4, <2>1, <2>3, <2>4, <2>5 DEF TypeOK, ProviderPc, ClientPc
<1>6. StreamsSound
  BY <1>2 DEF StreamsSound
<1>7. OpenersSound /\ CallsSound
  BY DEF Init, OpenersSound, CallsSound, StreamCall, NoFrame
<1>. QED  BY <1>5, <1>6, <1>7 DEF HandleInv
-----------------------------------------------------------------------------
\* A step that leaves the streams and the stream handles alone.
LEMMA StreamsUntouched ==
    ASSUME HandleInv, UNCHANGED stream,
           \A c \in Client : /\ fr'[c].str = fr[c].str
                             /\ fr[c].str # 0 => fr'[c].gen = fr[c].gen /\ fr'[c].user = fr[c].user
                             /\ pc'[c] \in StreamCall => fr[c].str # 0
    PROVE  StreamsSound' /\ OpenersSound'
BY DEF HandleInv, StreamsSound, OpenersSound, Opened

\* A step of a provider leaves every client's call and handles alone.
LEMMA ProviderAlone ==
    ASSUME TypeOK, NEW p \in Provider, ProviderStep(p)
    PROVE  /\ \A c \in Client : fr'[c] = fr[c] /\ pc'[c] = pc[c]
           /\ \A q \in Provider : q # p => fr'[q] = fr[q] /\ pc'[q] = pc[q]
           /\ pc' \in [Task -> ProviderPc \cup ClientPc] /\ pc'[p] \in ProviderPc
BY PortsAssumption DEF TypeOK, ProviderStep, Register, RegisterStream, RegisterStreamRefused,
   RegisterRollback, Unregister, UnregisterStream, UnregisterClear, Goto, ProviderPc

\* A step of a provider that touches no stream.
LEMMA NoStreamStep ==
    ASSUME HandleInv, NEW p \in Provider, ProviderStep(p),
           UNCHANGED <<nextToken, stream, dev, calls>>,
           port' \in [PortSlot -> PortEntry], fr' \in [Task -> Frame],
           regs' \in 0 .. MaxRegs, pc'[p] # "idle" => fr'[p].drv = DriverName[p]
    PROVE  HandleInv'
<1>. USE DEF HandleInv
<1>1. StreamsSound' /\ OpenersSound'
  BY ProviderAlone, StreamsUntouched DEF OpenersSound
<1>2. CallsSound'
  BY ProviderAlone DEF CallsSound
<1>3. TypeOK'
  BY ProviderAlone DEF TypeOK
<1>. QED  BY <1>1, <1>2, <1>3

\* Publishing a port.
LEMMA RegisterHandles ==
    ASSUME HandleInv, NEW p \in Provider, Register(p)
    PROVE  HandleInv'
<1>. USE PortsAssumption DEF HandleInv
<1>1. PICK s \in PortSlot :
         /\ port' = [port EXCEPT ![s] = [name |-> DriverName[p], token |-> 0]]
         /\ fr' = [fr EXCEPT ![p] = [NoFrame EXCEPT !.slot = s, !.drv = DriverName[p]]]
  BY DEF Register
<1>. DEFINE f == [NoFrame EXCEPT !.slot = s, !.drv = DriverName[p]]
            e == [name |-> DriverName[p], token |-> 0]
<1>2. f \in Frame /\ f.drv = DriverName[p]
  BY DEF NoFrame, Frame
<1>3. e \in PortEntry
  BY DEF PortEntry
<1>4. fr' = [fr EXCEPT ![p] = f] /\ port' = [port EXCEPT ![s] = e]
  BY <1>1
<1>. HIDE DEF f, e
<1>5. fr' \in [Task -> Frame] /\ fr'[p].drv = DriverName[p] /\ port' \in [PortSlot -> PortEntry]
  BY <1>2, <1>3, <1>4 DEF TypeOK
<1>6. ProviderStep(p) /\ UNCHANGED <<nextToken, stream, dev, calls>>
  BY DEF ProviderStep, Register
<1>7. regs' \in 0 .. MaxRegs
  BY DEF Register, TypeOK
<1>. QED  BY <1>5, <1>6, <1>7, NoStreamStep

\* Taking a port back, or the calls on the way there.
LEMMA TakeBackHandles ==
    ASSUME HandleInv, NEW p \in Provider,
           RegisterStreamRefused(p) \/ RegisterRollback(p) \/ Unregister(p) \/ UnregisterClear(p)
    PROVE  HandleInv'
<1>. USE PortsAssumption DEF HandleInv
<1>1. ProviderStep(p) /\ UNCHANGED <<nextToken, stream, dev, calls>>
  BY DEF ProviderStep, RegisterStreamRefused, RegisterRollback, Unregister, UnregisterClear
<1>2. regs' \in 0 .. MaxRegs
  BY DEF RegisterStreamRefused, RegisterRollback, Unregister, UnregisterClear, TypeOK
<1>3. CASE RegisterStreamRefused(p)
  <2>1. UNCHANGED <<port, fr>> /\ pc[p] # "idle"
    BY <1>3 DEF RegisterStreamRefused
  <2>. QED  BY <1>1, <1>2, <2>1, NoStreamStep DEF TypeOK, CallsSound
<1>4. CASE RegisterRollback(p)
  <2>1. /\ port' = [port EXCEPT ![fr[p].slot] = FreePort]
        /\ fr' = [fr EXCEPT ![p] = NoFrame]
        /\ pc' = [pc EXCEPT ![p] = "idle"]
    BY <1>4 DEF RegisterRollback, Goto
  <2>2. port' \in [PortSlot -> PortEntry]
    <3>1. FreePort \in PortEntry
      BY DEF FreePort, PortEntry
    <3>. QED  BY <2>1, <3>1 DEF TypeOK
  <2>3. fr' \in [Task -> Frame] /\ pc'[p] = "idle"
    BY <2>1, NoFrameType DEF TypeOK
  <2>. QED  BY <1>1, <1>2, <2>2, <2>3, NoStreamStep
<1>5. CASE Unregister(p)
  <2>. DEFINE f == [NoFrame EXCEPT !.drv = DriverName[p]]
  <2>1. f \in Frame /\ f.drv = DriverName[p]
    BY DEF NoFrame, Frame
  <2>2. fr' = [fr EXCEPT ![p] = f] /\ UNCHANGED port
    BY <1>5 DEF Unregister
  <2>. HIDE DEF f
  <2>3. fr' \in [Task -> Frame] /\ fr'[p].drv = DriverName[p]
    BY <2>1, <2>2 DEF TypeOK
  <2>. QED  BY <1>1, <1>2, <2>2, <2>3, NoStreamStep DEF TypeOK
<1>6. CASE UnregisterClear(p)
  <2>1. /\ port' = [s \in PortSlot |->
              IF s \in PortNamed(fr[p].drv) /\ Clearable(s) THEN FreePort ELSE port[s]]
        /\ fr' = [fr EXCEPT ![p] = NoFrame]
        /\ pc' = [pc EXCEPT ![p] = "idle"]
    BY <1>6 DEF UnregisterClear, Goto
  <2>2. port' \in [PortSlot -> PortEntry]
    <3>1. FreePort \in PortEntry
      BY DEF FreePort, PortEntry
    <3>. QED  BY <2>1, <3>1 DEF TypeOK
  <2>3. fr' \in [Task -> Frame] /\ pc'[p] = "idle"
    BY <2>1, NoFrameType DEF TypeOK
  <2>. QED  BY <1>1, <1>2, <2>2, <2>3, NoStreamStep
<1>. QED  BY <1>3, <1>4, <1>5, <1>6

\* The slot an endpoint is published in has no opener.
LEMMA RegisterStreamHandles ==
    ASSUME HandleInv, NEW p \in Provider, RegisterStream(p)
    PROVE  HandleInv'
<1>. USE PortsAssumption DEF HandleInv
<1>1. PICK s \in StreamSlot :
         /\ stream[s].id = NoName
         /\ stream' = [stream EXCEPT ![s] =
              [id |-> fr[p].drv, user |-> fr[p].slot, gen |-> stream[s].gen + 1, active |-> 0]]
  BY DEF RegisterStream, IsFirstFreeStream
<1>2. /\ StreamNamed(fr[p].drv) = {} /\ fr[p].drv = DriverName[p]
      /\ UNCHANGED <<port, nextToken, dev, regs, calls>>
      /\ fr' = [fr EXCEPT ![p] = NoFrame] /\ pc' = [pc EXCEPT ![p] = "idle"]
  BY DEF RegisterStream, EndpointFits, Goto, CallsSound
<1>3. ProviderStep(p)
  BY DEF ProviderStep
<1>. DEFINE e == [id |-> fr[p].drv, user |-> fr[p].slot, gen |-> stream[s].gen + 1, active |-> 0]
<1>4. e \in StreamEntry /\ e.id = DriverName[p] /\ e.active = 0
  <2>1. fr[p] \in Frame /\ stream[s] \in StreamEntry
    BY DEF TypeOK
  <2>. QED  BY <1>2, <2>1 DEF StreamEntry, Frame
<1>5. stream' = [stream EXCEPT ![s] = e]
  BY <1>1
<1>. HIDE DEF e
<1>6. StreamsSound'
  <2>1. stream'[s] = e /\ \A r \in StreamSlot : r # s => stream'[r] = stream[r]
    BY <1>5 DEF TypeOK
  <2>2. \A r \in StreamSlot : stream[r].id # e.id
    BY <1>2, <1>4 DEF StreamNamed
  <2>3. e.id # NoName
    BY <1>4
  <2>. QED  BY <1>3, <1>4, <2>1, <2>2, <2>3, ProviderAlone DEF StreamsSound
<1>7. OpenersSound'
  BY <1>1, <1>3, <1>5, ProviderAlone DEF OpenersSound, Opened
<1>8. CallsSound'
  BY <1>2, <1>3, ProviderAlone DEF CallsSound, TypeOK
<1>9. TypeOK'
  <2>1. stream' \in [StreamSlot -> StreamEntry]
    BY <1>4, <1>5 DEF TypeOK
  <2>2. fr' \in [Task -> Frame]
    BY <1>2 DEF TypeOK, NoFrame, Frame
  <2>. QED  BY <1>2, <1>3, <2>1, <2>2, ProviderAlone DEF TypeOK
<1>. QED  BY <1>6, <1>7, <1>8, <1>9

\* The endpoint that is removed has no opener.
LEMMA UnregisterStreamHandles ==
    ASSUME HandleInv, NEW p \in Provider, UnregisterStream(p)
    PROVE  HandleInv'
<1>. USE PortsAssumption DEF HandleInv
<1>1. ProviderStep(p)
  BY DEF ProviderStep
<1>2. UNCHANGED <<port, nextToken, dev, regs, calls>> /\ pc[p] = "unreg_stream"
  BY DEF UnregisterStream
<1>3. \/ pc'[p] = "idle"
      \/ UNCHANGED fr
  BY DEF UnregisterStream, Goto, TypeOK
<1>4. fr' \in [Task -> Frame]
  <2>1. UNCHANGED fr \/ fr' = [fr EXCEPT ![p] = NoFrame]
    BY DEF UnregisterStream
  <2>. QED  BY <2>1, NoFrameType DEF TypeOK
<1>5. CallsSound'
  BY <1>1, <1>2, <1>3, ProviderAlone DEF CallsSound
<1>6. CASE UNCHANGED stream
  <2>1. StreamsSound' /\ OpenersSound'
    BY <1>1, <1>6, ProviderAlone, StreamsUntouched DEF OpenersSound
  <2>. QED  BY <1>1, <1>2, <1>4, <1>5, <1>6, <2>1, ProviderAlone DEF TypeOK
<1>7. CASE /\ \A s \in StreamNamed(fr[p].drv) : IsClosed(s)
           /\ stream' = [s \in StreamSlot |->
                IF s \in StreamNamed(fr[p].drv)
                THEN [id |-> NoName, user |-> 0, gen |-> stream[s].gen, active |-> 0]
                ELSE stream[s]]
  <2>1. \A s \in StreamSlot :
           \/ stream'[s] = stream[s]
           \/ /\ stream[s].active = 0 /\ stream'[s] \in StreamEntry
              /\ stream'[s].id = NoName /\ stream'[s].user = 0 /\ stream'[s].active = 0
    BY <1>7 DEF IsClosed, TypeOK, StreamEntry
  <2>2. stream' = [s \in StreamSlot |-> stream'[s]]
    BY <1>7
  <2>3. stream' \in [StreamSlot -> StreamEntry]
    BY <2>1, <2>2 DEF TypeOK
  <2>4. StreamsSound'
    BY <1>1, <2>1, ProviderAlone DEF StreamsSound
  <2>5. OpenersSound'
    <3>1. ASSUME NEW c \in Client, fr[c].str # 0
          PROVE  stream'[fr[c].str] = stream[fr[c].str]
      <4>1. fr[c].str \in StreamSlot /\ stream[fr[c].str].active = 1
        BY <3>1 DEF OpenersSound, Opened, TypeOK, Frame
      <4>. QED  BY <2>1, <4>1
    <3>. QED  BY <1>1, <3>1, ProviderAlone DEF OpenersSound, Opened
  <2>. QED  BY <1>1, <1>2, <1>4, <1>5, <2>3, <2>4, <2>5, ProviderAlone DEF TypeOK
<1>. QED  BY <1>6, <1>7 DEF UnregisterStream
-----------------------------------------------------------------------------
\* A step of a client leaves every other task alone.
LEMMA ClientAlone ==
    ASSUME TypeOK, NEW c \in Client, ClientStep(c)
    PROVE  /\ \A t \in Task : t # c => fr'[t] = fr[t] /\ pc'[t] = pc[t]
           /\ pc' \in [Task -> ProviderPc \cup ClientPc] /\ pc'[c] \in ClientPc
           /\ regs' = regs /\ calls' \in 0 .. MaxCalls
<1>1. \E l \in ClientPc : pc' = [pc EXCEPT ![c] = l]
  <2>. USE DEF Goto
  <2>1. ASSUME NEW n \in Name, Claim(c, n) \/ StreamOpen(c, n)
        PROVE  pc' = [pc EXCEPT ![c] = "claim_open"] \/ pc' = [pc EXCEPT ![c] = "open_claim"]
    BY <2>1 DEF Claim, StreamOpen, ClaimEntry
  <2>2. CASE AdapterClaim(c)
    BY <2>2 DEF AdapterClaim, ClaimEntry, ClientPc
  <2>3. CASE DriverOpened(c) \/ DriverRefused(c) \/ OpenRollback(c) \/ DriverClosed(c) \/ CloseDrop(c)
    BY <2>3 DEF DriverOpened, DriverRefused, OpenRollback, DriverClosed, CloseDrop, ClientPc
  <2>4. CASE ReleaseCall(c) \/ CloseCall(c)
    <3>1. UNCHANGED pc \/ pc' = [pc EXCEPT ![c] = "rel_begin"] \/ pc' = [pc EXCEPT ![c] = "close_fetch"]
      BY <2>4 DEF ReleaseCall, CloseCall
    <3>2. pc = [pc EXCEPT ![c] = pc[c]] /\ pc[c] \in ClientPc
      BY DEF TypeOK
    <3>. QED  BY <3>1, <3>2 DEF ClientPc
  <2>5. CASE ClaimRollback(c) \/ CloseFetch(c)
    <3>1. \E l \in {"idle", "open_rollback", "close_drop", "close_check"} : pc' = [pc EXCEPT ![c] = l]
      <4>1. CASE ClaimRollback(c)
        BY <4>1 DEF ClaimRollback
      <4>2. CASE CloseFetch(c)
        BY <4>2 DEF CloseFetch
      <4>. QED  BY <2>5, <4>1, <4>2
    <3>. QED  BY <3>1 DEF ClientPc
  <2>6. CASE CloseCheck(c)
    BY <2>6 DEF CloseCheck, ClientPc
  <2>7. Returned(c) => \E l \in {"idle", "close_drop"} : pc' = [pc EXCEPT ![c] = l]
    BY DEF Returned
  <2>8. CASE ReleaseBegin(c) \/ DriverNotClosed(c) \/ ReleaseClear(c)
    BY <2>7, <2>8 DEF ReleaseBegin, DriverNotClosed, ReleaseClear, ClientPc
  <2>9. (\E n \in Known : Claim(c, n)) \/ (\E n \in KnownStream : StreamOpen(c, n))
           => \E l \in ClientPc : pc' = [pc EXCEPT ![c] = l]
    BY <2>1, PortsAssumption DEF ClientPc
  <2>. QED  BY <2>2, <2>3, <2>4, <2>5, <2>6, <2>8, <2>9 DEF ClientStep
<1>2. \A t \in Task : t # c => fr'[t] = fr[t]
  BY DEF TypeOK, ClientStep, Claim, StreamOpen, AdapterClaim, DriverOpened, DriverRefused,
     ClaimRollback, OpenRollback, ReleaseCall, CloseCall, CloseFetch, CloseCheck, ReleaseBegin,
     DriverClosed, DriverNotClosed, ReleaseClear, CloseDrop, ClaimEntry, Returned
<1>3. regs' = regs /\ (calls' = calls \/ (calls < MaxCalls /\ calls' = calls + 1))
  BY DEF ClientStep, Claim, StreamOpen, AdapterClaim, DriverOpened, DriverRefused,
     ClaimRollback, OpenRollback, ReleaseCall, CloseCall, CloseFetch, CloseCheck, ReleaseBegin,
     DriverClosed, DriverNotClosed, ReleaseClear, CloseDrop
<1>4. calls' \in 0 .. MaxCalls
  <2>1. calls \in 0 .. MaxCalls /\ MaxCalls \in Nat
    BY PortsAssumption DEF TypeOK
  <2>. QED  BY <1>3, <2>1
<1>. QED  BY <1>1, <1>2, <1>3, <1>4 DEF TypeOK

\* A step of a client that leaves the streams and its stream handle alone.
LEMMA PortStep ==
    ASSUME HandleInv, NEW c \in Client, ClientStep(c), UNCHANGED stream,
           NEW f \in Frame, fr' = [fr EXCEPT ![c] = f], f.str = fr[c].str,
           f.str # 0 => f.gen = fr[c].gen /\ f.user = fr[c].user,
           pc'[c] \in StreamCall => f.str # 0,
           pc'[c] = "claim_open" => f.drv \in Name,
           port' \in [PortSlot -> PortEntry], nextToken' \in Token, dev' \subseteq Name
    PROVE  HandleInv'
<1>. USE PortsAssumption DEF HandleInv
<1>1. fr' \in [Task -> Frame] /\ fr'[c] = f
  BY DEF TypeOK
<1>2. StreamsSound' /\ OpenersSound'
  BY <1>1, ClientAlone, StreamsUntouched DEF OpenersSound
<1>3. CallsSound'
  BY <1>1, ClientAlone DEF CallsSound
<1>4. TypeOK'
  BY <1>1, ClientAlone DEF TypeOK
<1>. QED  BY <1>2, <1>3, <1>4

\* A claim takes a free slot's token; the handle names the driver.
LEMMA ClaimEntryHandles ==
    ASSUME HandleInv, NEW c \in Client, ClientStep(c), NEW s \in PortSlot,
           port[s].name \in Name, ClaimEntry(c, s), UNCHANGED <<stream, dev>>
    PROVE  HandleInv'
<1>. USE PortsAssumption DEF HandleInv
<1>. DEFINE f == [fr[c] EXCEPT !.slot = s, !.token = nextToken, !.drv = port[s].name]
<1>1. fr[c] \in Frame /\ nextToken \in Token /\ port[s] \in PortEntry
  BY DEF TypeOK
<1>2. /\ f \in Frame /\ f.str = fr[c].str /\ f.gen = fr[c].gen /\ f.user = fr[c].user
      /\ f.drv \in Name
  BY <1>1 DEF Frame
<1>3. fr' = [fr EXCEPT ![c] = f]
  BY <1>1 DEF ClaimEntry
<1>. HIDE DEF f
<1>4. port' \in [PortSlot -> PortEntry]
  BY <1>1 DEF ClaimEntry, PortEntry, TypeOK
<1>5. nextToken' \in Token
  BY <1>1, NextTokenType DEF ClaimEntry
<1>6. pc'[c] = "claim_open"
  BY DEF ClaimEntry, Goto, TypeOK
<1>7. dev' \subseteq Name
  BY DEF TypeOK
<1>. QED  BY <1>2, <1>3, <1>4, <1>5, <1>6, <1>7, PortStep DEF StreamCall

\* Claiming by name or for a stream.
LEMMA ClaimHandles ==
    ASSUME HandleInv, NEW c \in Client,
           (\E n \in Known : Claim(c, n)) \/ AdapterClaim(c)
    PROVE  HandleInv'
<1>. USE PortsAssumption DEF HandleInv
<1>1. ClientStep(c)
  BY DEF ClientStep
<1>2. ASSUME NEW n \in Known, Claim(c, n)
      PROVE  HandleInv'
  BY <1>1, <1>2, ClaimEntryHandles DEF Claim, PortNamed
<1>3. CASE AdapterClaim(c)
  <2>1. UNCHANGED <<stream, dev>> /\ pc[c] = "open_claim"
    BY <1>3 DEF AdapterClaim
  <2>2. ASSUME NEW s \in PortSlot, port[s].name # NoName, ClaimEntry(c, s)
        PROVE  HandleInv'
    <3>1. port[s].name \in Name
      BY <2>2 DEF TypeOK, PortEntry
    <3>. QED  BY <1>1, <2>1, <2>2, <3>1, ClaimEntryHandles
  <2>3. CASE Goto(c, "open_rollback") /\ UNCHANGED <<port, nextToken, fr>>
    <3>1. fr[c].str # 0 /\ fr[c] \in Frame /\ fr' = [fr EXCEPT ![c] = fr[c]]
      BY <2>1, <2>3 DEF OpenersSound, StreamCall, TypeOK
    <3>2. pc'[c] = "open_rollback"
      BY <2>3 DEF Goto, TypeOK
    <3>. QED  BY <1>1, <2>1, <2>3, <3>1, <3>2, PortStep DEF TypeOK
  <2>. QED  BY <1>3, <2>2, <2>3 DEF AdapterClaim, PortNamed
<1>. QED  BY <1>2, <1>3

\* The driver's callbacks change no handle but the driver's own state.
LEMMA DriverHandles ==
    ASSUME HandleInv, NEW c \in Client,
           DriverOpened(c) \/ DriverRefused(c) \/ DriverClosed(c)
    PROVE  HandleInv'
<1>. USE PortsAssumption DEF HandleInv
<1>1. ClientStep(c) /\ UNCHANGED <<port, nextToken, stream, fr>>
  BY DEF ClientStep, DriverOpened, DriverRefused, DriverClosed
<1>2. dev' \subseteq Name
  BY DEF DriverOpened, DriverRefused, DriverClosed, TypeOK, CallsSound
<1>3. pc'[c] \in {"idle", "claim_rollback", "rel_clear"}
  BY DEF DriverOpened, DriverRefused, DriverClosed, Goto, TypeOK
<1>4. fr[c] \in Frame /\ fr' = [fr EXCEPT ![c] = fr[c]]
  BY <1>1 DEF TypeOK
<1>. QED  BY <1>1, <1>2, <1>3, <1>4, PortStep DEF TypeOK, StreamCall

\* A handle without its port half is the same stream handle.
LEMMA NoPortHandleType ==
    ASSUME NEW f \in Frame
    PROVE  /\ NoPortHandle(f) \in Frame
           /\ NoPortHandle(f).slot = 0
           /\ NoPortHandle(f).str = f.str
           /\ NoPortHandle(f).gen = f.gen
           /\ NoPortHandle(f).user = f.user
BY DEF NoPortHandle, Frame

\* Dropping a claim clears the token of a slot and nothing else.
LEMMA UnclaimType ==
    ASSUME TypeOK, NEW f \in Frame
    PROVE  /\ Unclaim(f) \in [PortSlot -> PortEntry]
           /\ \A s \in PortSlot : Unclaim(f)[s].name = port[s].name
           /\ \A s \in PortSlot : s # f.slot => Unclaim(f)[s] = port[s]
           /\ SameClaim(f) /\ f.slot # 0 => Unclaim(f)[f.slot].token = 0
BY DEF Unclaim, TypeOK, PortEntry, Frame

\* A rollback of the claim drops the port half of the handle.
LEMMA ClaimRollbackHandles ==
    ASSUME HandleInv, NEW c \in Client, ClaimRollback(c)
    PROVE  HandleInv'
<1>. USE PortsAssumption DEF HandleInv
<1>1. ClientStep(c) /\ UNCHANGED <<nextToken, stream, dev>> /\ port' = Unclaim(fr[c])
  BY DEF ClientStep, ClaimRollback
<1>2. fr[c] \in Frame /\ fr' = [fr EXCEPT ![c] = NoPortHandle(fr[c])]
  BY DEF TypeOK, ClaimRollback
<1>3. pc'[c] \in StreamCall => fr[c].str # 0
  BY DEF ClaimRollback, Goto, TypeOK, StreamCall
<1>4. pc'[c] # "claim_open"
  BY DEF ClaimRollback, Goto, TypeOK
<1>5. port' \in [PortSlot -> PortEntry]
  BY <1>1, <1>2, UnclaimType
<1>. QED  BY <1>1, <1>2, <1>3, <1>4, <1>5, NoPortHandleType, PortStep DEF TypeOK

\* A call that ends may drop the port half of the handle.
LEMMA ReturnedHandles ==
    ASSUME HandleInv, NEW c \in Client, ClientStep(c), Returned(c),
           UNCHANGED <<nextToken, stream, dev>>, port' \in [PortSlot -> PortEntry]
    PROVE  HandleInv'
<1>. USE PortsAssumption DEF HandleInv
<1>1. fr[c] \in Frame /\ fr' = [fr EXCEPT ![c] = NoPortHandle(fr[c])]
  BY DEF TypeOK, Returned
<1>2. pc'[c] \in StreamCall => fr[c].str # 0
  BY DEF Returned, Goto, TypeOK, StreamCall
<1>3. pc'[c] # "claim_open"
  BY DEF Returned, Goto, TypeOK
<1>. QED  BY <1>1, <1>2, <1>3, NoPortHandleType, PortStep DEF TypeOK

\* Releasing a port keeps the stream half of the handle.
LEMMA ReleaseHandles ==
    ASSUME HandleInv, NEW c \in Client,
           ReleaseBegin(c) \/ DriverNotClosed(c) \/ ReleaseClear(c) \/ CloseFetch(c) \/ CloseCheck(c)
    PROVE  HandleInv'
<1>. USE PortsAssumption DEF HandleInv
<1>1. ClientStep(c) /\ UNCHANGED <<nextToken, stream, dev>>
  BY DEF ClientStep, ReleaseBegin, DriverNotClosed, ReleaseClear, CloseFetch, CloseCheck
<1>2. fr[c] \in Frame
  BY DEF TypeOK
<1>3. port' \in [PortSlot -> PortEntry]
  BY <1>2, UnclaimType DEF ReleaseBegin, DriverNotClosed, ReleaseClear, CloseFetch, CloseCheck, TypeOK
<1>4. CASE Returned(c)
  BY <1>1, <1>3, <1>4, ReturnedHandles
<1>5. CASE ReleaseBegin(c) /\ ~ Returned(c)
  <2>. DEFINE f == [fr[c] EXCEPT !.drv = port[fr[c].slot].name]
  <2>1. /\ fr' = [fr EXCEPT ![c] = f] /\ pc'[c] = "rel_close"
        /\ HandleValid(fr[c])
    BY <1>2, <1>5 DEF ReleaseBegin, Goto, TypeOK
  <2>2. fr[c].slot \in PortSlot
    BY <1>2, <2>1 DEF HandleValid, Frame
  <2>3. port[fr[c].slot] \in PortEntry
    BY <2>2 DEF TypeOK
  <2>4. f \in Frame /\ f.str = fr[c].str /\ f.gen = fr[c].gen /\ f.user = fr[c].user
    BY <1>2, <2>3 DEF Frame, PortEntry
  <2>. HIDE DEF f
  <2>. QED  BY <1>1, <1>3, <2>1, <2>4, PortStep DEF TypeOK, StreamCall
<1>6. CASE (DriverNotClosed(c) \/ CloseFetch(c) \/ (CloseCheck(c) /\ HandleValid(fr[c]))) /\ ~ Returned(c)
  <2>1. UNCHANGED fr /\ fr' = [fr EXCEPT ![c] = fr[c]]
    BY <1>6 DEF DriverNotClosed, CloseFetch, CloseCheck, TypeOK
  <2>2. pc'[c] \in StreamCall => fr[c].str # 0
    BY <1>6 DEF DriverNotClosed, CloseFetch, CloseCheck, TypeOK, Goto, StreamCall, OpenersSound
  <2>3. pc'[c] # "claim_open"
    BY <1>6 DEF DriverNotClosed, CloseFetch, CloseCheck, TypeOK, Goto
  <2>. QED  BY <1>1, <1>2, <1>3, <2>1, <2>2, <2>3, PortStep DEF TypeOK
<1>7. CASE CloseCheck(c) /\ ~ HandleValid(fr[c])
  <2>1. fr' = [fr EXCEPT ![c] = NoPortHandle(fr[c])] /\ pc'[c] = "close_drop" /\ fr[c].str # 0
    BY <1>2, <1>7 DEF CloseCheck, Goto, TypeOK, OpenersSound, StreamCall
  <2>. QED  BY <1>1, <1>2, <1>3, <2>1, NoPortHandleType, PortStep DEF TypeOK
<1>8. CASE ReleaseClear(c) /\ ~ Returned(c)
  BY <1>8 DEF ReleaseClear
<1>. QED  BY <1>4, <1>5, <1>6, <1>7, <1>8

\* A stream handle is always good for its endpoint.
LEMMA OpenedSameStream ==
    ASSUME HandleInv, NEW c \in Client, fr[c].str # 0
    PROVE  /\ fr[c].str \in StreamSlot
           /\ SameStream(fr[c])
           /\ stream[fr[c].str].active = 1
           /\ DropStream(fr[c]) = [stream EXCEPT ![fr[c].str].active = 0]
<1>1. fr[c].str \in StreamSlot
  BY DEF HandleInv, TypeOK, Frame
<1>2. Opened(c, fr[c].str)
  BY DEF HandleInv, OpenersSound
<1>3. SameStream(fr[c]) /\ stream[fr[c].str].active = 1
  BY <1>2, PortsAssumption DEF Opened, SameStream
<1>. QED  BY <1>1, <1>3 DEF DropStream

\* The calls that begin a release or a close keep a good handle.
LEMMA CallHandles ==
    ASSUME HandleInv, NEW c \in Client, ReleaseCall(c) \/ CloseCall(c)
    PROVE  HandleInv'
<1>. USE PortsAssumption DEF HandleInv
<1>1. ClientStep(c) /\ UNCHANGED <<port, nextToken, stream, dev>>
  BY DEF ClientStep, ReleaseCall, CloseCall
<1>2. fr[c] \in Frame
  BY DEF TypeOK
<1>3. CASE ReleaseCall(c)
  <2>1. /\ fr[c].str = 0
        /\ pc'[c] \in {"idle", "rel_begin"}
        /\ fr' = [fr EXCEPT ![c] = fr[c]] \/ fr' = [fr EXCEPT ![c] = NoFrame]
    BY <1>3 DEF ReleaseCall, Goto, TypeOK
  <2>. QED  BY <1>1, <1>2, <2>1, NoFrameType, PortStep DEF TypeOK, StreamCall
<1>4. CASE CloseCall(c)
  <2>1. fr[c].str # 0 /\ fr' = [fr EXCEPT ![c] = fr[c]] /\ pc'[c] = "close_fetch"
    BY <1>4, OpenedSameStream DEF CloseCall, Goto, TypeOK
  <2>. QED  BY <1>1, <1>2, <2>1, PortStep DEF TypeOK
<1>. QED  BY <1>3, <1>4

\* Opening takes an endpoint that nobody has open.
LEMMA StreamOpenHandles ==
    ASSUME HandleInv, NEW c \in Client, NEW n \in KnownStream, StreamOpen(c, n)
    PROVE  HandleInv'
<1>. USE PortsAssumption DEF HandleInv
<1>1. ClientStep(c) /\ UNCHANGED <<port, nextToken, dev, regs>>
  BY DEF ClientStep, StreamOpen
<1>2. PICK s \in StreamSlot :
        /\ stream[s].id = n /\ stream[s].user # 0 /\ stream[s].active = 0
        /\ stream' = [stream EXCEPT ![s].active = stream[s].active + 1]
        /\ fr' = [fr EXCEPT ![c].str = s, ![c].gen = stream[s].gen, ![c].user = stream[s].user]
  BY DEF StreamOpen, StreamNamed
<1>3. fr[c] = NoFrame /\ pc'[c] = "open_claim"
  BY DEF StreamOpen, Goto, TypeOK
<1>4. stream[s] \in StreamEntry /\ stream' \in [StreamSlot -> StreamEntry]
  <2>. DEFINE e == [stream[s] EXCEPT !.active = stream[s].active + 1]
  <2>1. stream[s] \in StreamEntry
    BY DEF TypeOK
  <2>2. e \in StreamEntry
    BY <2>1 DEF StreamEntry
  <2>3. stream' = [stream EXCEPT ![s] = e]
    BY <1>2 DEF TypeOK
  <2>. HIDE DEF e
  <2>. QED  BY <2>1, <2>2, <2>3 DEF TypeOK
<1>5. /\ fr'[c].str = s /\ fr'[c].gen = stream[s].gen /\ fr'[c].user = stream[s].user
      /\ fr' \in [Task -> Frame]
  <2>. DEFINE f == [fr[c] EXCEPT !.str = s, !.gen = stream[s].gen, !.user = stream[s].user]
  <2>1. fr' = [fr EXCEPT ![c] = f]
    BY <1>2 DEF TypeOK
  <2>2. f \in Frame /\ f.str = s /\ f.gen = stream[s].gen /\ f.user = stream[s].user
    <3>1. fr[c] \in Frame
      BY DEF TypeOK
    <3>2. stream[s].gen \in Nat /\ stream[s].user \in PortSlot \cup {0}
      BY <1>4 DEF StreamEntry
    <3>. QED  BY <3>1, <3>2 DEF Frame
  <2>. HIDE DEF f
  <2>. QED  BY <2>1, <2>2 DEF TypeOK
<1>6. /\ stream'[s].id = n /\ stream'[s].user = stream[s].user
      /\ stream'[s].gen = stream[s].gen /\ stream'[s].active = 1
      /\ \A r \in StreamSlot : r # s => stream'[r] = stream[r]
  BY <1>2, <1>4 DEF TypeOK, StreamEntry
<1>7. StreamsSound'
  <2>1. \A r \in StreamSlot : stream'[r].id = stream[r].id /\ stream'[r].user = stream[r].user
    BY <1>2, <1>6
  <2>2. ASSUME NEW r \in StreamSlot, stream'[r].active # 0
        PROVE  \E d \in Client : fr'[d].str = r
    <3>1. CASE r = s
      BY <1>5, <3>1
    <3>2. CASE r # s
      <4>1. PICK d \in Client : fr[d].str = r
        BY <1>6, <2>2, <3>2 DEF StreamsSound
      <4>2. d # c
        BY <1>3, <4>1, NoFrameType
      <4>. QED  BY <1>1, <4>1, <4>2, ClientAlone
    <3>. QED  BY <3>1, <3>2
  <2>. QED  BY <2>1, <2>2 DEF StreamsSound
<1>8. OpenersSound'
  <2>1. ASSUME NEW d \in Client, d # c, fr[d].str # 0
        PROVE  fr[d].str # s /\ fr'[d] = fr[d] /\ fr[d].str \in StreamSlot
    <3>1. fr[d].str \in StreamSlot /\ stream[fr[d].str].active = 1
      BY <2>1, OpenedSameStream
    <3>2. fr'[d] = fr[d]
      BY <1>1, <2>1, ClientAlone
    <3>3. stream[s].active = 0
      BY <1>2
    <3>. QED  BY <3>1, <3>2, <3>3
  <2>2. \A d \in Client : d # c => fr'[d] = fr[d] /\ pc'[d] = pc[d]
    BY <1>1, ClientAlone
  <2>3. Opened(c, s)'
    BY <1>2, <1>5, <1>6 DEF Opened
  <2>4. \A d \in Client : fr'[d].str # 0 => Opened(d, fr[d].str)'
    <3>1. ASSUME NEW d \in Client, d # c, fr[d].str # 0
          PROVE  Opened(d, fr[d].str)'
      BY <1>6, <2>1, <3>1 DEF OpenersSound, Opened
    <3>. QED  BY <1>5, <2>2, <2>3, <3>1
  <2>5. \A d, e \in Client : fr'[d].str # 0 /\ fr'[d].str = fr'[e].str => d = e
    BY <1>5, <2>1, <2>2 DEF OpenersSound
  <2>6. \A d \in Client : pc'[d] \in StreamCall => fr'[d].str # 0
    BY <1>5, <2>2 DEF OpenersSound
  <2>. QED  BY <2>4, <2>5, <2>6 DEF OpenersSound
<1>9. CallsSound'
  BY <1>1, <1>3, ClientAlone DEF CallsSound
<1>10. TypeOK'
  BY <1>1, <1>4, <1>5, ClientAlone DEF TypeOK
<1>. QED  BY <1>7, <1>8, <1>9, <1>10

\* The opener's close makes the endpoint one that nobody has open.
LEMMA StreamDropHandles ==
    ASSUME HandleInv, NEW c \in Client, OpenRollback(c) \/ CloseDrop(c)
    PROVE  HandleInv'
<1>. USE PortsAssumption DEF HandleInv
<1>1. ClientStep(c) /\ UNCHANGED <<port, nextToken, dev, regs>>
  BY DEF ClientStep, OpenRollback, CloseDrop
<1>2. /\ fr' = [fr EXCEPT ![c] = NoFrame] /\ stream' = DropStream(fr[c]) /\ pc'[c] = "idle"
      /\ fr[c].str # 0
  BY DEF OpenRollback, CloseDrop, Goto, TypeOK, OpenersSound, StreamCall
<1>. DEFINE s == fr[c].str
<1>3. s \in StreamSlot /\ stream' = [stream EXCEPT ![s].active = 0]
  BY <1>2, OpenedSameStream
<1>. HIDE DEF s
<1>4. stream' \in [StreamSlot -> StreamEntry]
  BY <1>3 DEF TypeOK, StreamEntry
<1>5. /\ stream'[s].id = stream[s].id /\ stream'[s].user = stream[s].user /\ stream'[s].active = 0
      /\ \A r \in StreamSlot : r # s => stream'[r] = stream[r]
  BY <1>3 DEF TypeOK, StreamEntry
<1>6. fr' \in [Task -> Frame] /\ fr'[c] = NoFrame
  BY <1>2, NoFrameType DEF TypeOK
<1>7. \A d \in Client : d # c => fr'[d] = fr[d] /\ pc'[d] = pc[d]
  BY <1>1, ClientAlone
<1>8. StreamsSound'
  <2>1. \A r \in StreamSlot : stream'[r].id = stream[r].id /\ stream'[r].user = stream[r].user
    BY <1>5
  <2>2. \A r \in StreamSlot : stream'[r].active = 0 \/ \E d \in Client : fr'[d].str = r
    BY <1>5, <1>7 DEF StreamsSound, s
  <2>. QED  BY <2>1, <2>2 DEF StreamsSound
<1>9. OpenersSound'
  <2>1. ASSUME NEW d \in Client, d # c, fr[d].str # 0
        PROVE  stream'[fr[d].str] = stream[fr[d].str]
    <3>1. fr[d].str # s /\ fr[d].str \in StreamSlot
      BY <1>2, <2>1, OpenedSameStream DEF s, OpenersSound
    <3>. QED  BY <1>5, <3>1
  <2>. QED  BY <1>2, <1>6, <1>7, <2>1, NoFrameType DEF OpenersSound, Opened, StreamCall
<1>10. CallsSound'
  BY <1>1, <1>2, ClientAlone DEF CallsSound
<1>11. TypeOK'
  BY <1>1, <1>4, <1>6, ClientAlone DEF TypeOK
<1>. QED  BY <1>8, <1>9, <1>10, <1>11
-----------------------------------------------------------------------------
\* Every step keeps the handles sound.
LEMMA NextHandleInv == HandleInv /\ [Next]_vars => HandleInv'
<1>. SUFFICES ASSUME HandleInv, [Next]_vars PROVE HandleInv'
  OBVIOUS
<1>1. ASSUME NEW p \in Provider, ProviderStep(p) PROVE HandleInv'
  BY <1>1, RegisterHandles, TakeBackHandles, RegisterStreamHandles, UnregisterStreamHandles
     DEF ProviderStep
<1>2. ASSUME NEW c \in Client, ClientStep(c) PROVE HandleInv'
  BY <1>2, ClaimHandles, StreamOpenHandles, DriverHandles, ClaimRollbackHandles, CallHandles,
     ReleaseHandles, StreamDropHandles DEF ClientStep
<1>3. CASE UNCHANGED vars
  BY <1>3 DEF vars, HandleInv, TypeOK, StreamsSound, OpenersSound, Opened, CallsSound
<1>. QED  BY <1>1, <1>2, <1>3 DEF Next, Rest

\* Every reachable state is well typed, every task inside a call it may make.
THEOREM TypeCorrect == Spec => []TypeOK
<1>1. HandleInv => TypeOK
  BY DEF HandleInv
<1>. QED  BY <1>1, InitHandleInv, NextHandleInv, PTL DEF Spec

\* The tasks that have the endpoint in slot s open.
Users(s) == {c \in Client : fr[c].str = s /\ fr[c].gen = stream[s].gen}

\* The count of open handles is the number of those tasks.
LEMMA CountOfUsers ==
    ASSUME HandleInv, NEW s \in StreamSlot
    PROVE  stream[s].active = Cardinality(Users(s)) /\ stream[s].active <= 1
<1>. USE DEF HandleInv
<1>1. s # 0
  OBVIOUS
<1>2. CASE stream[s].active = 0
  <2>1. Users(s) = {}
    BY <1>1, <1>2 DEF OpenersSound, Opened, Users
  <2>. QED  BY <1>2, <2>1, FS_EmptySet
<1>3. CASE stream[s].active # 0
  <2>1. PICK c \in Client : fr[c].str = s
    BY <1>3 DEF StreamsSound
  <2>2. Opened(c, s)
    BY <1>1, <2>1 DEF OpenersSound
  <2>3. Users(s) = {c}
    BY <1>1, <2>1, <2>2 DEF OpenersSound, Opened, Users
  <2>. QED  BY <2>2, <2>3, FS_Singleton DEF Opened
<1>. QED  BY <1>2, <1>3

\* active_handles is the number of tasks that opened the endpoint and did not
\* close it, never more than one: whatever the drivers and the tables' sizes.
THEOREM HandlesAreCounted == Spec => []HandlesCounted
<1>1. HandleInv => HandlesCounted
  BY CountOfUsers DEF HandlesCounted, Users
<1>. QED  BY <1>1, InitHandleInv, NextHandleInv, PTL DEF Spec
-----------------------------------------------------------------------------
(***************************************************************************)
(* Endpoints.  From here on every driver has a port name of its own, as    *)
(* the services of the code do: solar_os_port_register refuses a name that *)
(* is taken, but two calls that undo each other's registration are stopped *)
(* by nothing else.                                                        *)
(***************************************************************************)
DriversDistinct == \A p, q \in Provider : DriverName[p] = DriverName[q] => p = q

\* A port that is not registered is not claimed; no two have one name.
PortsSound ==
    /\ \A s \in PortSlot : port[s].name = NoName => port[s].token = 0
    /\ \A r, s \in PortSlot : port[r].name = port[s].name /\ port[s].name # NoName => r = s

\* An endpoint that has a port has the one of its own name.
EndpointsSound ==
    \A s \in StreamSlot : stream[s].user # 0 => port[stream[s].user].name = stream[s].id

\* The port of a registration under way is there and has no endpoint yet; the
\* endpoint of an unregistration that is about to clear the port is gone.
Registering(p) == pc[p] \in {"reg_stream", "reg_rollback"}
ProvidersSound ==
    /\ \A p \in Provider : Registering(p) =>
          /\ fr[p].slot # 0
          /\ port[fr[p].slot].name = DriverName[p]
          /\ \A s \in StreamSlot : stream[s].user # fr[p].slot
    /\ \A p \in Provider : pc[p] = "unreg_clear" => StreamNamed(DriverName[p]) = {}

EndpointInv == HandleInv /\ PortsSound /\ EndpointsSound /\ ProvidersSound

\* At the start no port is registered and every stream is somebody else's.
LEMMA InitEndpointInv == Init => EndpointInv
<1>. SUFFICES ASSUME Init PROVE EndpointInv
  OBVIOUS
<1>1. HandleInv
  BY InitHandleInv
<1>2. PortsSound /\ ProvidersSound
  BY DEF Init, PortsSound, ProvidersSound, Registering, FreePort
<1>3. \A s \in StreamSlot : stream[s].user = 0
  BY DEF Init
<1>. QED  BY <1>1, <1>2, <1>3 DEF EndpointInv, EndpointsSound

\* A step that changes no name in either table and claims no unused slot.
NamesKept ==
    /\ \A s \in PortSlot : port'[s].name = port[s].name
    /\ \A s \in PortSlot : port[s].name = NoName /\ port[s].token = 0 => port'[s].token = 0
    /\ \A s \in StreamSlot : stream'[s].id = stream[s].id /\ stream'[s].user = stream[s].user

\* Every step of a client is one.
LEMMA ClientNames ==
    ASSUME HandleInv, NEW c \in Client, ClientStep(c)
    PROVE  NamesKept
<1>. USE DEF HandleInv, NamesKept
<1>1. fr[c] \in Frame
  BY DEF TypeOK
<1>2. ASSUME NEW r \in PortSlot, port[r].name # NoName, ClaimEntry(c, r)
      PROVE  \A s \in PortSlot : /\ port'[s].name = port[s].name
                                 /\ port[s].name = NoName => port'[s] = port[s]
  BY <1>2 DEF ClaimEntry, TypeOK, PortEntry
<1>3. CASE \E n \in Known : Claim(c, n)
  <2>1. PICK n \in Known : Claim(c, n)
    BY <1>3
  <2>2. PICK r \in PortSlot : port[r].name = n /\ ClaimEntry(c, r)
    BY <2>1 DEF Claim, PortNamed
  <2>3. port[r].name # NoName
    BY <2>2, PortsAssumption
  <2>. QED  BY <1>2, <2>1, <2>2, <2>3 DEF Claim
<1>4. CASE AdapterClaim(c)
  <2>1. UNCHANGED stream
    BY <1>4 DEF AdapterClaim
  <2>2. UNCHANGED port \/ \E r \in PortSlot : port[r].name # NoName /\ ClaimEntry(c, r)
    BY <1>4 DEF AdapterClaim, PortNamed
  <2>. QED  BY <1>2, <2>1, <2>2
<1>5. CASE ClaimRollback(c) \/ ReleaseClear(c)
  <2>1. UNCHANGED stream /\ port' = Unclaim(fr[c])
    BY <1>5 DEF ClaimRollback, ReleaseClear
  <2>2. \A s \in PortSlot : Unclaim(fr[c])[s].token = port[s].token \/ Unclaim(fr[c])[s].token = 0
    BY <1>1 DEF Unclaim, TypeOK, PortEntry, Frame
  <2>. QED  BY <1>1, <2>1, <2>2, UnclaimType
<1>6. CASE \E n \in KnownStream : StreamOpen(c, n)
  BY <1>6 DEF StreamOpen, TypeOK, StreamEntry
<1>7. CASE OpenRollback(c) \/ CloseDrop(c)
  <2>1. UNCHANGED port /\ stream' = DropStream(fr[c])
    BY <1>7 DEF OpenRollback, CloseDrop
  <2>2. \A s \in StreamSlot : /\ DropStream(fr[c])[s].id = stream[s].id
                              /\ DropStream(fr[c])[s].user = stream[s].user
    BY DEF DropStream, TypeOK, StreamEntry
  <2>. QED  BY <2>1, <2>2
<1>8. CASE DriverOpened(c) \/ DriverRefused(c) \/ ReleaseCall(c) \/ CloseCall(c) \/ CloseFetch(c)
           \/ CloseCheck(c) \/ ReleaseBegin(c) \/ DriverClosed(c) \/ DriverNotClosed(c)
  <2>1. UNCHANGED <<port, stream>>
    BY <1>8 DEF DriverOpened, DriverRefused, ReleaseCall, CloseCall, CloseFetch, CloseCheck,
       ReleaseBegin, DriverClosed, DriverNotClosed
  <2>. QED  BY <2>1
<1>. QED  BY <1>3, <1>4, <1>5, <1>6, <1>7, <1>8 DEF ClientStep

\* So a client keeps the endpoints sound.
LEMMA ClientEndpoints ==
    ASSUME EndpointInv, NEW c \in Client, ClientStep(c)
    PROVE  PortsSound' /\ EndpointsSound' /\ ProvidersSound'
<1>. USE PortsAssumption DEF EndpointInv
<1>0. HandleInv
  OBVIOUS
<1>1. \A p \in Provider : fr'[p] = fr[p] /\ pc'[p] = pc[p]
  BY ClientAlone DEF HandleInv
<1>2. NamesKept
  BY <1>0, ClientNames
<1>. USE DEF NamesKept
<1>3. PortsSound'
  <2>1. ASSUME NEW s \in PortSlot, port'[s].name = NoName
        PROVE  port'[s].token = 0
    BY <1>2, <2>1 DEF PortsSound
  <2>2. ASSUME NEW r \in PortSlot, NEW s \in PortSlot,
               port'[r].name = port'[s].name, port'[s].name # NoName
        PROVE  r = s
    <3>1. port[r].name = port[s].name /\ port[s].name # NoName
      BY <1>2, <2>2
    <3>. QED  BY <3>1 DEF PortsSound
  <2>. QED  BY <2>1, <2>2 DEF PortsSound
<1>4. EndpointsSound'
  <2>1. \A s \in StreamSlot : stream[s].user \in PortSlot \cup {0}
    BY DEF HandleInv, TypeOK, StreamEntry
  <2>. QED  BY <1>2, <2>1 DEF EndpointsSound
<1>5. ProvidersSound'
  <2>1. \A p \in Provider : fr[p].slot \in PortSlot \cup {0}
    BY DEF HandleInv, TypeOK, Frame
  <2>. QED  BY <1>1, <1>2, <2>1 DEF ProvidersSound, Registering, StreamNamed
<1>. QED  BY <1>3, <1>4, <1>5

\* A port is published in a slot no endpoint points to.
LEMMA RegisterEndpoints ==
    ASSUME DriversDistinct, EndpointInv, NEW p \in Provider, Register(p)
    PROVE  PortsSound' /\ EndpointsSound' /\ ProvidersSound'
<1>. USE PortsAssumption DEF EndpointInv
<1>0. HandleInv /\ ProviderStep(p) /\ UNCHANGED stream
  BY DEF ProviderStep, Register
<1>1. PICK s \in PortSlot :
         /\ port[s].name = NoName
         /\ port' = [port EXCEPT ![s] = [name |-> DriverName[p], token |-> 0]]
         /\ fr' = [fr EXCEPT ![p] = [NoFrame EXCEPT !.slot = s, !.drv = DriverName[p]]]
  BY DEF Register, IsFirstFreePort
<1>2. /\ port'[s].name = DriverName[p] /\ port'[s].token = 0
      /\ \A r \in PortSlot : r # s => port'[r] = port[r]
  BY <1>1 DEF HandleInv, TypeOK
<1>3. fr'[p].slot = s /\ pc'[p] = "reg_stream"
  BY <1>1 DEF HandleInv, TypeOK, Register, Goto, NoFrame
<1>4. \A r \in PortSlot : port[r].name # DriverName[p]
  BY DEF Register, PortNamed
<1>5. \A r \in StreamSlot : stream[r].user # s
  BY <1>1 DEF EndpointsSound, HandleInv, StreamsSound
<1>6. PortsSound'
  BY <1>2, <1>4 DEF PortsSound
<1>7. EndpointsSound'
  <2>1. \A r \in StreamSlot : stream[r].user \in PortSlot \cup {0}
    BY DEF HandleInv, TypeOK, StreamEntry
  <2>. QED  BY <1>0, <1>2, <1>5, <2>1 DEF EndpointsSound
<1>8. ProvidersSound'
  <2>1. \A q \in Provider : q # p => fr'[q] = fr[q] /\ pc'[q] = pc[q]
    BY <1>0, ProviderAlone DEF HandleInv
  <2>2. ASSUME NEW q \in Provider, q # p, Registering(q)
        PROVE  fr[q].slot \in PortSlot /\ fr[q].slot # s
    BY <1>1, <2>2 DEF ProvidersSound, HandleInv, TypeOK, Frame
  <2>. QED  BY <1>0, <1>2, <1>3, <1>5, <2>1, <2>2 DEF ProvidersSound, Registering, StreamNamed
<1>. QED  BY <1>6, <1>7, <1>8

\* The endpoint points to the slot its own port is still in.
LEMMA RegisterStreamEndpoints ==
    ASSUME DriversDistinct, EndpointInv, NEW p \in Provider, RegisterStream(p)
    PROVE  PortsSound' /\ EndpointsSound' /\ ProvidersSound'
<1>. USE PortsAssumption DEF EndpointInv
<1>0. HandleInv /\ ProviderStep(p) /\ UNCHANGED port
  BY DEF ProviderStep, RegisterStream
<1>1. PICK s \in StreamSlot :
         stream' = [stream EXCEPT ![s] =
              [id |-> fr[p].drv, user |-> fr[p].slot, gen |-> stream[s].gen + 1, active |-> 0]]
  BY DEF RegisterStream
<1>2. /\ stream'[s].id = fr[p].drv /\ stream'[s].user = fr[p].slot
      /\ \A r \in StreamSlot : r # s => stream'[r] = stream[r]
  BY <1>1 DEF HandleInv, TypeOK
<1>3. /\ fr[p].drv = DriverName[p] /\ fr[p].slot # 0
      /\ port[fr[p].slot].name = DriverName[p] /\ fr[p].slot \in PortSlot
  BY DEF HandleInv, CallsSound, ProvidersSound, Registering, RegisterStream, TypeOK, Frame
<1>4. PortsSound'
  BY <1>0 DEF PortsSound
<1>5. EndpointsSound'
  BY <1>0, <1>2, <1>3 DEF EndpointsSound
<1>6. ProvidersSound'
  <2>1. \A q \in Provider : q # p => fr'[q] = fr[q] /\ pc'[q] = pc[q]
    BY <1>0, ProviderAlone DEF HandleInv
  <2>2. pc'[p] = "idle"
    BY DEF RegisterStream, Goto, HandleInv, TypeOK
  <2>3. \A q \in Provider : q # p => DriverName[q] # DriverName[p]
    BY DEF DriversDistinct
  <2>4. ASSUME NEW q \in Provider, q # p, Registering(q)
        PROVE  \A r \in StreamSlot : stream'[r].user # fr[q].slot
    BY <1>2, <1>3, <2>3, <2>4 DEF ProvidersSound
  <2>5. ASSUME NEW q \in Provider, q # p, pc[q] = "unreg_clear"
        PROVE  \A r \in StreamSlot : stream'[r].id # DriverName[q]
    BY <1>2, <1>3, <2>3, <2>5 DEF ProvidersSound, StreamNamed
  <2>. QED  BY <1>0, <2>1, <2>2, <2>4, <2>5 DEF ProvidersSound, Registering, StreamNamed
<1>. QED  BY <1>4, <1>5, <1>6

\* Removing an endpoint, or only moving to the next section of a call.
LEMMA UnregisterStreamEndpoints ==
    ASSUME DriversDistinct, EndpointInv, NEW p \in Provider,
           RegisterStreamRefused(p) \/ Unregister(p) \/ UnregisterStream(p)
    PROVE  PortsSound' /\ EndpointsSound' /\ ProvidersSound'
<1>. USE PortsAssumption DEF EndpointInv
<1>0. HandleInv /\ ProviderStep(p) /\ UNCHANGED port
  BY DEF ProviderStep, RegisterStreamRefused, Unregister, UnregisterStream
<1>1. \A s \in StreamSlot :
         stream'[s] = stream[s] \/ (stream'[s].id = NoName /\ stream'[s].user = 0)
  BY DEF RegisterStreamRefused, Unregister, UnregisterStream
<1>2. PortsSound'
  BY <1>0 DEF PortsSound
<1>3. EndpointsSound'
  BY <1>0, <1>1 DEF EndpointsSound
<1>4. ProvidersSound'
  <2>1. \A q \in Provider : q # p => fr'[q] = fr[q] /\ pc'[q] = pc[q]
    BY <1>0, ProviderAlone DEF HandleInv
  <2>2. ASSUME NEW q \in Provider, Registering(q)'
        PROVE  Registering(q) /\ fr'[q] = fr[q]
    <3>1. CASE q = p
      BY <2>2, <3>1 DEF RegisterStreamRefused, Unregister, UnregisterStream, Goto, HandleInv,
         TypeOK, Registering
    <3>2. CASE q # p
      BY <2>1, <2>2, <3>2 DEF Registering
    <3>. QED  BY <3>1, <3>2
  <2>3. ASSUME NEW q \in Provider, pc'[q] = "unreg_clear"
        PROVE  \A s \in StreamSlot : stream'[s].id # DriverName[q]
    <3>1. CASE q = p
      <4>1. /\ UnregisterStream(p) /\ fr[p].drv = DriverName[p] /\ pc[p] = "unreg_stream"
        BY <2>3, <3>1 DEF RegisterStreamRefused, Unregister, UnregisterStream, Goto, HandleInv,
           TypeOK, CallsSound
      <4>2. stream' = [s \in StreamSlot |->
                IF s \in StreamNamed(fr[p].drv)
                THEN [id |-> NoName, user |-> 0, gen |-> stream[s].gen, active |-> 0]
                ELSE stream[s]]
        BY <2>3, <3>1, <4>1 DEF UnregisterStream, Goto, HandleInv, TypeOK
      <4>. QED  BY <3>1, <4>1, <4>2 DEF StreamNamed
    <3>2. CASE q # p
      BY <1>1, <2>1, <2>3, <3>2 DEF ProvidersSound, StreamNamed
    <3>. QED  BY <3>1, <3>2
  <2>4. ASSUME NEW q \in Provider, Registering(q)
        PROVE  \A s \in StreamSlot : stream'[s].user # fr[q].slot
    BY <1>1, <2>4 DEF ProvidersSound
  <2>. QED  BY <1>0, <2>2, <2>3, <2>4 DEF ProvidersSound, StreamNamed
<1>. QED  BY <1>2, <1>3, <1>4

\* What a provider that takes its port back clears: only slots of its own name.
ClearsOwn(p) ==
    \A s \in PortSlot : \/ port'[s] = port[s]
                       \/ /\ port[s].name = DriverName[p]
                          /\ port'[s].name = NoName /\ port'[s].token = 0

\* A rollback clears the slot its call registered, an unregister the port found
\* by name; neither has an endpoint any more.
LEMMA ClearingStep ==
    ASSUME EndpointInv, NEW p \in Provider, RegisterRollback(p) \/ UnregisterClear(p)
    PROVE  /\ ClearsOwn(p)
           /\ \A s \in StreamSlot : stream[s].user # 0 => stream[s].id # DriverName[p]
<1>. USE PortsAssumption DEF EndpointInv
<1>0. \A s \in StreamSlot : stream[s].user \in PortSlot \cup {0}
  BY DEF HandleInv, TypeOK, StreamEntry
<1>1. CASE RegisterRollback(p)
  <2>1. /\ fr[p].slot \in PortSlot /\ port[fr[p].slot].name = DriverName[p]
        /\ \A s \in StreamSlot : stream[s].user # fr[p].slot
    BY <1>1 DEF RegisterRollback, ProvidersSound, Registering, HandleInv, TypeOK, Frame
  <2>2. port' = [port EXCEPT ![fr[p].slot] = FreePort]
    BY <1>1 DEF RegisterRollback
  <2>3. ClearsOwn(p)
    BY <2>1, <2>2 DEF ClearsOwn, FreePort, HandleInv, TypeOK
  <2>4. ASSUME NEW s \in StreamSlot, stream[s].user # 0, stream[s].id = DriverName[p]
        PROVE  FALSE
    <3>1. stream[s].user \in PortSlot /\ port[stream[s].user].name = DriverName[p]
      BY <1>0, <2>4 DEF EndpointsSound
    <3>2. DriverName[p] # NoName
      OBVIOUS
    <3>3. stream[s].user = fr[p].slot
      BY <2>1, <3>1, <3>2 DEF PortsSound
    <3>. QED  BY <2>1, <3>3
  <2>. QED  BY <2>3, <2>4
<1>2. CASE UnregisterClear(p)
  <2>1. fr[p].drv = DriverName[p] /\ StreamNamed(DriverName[p]) = {}
    BY <1>2 DEF UnregisterClear, HandleInv, CallsSound, ProvidersSound
  <2>2. port' = [s \in PortSlot |->
          IF s \in PortNamed(fr[p].drv) /\ Clearable(s) THEN FreePort ELSE port[s]]
    BY <1>2 DEF UnregisterClear
  <2>3. ClearsOwn(p)
    BY <2>1, <2>2 DEF ClearsOwn, FreePort, PortNamed
  <2>. QED  BY <2>1, <2>3 DEF StreamNamed
<1>. QED  BY <1>1, <1>2

\* So no endpoint loses its port.
LEMMA ClearEndpoints ==
    ASSUME DriversDistinct, EndpointInv, NEW p \in Provider,
           RegisterRollback(p) \/ UnregisterClear(p)
    PROVE  PortsSound' /\ EndpointsSound' /\ ProvidersSound'
<1>. USE PortsAssumption DEF EndpointInv
<1>0. HandleInv /\ ProviderStep(p) /\ UNCHANGED stream
  BY DEF ProviderStep, RegisterRollback, UnregisterClear
<1>1. ClearsOwn(p) /\ \A s \in StreamSlot : stream[s].user # 0 => stream[s].id # DriverName[p]
  BY ClearingStep
<1>2. PortsSound'
  BY <1>1 DEF PortsSound, ClearsOwn
<1>3. EndpointsSound'
  <2>1. \A s \in StreamSlot : stream[s].user \in PortSlot \cup {0}
    BY DEF HandleInv, TypeOK, StreamEntry
  <2>. QED  BY <1>0, <1>1, <2>1 DEF EndpointsSound, ClearsOwn
<1>4. ProvidersSound'
  <2>1. \A q \in Provider : q # p => fr'[q] = fr[q] /\ pc'[q] = pc[q]
    BY <1>0, ProviderAlone DEF HandleInv
  <2>2. pc'[p] = "idle"
    BY DEF RegisterRollback, UnregisterClear, Goto, HandleInv, TypeOK
  <2>3. ASSUME NEW q \in Provider, q # p, Registering(q)
        PROVE  port'[fr[q].slot].name = DriverName[q]
    <3>1. fr[q].slot \in PortSlot /\ port[fr[q].slot].name = DriverName[q]
      BY <2>3 DEF ProvidersSound, HandleInv, TypeOK, Frame
    <3>2. DriverName[q] # DriverName[p]
      BY <2>3 DEF DriversDistinct
    <3>. QED  BY <1>1, <3>1, <3>2 DEF ClearsOwn
  <2>. QED  BY <1>0, <2>1, <2>2, <2>3 DEF ProvidersSound, Registering, StreamNamed
<1>. QED  BY <1>2, <1>3, <1>4

\* Every step keeps the endpoints sound.
LEMMA NextEndpointInv ==
    ASSUME DriversDistinct, EndpointInv, [Next]_vars
    PROVE  EndpointInv'
<1>1. HandleInv'
  BY NextHandleInv DEF EndpointInv
<1>2. ASSUME NEW p \in Provider, ProviderStep(p)
      PROVE  PortsSound' /\ EndpointsSound' /\ ProvidersSound'
  BY <1>2, RegisterEndpoints, RegisterStreamEndpoints, UnregisterStreamEndpoints, ClearEndpoints
     DEF ProviderStep
<1>3. ASSUME NEW c \in Client, ClientStep(c)
      PROVE  PortsSound' /\ EndpointsSound' /\ ProvidersSound'
  BY <1>3, ClientEndpoints
<1>4. CASE UNCHANGED vars
  BY <1>1, <1>4 DEF vars, EndpointInv, PortsSound, EndpointsSound, ProvidersSound, Registering,
     StreamNamed
<1>. QED  BY <1>1, <1>2, <1>3, <1>4 DEF EndpointInv, Next, Rest

\* While drivers keep to names of their own, driver.user of an endpoint is the
\* slot of its port, also for an open that is on its way to claim that slot.
THEOREM EndpointsAreBacked ==
    ASSUME DriversDistinct
    PROVE  Spec => []EndpointBacked
<1>1. EndpointInv => EndpointBacked
  <2>. SUFFICES ASSUME EndpointInv PROVE EndpointBacked
    OBVIOUS
  <2>. USE DEF EndpointInv
  <2>1. ASSUME NEW c \in Client, pc[c] = "open_claim"
        PROVE  SameStream(fr[c]) /\ stream[fr[c].str].user = fr[c].user
    <3>1. fr[c].str # 0
      BY <2>1 DEF HandleInv, OpenersSound, StreamCall
    <3>2. Opened(c, fr[c].str)
      BY <3>1 DEF HandleInv, OpenersSound
    <3>. QED  BY <3>1, <3>2, OpenedSameStream DEF Opened
  <2>. QED  BY <2>1 DEF EndpointBacked, EndpointsSound
<1>2. EndpointInv /\ [Next]_vars => EndpointInv'
  BY NextEndpointInv
<1>. QED  BY <1>1, <1>2, InitEndpointInv, PTL DEF Spec
-----------------------------------------------------------------------------
(***************************************************************************)
(* Claims.  From here on every port a client asks for by name can have its *)
(* endpoint: no other service has a stream of that name, and the stream    *)
(* table has room for an endpoint per port beside the other streams.  If   *)
(* not, the rollback of a refused registration takes a claimed port away.  *)
(***************************************************************************)
EndpointsFit ==
    /\ Known \cap Foreign = {}
    /\ Cardinality(Foreign) + NumPorts <= NumStreams

\* The streams of other services stay; a port with one of their names is on
\* its way out again and never claimed, and only such a port is rolled back.
ForeignSound ==
    /\ \A f \in Foreign : \E s \in StreamSlot : stream[s].id = f /\ stream[s].user = 0
    /\ \A s \in StreamSlot : stream[s].user = 0 => stream[s].id \in Foreign \cup {NoName}
    /\ \A s \in PortSlot : port[s].name \in Foreign =>
          /\ port[s].token = 0
          /\ \E p \in Provider : Registering(p) /\ DriverName[p] = port[s].name
    /\ \A p \in Provider : pc[p] = "reg_rollback" => DriverName[p] \in Foreign
    /\ \A p \in Provider : pc[p] \in {"unreg_stream", "unreg_clear"} => DriverName[p] \notin Foreign

\* What the entry of a port is for the client that has its handle.
Claimed(c, s) ==
    /\ port[s].name = fr[c].drv
    /\ port[s].name \in Name
    /\ port[s].token = fr[c].token
    /\ port[s].token # 0

\* The calls of a client that work on a claim, and those that have none.
ClaimCall == {"claim_open", "claim_rollback", "rel_begin", "rel_close", "rel_clear"}
NoClaimCall == {"open_claim", "open_rollback", "close_drop"}

\* Whoever has a port handle has it alone, and the entry carries its claim.
HoldersSound ==
    /\ \A c \in Client : fr[c].slot # 0 => Claimed(c, fr[c].slot)
    /\ \A c, d \in Client : fr[c].slot # 0 /\ fr[c].slot = fr[d].slot => c = d
    /\ \A c \in Client : pc[c] \in ClaimCall => fr[c].slot # 0
    /\ \A c \in Client : pc[c] \in NoClaimCall => fr[c].slot = 0

\* The driver of an open device is claimed; a claim that has not opened its
\* driver yet, or has closed it, finds it closed.
ClosedCall == {"claim_open", "claim_rollback", "rel_clear"}
DriversSound ==
    /\ \A n \in dev : \E s \in PortSlot : port[s].name = n /\ port[s].token # 0
    /\ \A c \in Client : pc[c] \in ClosedCall => fr[c].drv \notin dev

ClaimInv == EndpointInv /\ ForeignSound /\ HoldersSound /\ DriversSound

\* The streams of other services are there from the start, and nothing else.
LEMMA InitClaimInv == Init => ClaimInv
<1>. SUFFICES ASSUME Init PROVE ClaimInv
  OBVIOUS
<1>. USE PortsAssumption
<1>1. EndpointInv
  BY InitEndpointInv
<1>2. PICK at \in [Foreign -> StreamSlot] :
        /\ \A f, g \in Foreign : at[f] = at[g] => f = g
        /\ stream = [s \in StreamSlot |->
              IF \E f \in Foreign : at[f] = s
              THEN [id |-> CHOOSE f \in Foreign : at[f] = s,
                    user |-> 0, gen |-> 1, active |-> 0]
              ELSE [id |-> NoName, user |-> 0, gen |-> 0, active |-> 0]]
  BY DEF Init
<1>3. ASSUME NEW f \in Foreign
      PROVE  stream[at[f]].id = f /\ stream[at[f]].user = 0 /\ at[f] \in StreamSlot
  <2>1. (CHOOSE g \in Foreign : at[g] = at[f]) = f
    BY <1>2
  <2>. QED  BY <1>2, <2>1
<1>4. \A s \in StreamSlot : stream[s].id \in Foreign \cup {NoName}
  <2>1. ASSUME NEW s \in StreamSlot, NEW f \in Foreign, at[f] = s
        PROVE  (CHOOSE g \in Foreign : at[g] = s) \in Foreign
    BY <2>1
  <2>. QED  BY <1>2, <2>1
<1>5. ForeignSound
  BY <1>3, <1>4 DEF ForeignSound, Init, FreePort
<1>6. HoldersSound /\ DriversSound
  BY DEF HoldersSound, DriversSound, Init, NoFrame, ClaimCall, NoClaimCall, ClosedCall
<1>. QED  BY <1>1, <1>5, <1>6 DEF ClaimInv

\* The first n slots are n.
LEMMA SlotCount ==
    ASSUME NEW n \in Nat \ {0}
    PROVE  /\ IsFiniteSet(1 .. n) /\ Cardinality(1 .. n) = n
           /\ \A s \in 1 .. n : /\ IsFiniteSet((1 .. n) \ {s})
                               /\ Cardinality((1 .. n) \ {s}) = n - 1
<1>. DEFINE S == 1 .. n
<1>1. 1 \in Int /\ n \in Int /\ ~(1 > n) /\ n - 1 + 1 = n
  OBVIOUS
<1>2. IsFiniteSet(S) /\ Cardinality(S) = n
  BY <1>1, FS_Interval
<1>. HIDE DEF S
<1>3. \A s \in S : IsFiniteSet(S \ {s}) /\ Cardinality(S \ {s}) = n - 1
  BY <1>2, FS_RemoveElement
<1>. QED  BY <1>2, <1>3 DEF S

\* A registration under way finds a free stream slot for its endpoint.
LEMMA EndpointRoom ==
    ASSUME EndpointsFit, EndpointInv, ForeignSound, NEW p \in Provider, Registering(p)
    PROVE  \E s \in StreamSlot : stream[s].id = NoName
<1>. USE PortsAssumption DEF EndpointInv
<1>. SUFFICES ASSUME \A s \in StreamSlot : stream[s].id # NoName
              PROVE  FALSE
  OBVIOUS
<1>. DEFINE P == PortSlot \ {fr[p].slot}
            N == {port[r].name : r \in P}
            f == [s \in StreamSlot |-> stream[s].id]
            g == [r \in P |-> port[r].name]
<1>1. fr[p].slot \in PortSlot /\ \A s \in StreamSlot : stream[s].user # fr[p].slot
  BY DEF ProvidersSound, HandleInv, TypeOK, Frame
<1>2. /\ IsFiniteSet(PortSlot) /\ Cardinality(PortSlot) = NumPorts
      /\ IsFiniteSet(StreamSlot) /\ Cardinality(StreamSlot) = NumStreams
  BY SlotCount
<1>3. IsFiniteSet(P) /\ Cardinality(P) = NumPorts - 1
  BY <1>1, SlotCount
<1>4. IsFiniteSet(N) /\ Cardinality(N) <= Cardinality(P)
  <2>1. g \in Surjection(P, N)
    BY DEF Surjection
  <2>. HIDE DEF g, N, P
  <2>. QED  BY <1>3, <2>1, FS_Surjection
<1>5. f \in [StreamSlot -> Foreign \cup N]
  <2>1. ASSUME NEW s \in StreamSlot PROVE stream[s].id \in Foreign \cup N
    <3>1. CASE stream[s].user = 0
      BY <3>1 DEF ForeignSound
    <3>2. CASE stream[s].user # 0
      <4>1. stream[s].user \in P /\ port[stream[s].user].name = stream[s].id
        BY <1>1, <3>2 DEF EndpointsSound, HandleInv, TypeOK, StreamEntry
      <4>. QED  BY <4>1
    <3>. QED  BY <3>1, <3>2
  <2>. QED  BY <2>1
<1>6. IsFiniteSet(Foreign \cup N) /\ Cardinality(Foreign \cup N) < NumStreams
  <2>. HIDE DEF N, P
  <2>1. /\ IsFiniteSet(Foreign \cup N)
        /\ Cardinality(Foreign \cup N)
             = Cardinality(Foreign) + Cardinality(N) - Cardinality(Foreign \cap N)
    BY <1>4, FS_Union
  <2>2. IsFiniteSet(Foreign \cap N)
    BY FS_Intersection
  <2>3. /\ Cardinality(Foreign) \in Nat /\ Cardinality(N) \in Nat
        /\ Cardinality(Foreign \cap N) \in Nat
    BY <1>4, <2>2, FS_CardinalityType
  <2>. QED  BY <1>3, <1>4, <2>1, <2>3 DEF EndpointsFit
<1>7. \A r, s \in StreamSlot : f[r] = f[s] => r = s
  BY DEF HandleInv, StreamsSound
<1>. HIDE DEF f, N
<1>. QED  BY <1>2, <1>5, <1>6, <1>7, FS_PigeonHole

\* Publishing a port and its endpoint keeps the other services' streams.
LEMMA RegisterForeign ==
    ASSUME DriversDistinct, EndpointsFit, ClaimInv, NEW p \in Provider,
           Register(p) \/ RegisterStream(p) \/ RegisterStreamRefused(p)
    PROVE  ForeignSound'
<1>. USE PortsAssumption DEF ClaimInv, EndpointInv
<1>0. TypeOK /\ ProviderStep(p) /\ \A q \in Provider : q # p => fr'[q] = fr[q] /\ pc'[q] = pc[q]
  <2>1. TypeOK /\ ProviderStep(p)
    BY DEF ProviderStep, HandleInv
  <2>. QED  BY <2>1, ProviderAlone
<1>1. CASE Register(p)
  <2>1. PICK s \in PortSlot :
           /\ port[s].name = NoName
           /\ port' = [port EXCEPT ![s] = [name |-> DriverName[p], token |-> 0]]
    BY <1>1 DEF Register, IsFirstFreePort
  <2>2. /\ port'[s].name = DriverName[p] /\ port'[s].token = 0
        /\ \A r \in PortSlot : r # s => port'[r] = port[r]
    BY <1>0, <2>1 DEF TypeOK
  <2>3. pc[p] = "idle" /\ pc'[p] = "reg_stream" /\ UNCHANGED stream
    BY <1>0, <1>1 DEF Register, Goto, TypeOK
  <2>4. ASSUME NEW r \in PortSlot, port'[r].name \in Foreign
        PROVE  /\ port'[r].token = 0
               /\ \E q \in Provider : Registering(q)' /\ DriverName[q] = port'[r].name
    <3>1. CASE r = s
      BY <2>2, <2>3, <3>1 DEF Registering
    <3>2. CASE r # s
      BY <1>0, <2>2, <2>3, <2>4, <3>2 DEF ForeignSound, Registering
    <3>. QED  BY <3>1, <3>2
  <2>. QED  BY <1>0, <2>3, <2>4 DEF ForeignSound
<1>2. CASE RegisterStream(p)
  <2>1. PICK s \in StreamSlot :
           /\ stream[s].id = NoName
           /\ stream' = [stream EXCEPT ![s] =
                [id |-> fr[p].drv, user |-> fr[p].slot, gen |-> stream[s].gen + 1, active |-> 0]]
    BY <1>2 DEF RegisterStream, IsFirstFreeStream
  <2>2. /\ stream'[s].id = DriverName[p] /\ stream'[s].user # 0
        /\ \A r \in StreamSlot : r # s => stream'[r] = stream[r]
    BY <1>0, <1>2, <2>1 DEF RegisterStream, HandleInv, TypeOK, CallsSound, ProvidersSound, Registering
  <2>3. DriverName[p] \notin Foreign
    BY <1>2 DEF RegisterStream, EndpointFits, StreamNamed, ForeignSound, HandleInv, CallsSound
  <2>4. pc[p] = "reg_stream" /\ pc'[p] = "idle" /\ UNCHANGED port
    BY <1>0, <1>2 DEF RegisterStream, Goto, TypeOK
  <2>5. \A f \in Foreign : \E r \in StreamSlot : stream'[r].id = f /\ stream'[r].user = 0
    <3>1. ASSUME NEW f \in Foreign
          PROVE  \E r \in StreamSlot : stream'[r].id = f /\ stream'[r].user = 0
      <4>1. PICK r \in StreamSlot : stream[r].id = f /\ stream[r].user = 0
        BY DEF ForeignSound
      <4>2. f # NoName
        OBVIOUS
      <4>. QED  BY <2>1, <2>2, <4>1, <4>2
    <3>. QED  BY <3>1
  <2>6. \A r \in StreamSlot : stream'[r].user = 0 => stream'[r].id \in Foreign \cup {NoName}
    BY <2>2 DEF ForeignSound
  <2>7. ASSUME NEW r \in PortSlot, port[r].name \in Foreign
        PROVE  /\ port[r].token = 0
               /\ \E q \in Provider : Registering(q)' /\ DriverName[q] = port[r].name
    <3>1. PICK q \in Provider : Registering(q) /\ DriverName[q] = port[r].name
      BY <2>7 DEF ForeignSound
    <3>2. q # p
      BY <2>3, <2>7, <3>1
    <3>3. Registering(q)'
      BY <1>0, <3>1, <3>2 DEF Registering
    <3>. QED  BY <2>7, <3>1, <3>3 DEF ForeignSound
  <2>. QED  BY <1>0, <2>4, <2>5, <2>6, <2>7 DEF ForeignSound
<1>3. CASE RegisterStreamRefused(p)
  <2>1. /\ pc[p] = "reg_stream" /\ pc'[p] = "reg_rollback"
        /\ UNCHANGED <<port, stream>> /\ ~ EndpointFits(fr[p].drv)
    BY <1>0, <1>3 DEF RegisterStreamRefused, Goto, TypeOK
  <2>2. fr[p].drv = DriverName[p] /\ Registering(p)
    BY <2>1 DEF HandleInv, CallsSound, Registering
  <2>3. DriverName[p] \in Foreign
    <3>1. PICK s \in StreamSlot : stream[s].id = DriverName[p]
      BY <2>1, <2>2, EndpointRoom DEF EndpointFits, StreamNamed
    <3>2. CASE stream[s].user = 0
      BY <3>1, <3>2 DEF ForeignSound
    <3>3. CASE stream[s].user # 0
      <4>1. stream[s].user \in PortSlot /\ fr[p].slot \in PortSlot
        BY <1>0, <2>2, <3>3 DEF TypeOK, StreamEntry, Frame, ProvidersSound
      <4>2. port[stream[s].user].name = DriverName[p] /\ port[fr[p].slot].name = DriverName[p]
        BY <2>2, <3>1, <3>3 DEF EndpointsSound, ProvidersSound
      <4>3. DriverName[p] # NoName
        OBVIOUS
      <4>4. stream[s].user = fr[p].slot
        BY <4>1, <4>2, <4>3 DEF PortsSound
      <4>. QED  BY <2>2, <4>4 DEF ProvidersSound
    <3>. QED  BY <3>2, <3>3
  <2>4. \A q \in Provider : Registering(q) => Registering(q)'
    BY <1>0, <2>1 DEF Registering
  <2>5. \A q \in Provider : pc'[q] = "reg_rollback" => DriverName[q] \in Foreign
    BY <1>0, <2>3 DEF ForeignSound
  <2>. QED  BY <1>0, <2>1, <2>4, <2>5 DEF ForeignSound
<1>. QED  BY <1>1, <1>2, <1>3

\* A driver whose port is at rest has not the name of another service's stream.
LEMMA UnregisterForeign ==
    ASSUME DriversDistinct, ClaimInv, NEW p \in Provider,
           Unregister(p) \/ UnregisterStream(p)
    PROVE  ForeignSound'
<1>. USE PortsAssumption DEF ClaimInv, EndpointInv
<1>0. TypeOK /\ ProviderStep(p) /\ \A q \in Provider : q # p => fr'[q] = fr[q] /\ pc'[q] = pc[q]
  <2>1. TypeOK /\ ProviderStep(p)
    BY DEF ProviderStep, HandleInv
  <2>. QED  BY <2>1, ProviderAlone
<1>1. UNCHANGED port /\ ~ Registering(p)
  BY DEF Unregister, UnregisterStream, Registering
<1>2. DriverName[p] \notin Foreign
  <2>1. CASE Unregister(p)
    <3>1. PICK s \in PortSlot : port[s].name = DriverName[p]
      BY <2>1 DEF Unregister, PortNamed
    <3>2. SUFFICES ASSUME DriverName[p] \in Foreign PROVE FALSE
      OBVIOUS
    <3>3. PICK q \in Provider : Registering(q) /\ DriverName[q] = DriverName[p]
      BY <3>1, <3>2 DEF ForeignSound
    <3>. QED  BY <1>1, <3>3 DEF DriversDistinct
  <2>2. CASE UnregisterStream(p)
    BY <2>2 DEF UnregisterStream, ForeignSound
  <2>. QED  BY <2>1, <2>2
<1>3. \A s \in StreamSlot :
         \/ stream'[s] = stream[s]
         \/ stream[s].id = DriverName[p] /\ stream'[s].id = NoName
  BY DEF Unregister, UnregisterStream, StreamNamed, HandleInv, CallsSound
<1>4. pc'[p] \in {"idle", "unreg_stream", "unreg_clear"}
  BY <1>0 DEF Unregister, UnregisterStream, Goto, TypeOK
<1>5. \A q \in Provider : Registering(q) => Registering(q)'
  BY <1>0, <1>1 DEF Registering
<1>6. \A f \in Foreign : \E s \in StreamSlot : stream'[s].id = f /\ stream'[s].user = 0
  <2>1. ASSUME NEW f \in Foreign
        PROVE  \E s \in StreamSlot : stream'[s].id = f /\ stream'[s].user = 0
    <3>1. PICK s \in StreamSlot : stream[s].id = f /\ stream[s].user = 0
      BY DEF ForeignSound
    <3>. QED  BY <1>2, <1>3, <3>1
  <2>. QED  BY <2>1
<1>7. \A s \in StreamSlot : stream'[s].user = 0 => stream'[s].id \in Foreign \cup {NoName}
  BY <1>3 DEF ForeignSound
<1>8. \A s \in PortSlot : port'[s].name \in Foreign =>
         /\ port'[s].token = 0
         /\ \E q \in Provider : Registering(q)' /\ DriverName[q] = port'[s].name
  BY <1>1, <1>5 DEF ForeignSound
<1>9. \A q \in Provider : /\ pc'[q] = "reg_rollback" => DriverName[q] \in Foreign
                          /\ pc'[q] \in {"unreg_stream", "unreg_clear"} => DriverName[q] \notin Foreign
  BY <1>0, <1>2, <1>4 DEF ForeignSound
<1>. QED  BY <1>6, <1>7, <1>8, <1>9 DEF ForeignSound

\* Clearing a port ends the call that had published or found it.
LEMMA ClearForeign ==
    ASSUME DriversDistinct, ClaimInv, NEW p \in Provider,
           RegisterRollback(p) \/ UnregisterClear(p)
    PROVE  ForeignSound'
<1>. USE PortsAssumption DEF ClaimInv, EndpointInv
<1>0. TypeOK /\ ProviderStep(p) /\ \A q \in Provider : q # p => fr'[q] = fr[q] /\ pc'[q] = pc[q]
  <2>1. TypeOK /\ ProviderStep(p)
    BY DEF ProviderStep, HandleInv
  <2>. QED  BY <2>1, ProviderAlone
<1>1. UNCHANGED stream /\ pc'[p] = "idle"
  BY <1>0 DEF RegisterRollback, UnregisterClear, Goto, TypeOK
<1>2. ClearsOwn(p)
  BY ClearingStep
<1>3. ASSUME NEW s \in PortSlot, port'[s].name \in Foreign
      PROVE  /\ port'[s].token = 0
             /\ \E q \in Provider : Registering(q)' /\ DriverName[q] = port'[s].name
  <2>1. port'[s] = port[s]
    BY <1>2, <1>3 DEF ClearsOwn
  <2>2. PICK q \in Provider : Registering(q) /\ DriverName[q] = port[s].name
    BY <1>3, <2>1 DEF ForeignSound
  <2>3. q # p
    <3>1. SUFFICES ASSUME q = p PROVE FALSE
      OBVIOUS
    <3>2. RegisterRollback(p)
      BY <2>2, <3>1 DEF UnregisterClear, Registering
    <3>3. fr[p].slot \in PortSlot /\ port[fr[p].slot].name = DriverName[p]
      BY <1>0, <2>2, <3>1 DEF ProvidersSound, TypeOK, Frame
    <3>4. s = fr[p].slot
      BY <2>2, <3>1, <3>3 DEF PortsSound
    <3>5. port'[s] = FreePort
      BY <1>0, <3>2, <3>3, <3>4 DEF RegisterRollback, TypeOK
    <3>. QED  BY <1>3, <3>5 DEF FreePort
  <2>4. Registering(q)'
    BY <1>0, <2>2, <2>3 DEF Registering
  <2>. QED  BY <1>3, <2>1, <2>2, <2>4 DEF ForeignSound
<1>. QED  BY <1>0, <1>1, <1>3 DEF ForeignSound
-----------------------------------------------------------------------------
\* A provider leaves every claimed entry as it is: what it clears is not
\* claimed, or has a name that nobody can claim.
LEMMA ClaimedUntouched ==
    ASSUME ClaimInv, NEW p \in Provider, ProviderStep(p)
    PROVE  \A s \in PortSlot : port[s].token # 0 => port'[s] = port[s]
<1>. USE PortsAssumption DEF ClaimInv, EndpointInv
<1>. SUFFICES ASSUME NEW s \in PortSlot, port[s].token # 0 PROVE port'[s] = port[s]
  OBVIOUS
<1>0. TypeOK
  BY DEF HandleInv
<1>1. CASE Register(p)
  BY <1>0, <1>1 DEF Register, IsFirstFreePort, PortsSound, TypeOK
<1>2. CASE RegisterRollback(p)
  <2>1. DriverName[p] \in Foreign /\ Registering(p)
    BY <1>2 DEF RegisterRollback, ForeignSound, Registering
  <2>2. fr[p].slot # s
    BY <2>1 DEF ForeignSound, ProvidersSound
  <2>. QED  BY <1>0, <1>2, <2>2 DEF RegisterRollback, TypeOK
<1>3. CASE UnregisterClear(p)
  BY <1>3 DEF UnregisterClear, Clearable
<1>4. CASE RegisterStream(p) \/ RegisterStreamRefused(p) \/ Unregister(p) \/ UnregisterStream(p)
  BY <1>4 DEF RegisterStream, RegisterStreamRefused, Unregister, UnregisterStream
<1>. QED  BY <1>1, <1>2, <1>3, <1>4 DEF ProviderStep

\* So it disturbs no claim and no open driver.
LEMMA ProviderClaims ==
    ASSUME ClaimInv, NEW p \in Provider, ProviderStep(p)
    PROVE  HoldersSound' /\ DriversSound'
<1>. USE DEF ClaimInv, EndpointInv
<1>1. \A s \in PortSlot : port[s].token # 0 => port'[s] = port[s]
  BY ClaimedUntouched
<1>2. \A c \in Client : fr'[c] = fr[c] /\ pc'[c] = pc[c]
  BY ProviderAlone DEF HandleInv
<1>3. dev' = dev
  BY DEF ProviderStep, Register, RegisterStream, RegisterStreamRefused, RegisterRollback,
     Unregister, UnregisterStream, UnregisterClear
<1>4. \A c \in Client : fr[c].slot \in PortSlot \cup {0}
  BY DEF HandleInv, TypeOK, Frame
<1>5. HoldersSound'
  BY <1>1, <1>2, <1>4 DEF HoldersSound, Claimed
<1>6. DriversSound'
  BY <1>1, <1>2, <1>3 DEF DriversSound
<1>. QED  BY <1>5, <1>6

\* A client leaves the other services' names alone as long as it claims none.
LEMMA ClientForeign ==
    ASSUME ClaimInv, NEW c \in Client, ClientStep(c),
           \A s \in PortSlot : port[s].name \in Foreign => port'[s].token = 0
    PROVE  ForeignSound'
<1>. USE PortsAssumption DEF ClaimInv, EndpointInv
<1>1. HandleInv
  OBVIOUS
<1>2. NamesKept
  BY <1>1, ClientNames
<1>3. \A p \in Provider : fr'[p] = fr[p] /\ pc'[p] = pc[p]
  BY ClientAlone DEF HandleInv
<1>. QED  BY <1>2, <1>3 DEF ForeignSound, NamesKept, Registering

\* A step of a client that changes no port and no driver.
LEMMA KeepClaims ==
    ASSUME ClaimInv, NEW c \in Client, ClientStep(c), UNCHANGED <<port, dev>>,
           fr'[c].slot # 0 => /\ fr'[c].slot = fr[c].slot /\ fr'[c].token = fr[c].token
                              /\ fr'[c].drv = fr[c].drv,
           pc'[c] \in ClaimCall => fr'[c].slot # 0,
           pc'[c] \in NoClaimCall => fr'[c].slot = 0,
           pc'[c] \in ClosedCall => fr'[c].drv \notin dev
    PROVE  ForeignSound' /\ HoldersSound' /\ DriversSound'
<1>. USE PortsAssumption DEF ClaimInv, EndpointInv
<1>1. ForeignSound'
  BY ClientForeign DEF ForeignSound
<1>2. \A d \in Client : d # c => fr'[d] = fr[d] /\ pc'[d] = pc[d]
  BY ClientAlone DEF HandleInv
<1>3. HoldersSound'
  BY <1>2 DEF HoldersSound, Claimed
<1>4. DriversSound'
  BY <1>2 DEF DriversSound
<1>. QED  BY <1>1, <1>3, <1>4

\* A step of a client that gives up its claim, its driver being closed.
LEMMA DropClaim ==
    ASSUME ClaimInv, NEW c \in Client, ClientStep(c), UNCHANGED dev,
           fr[c].slot # 0, fr[c].drv \notin dev, port' = Unclaim(fr[c]),
           fr'[c].slot = 0, pc'[c] \notin ClaimCall
    PROVE  ForeignSound' /\ HoldersSound' /\ DriversSound'
<1>. USE PortsAssumption DEF ClaimInv, EndpointInv
<1>. DEFINE r == fr[c].slot
<1>0. TypeOK /\ fr[c] \in Frame /\ r \in PortSlot
  BY DEF HandleInv, TypeOK, Frame
<1>1. Claimed(c, r) /\ SameClaim(fr[c])
  BY DEF HoldersSound, Claimed, SameClaim
<1>2. /\ \A s \in PortSlot : port'[s].name = port[s].name /\ (s # r => port'[s] = port[s])
      /\ port'[r].token = 0
  BY <1>0, <1>1, UnclaimType
<1>3. ForeignSound'
  BY <1>2, ClientForeign DEF ForeignSound
<1>4. \A d \in Client : d # c => /\ fr'[d] = fr[d] /\ pc'[d] = pc[d]
                                /\ fr[d].slot # r /\ fr[d].slot \in PortSlot \cup {0}
  <2>1. \A d \in Client : d # c => fr'[d] = fr[d] /\ pc'[d] = pc[d]
    BY <1>0, ClientAlone
  <2>. QED  BY <1>0, <2>1 DEF HoldersSound, TypeOK, Frame
<1>. HIDE DEF r
<1>5. HoldersSound'
  BY <1>2, <1>4 DEF HoldersSound, Claimed
<1>6. DriversSound'
  <2>1. ASSUME NEW n \in dev
        PROVE  \E s \in PortSlot : port'[s].name = n /\ port'[s].token # 0
    <3>1. PICK s \in PortSlot : port[s].name = n /\ port[s].token # 0
      BY DEF DriversSound
    <3>2. s # r
      BY <1>1, <3>1 DEF Claimed
    <3>. QED  BY <1>2, <3>1, <3>2
  <2>2. pc'[c] \notin ClosedCall
    BY DEF ClosedCall, ClaimCall
  <2>. QED  BY <1>4, <2>1, <2>2 DEF DriversSound
<1>. QED  BY <1>3, <1>5, <1>6

\* A claim finds its driver closed and the entry in nobody's hands.
LEMMA MakeClaim ==
    ASSUME ClaimInv, NEW c \in Client, ClientStep(c), NEW s \in PortSlot,
           port[s].name \in Name \ Foreign, fr[c].slot = 0,
           ClaimEntry(c, s), UNCHANGED dev
    PROVE  ForeignSound' /\ HoldersSound' /\ DriversSound'
<1>. USE PortsAssumption DEF ClaimInv, EndpointInv
<1>0. TypeOK /\ port[s] \in PortEntry /\ nextToken \in Token /\ nextToken # 0 /\ s # 0
  BY DEF HandleInv, TypeOK
<1>1. /\ port[s].token = 0
      /\ port'[s].name = port[s].name /\ port'[s].token = nextToken
      /\ \A r \in PortSlot : r # s => port'[r] = port[r]
  BY <1>0 DEF ClaimEntry, Claimable, TypeOK, PortEntry
<1>2. fr'[c].slot = s /\ fr'[c].token = nextToken /\ fr'[c].drv = port[s].name
  BY <1>0 DEF ClaimEntry, TypeOK, Frame
<1>3. pc'[c] = "claim_open"
  BY <1>0 DEF ClaimEntry, Goto, TypeOK
<1>4. \A d \in Client : d # c => /\ fr'[d] = fr[d] /\ pc'[d] = pc[d]
                                /\ fr[d].slot # s /\ fr[d].slot \in PortSlot \cup {0}
  <2>1. \A d \in Client : d # c => fr'[d] = fr[d] /\ pc'[d] = pc[d]
    BY <1>0, ClientAlone
  <2>2. \A d \in Client : fr[d].slot # s
    BY <1>0, <1>1 DEF HoldersSound, Claimed
  <2>. QED  BY <1>0, <2>1, <2>2 DEF TypeOK, Frame
<1>5. port[s].name \notin dev
  <2>1. SUFFICES ASSUME port[s].name \in dev PROVE FALSE
    OBVIOUS
  <2>2. PICK r \in PortSlot : port[r].name = port[s].name /\ port[r].token # 0
    BY <2>1 DEF DriversSound
  <2>3. r = s
    BY <2>2 DEF PortsSound
  <2>. QED  BY <1>1, <2>2, <2>3
<1>6. ForeignSound'
  BY <1>1, ClientForeign DEF ForeignSound
<1>7. HoldersSound'
  <2>1. Claimed(c, s)'
    BY <1>0, <1>1, <1>2 DEF Claimed
  <2>2. \A d \in Client : fr'[d].slot # 0 => Claimed(d, fr[d].slot)'
    <3>1. ASSUME NEW d \in Client, d # c, fr[d].slot # 0
          PROVE  Claimed(d, fr[d].slot)'
      BY <1>1, <1>4, <3>1 DEF HoldersSound, Claimed
    <3>. QED  BY <1>2, <1>4, <2>1, <3>1
  <2>3. \A d, e \in Client : fr'[d].slot # 0 /\ fr'[d].slot = fr'[e].slot => d = e
    BY <1>2, <1>4 DEF HoldersSound
  <2>4. \A d \in Client : /\ pc'[d] \in ClaimCall => fr'[d].slot # 0
                          /\ pc'[d] \in NoClaimCall => fr'[d].slot = 0
    BY <1>0, <1>2, <1>3, <1>4 DEF HoldersSound, NoClaimCall
  <2>. QED  BY <2>2, <2>3, <2>4 DEF HoldersSound
<1>8. DriversSound'
  <2>1. ASSUME NEW n \in dev
        PROVE  \E r \in PortSlot : port'[r].name = n /\ port'[r].token # 0
    <3>1. PICK r \in PortSlot : port[r].name = n /\ port[r].token # 0
      BY DEF DriversSound
    <3>. QED  BY <1>1, <3>1
  <2>. QED  BY <1>2, <1>4, <1>5, <2>1 DEF DriversSound
<1>. QED  BY <1>6, <1>7, <1>8

\* A driver is opened for the one task that claimed its port.
LEMMA OpenDriver ==
    ASSUME ClaimInv, NEW c \in Client, DriverOpened(c)
    PROVE  ForeignSound' /\ HoldersSound' /\ DriversSound'
<1>. USE PortsAssumption DEF ClaimInv, EndpointInv
<1>0. TypeOK /\ ClientStep(c)
  BY DEF HandleInv, ClientStep
<1>1. /\ pc[c] = "claim_open" /\ pc'[c] = "idle" /\ dev' = dev \cup {fr[c].drv}
      /\ UNCHANGED <<port, fr>>
  BY <1>0 DEF DriverOpened, Goto, TypeOK
<1>2. \A d \in Client : d # c => pc'[d] = pc[d]
  BY <1>0, ClientAlone
<1>3. fr[c].slot \in PortSlot /\ Claimed(c, fr[c].slot)
  BY <1>0, <1>1 DEF HoldersSound, ClaimCall, TypeOK, Frame
<1>4. ForeignSound'
  BY <1>0, <1>1, ClientForeign DEF ForeignSound
<1>5. HoldersSound'
  BY <1>1, <1>2 DEF HoldersSound, Claimed, ClaimCall, NoClaimCall
<1>6. DriversSound'
  <2>1. \A n \in dev' : \E r \in PortSlot : port[r].name = n /\ port[r].token # 0
    BY <1>1, <1>3 DEF DriversSound, Claimed
  <2>2. ASSUME NEW d \in Client, pc'[d] \in ClosedCall
        PROVE  fr[d].drv \notin dev'
    <3>1. d # c /\ pc[d] \in ClosedCall
      BY <1>1, <1>2, <2>2 DEF ClosedCall
    <3>2. fr[d].slot \in PortSlot /\ Claimed(d, fr[d].slot)
      BY <1>0, <3>1 DEF HoldersSound, ClosedCall, ClaimCall, TypeOK, Frame
    <3>3. fr[d].slot # fr[c].slot
      BY <3>1, <3>2 DEF HoldersSound
    <3>4. fr[d].drv # fr[c].drv
      BY <1>3, <3>2, <3>3 DEF PortsSound, Claimed
    <3>. QED  BY <1>1, <3>1, <3>4 DEF DriversSound
  <2>. QED  BY <1>1, <2>1, <2>2 DEF DriversSound
<1>. QED  BY <1>4, <1>5, <1>6

\* A driver that closed is closed until the next claim.
LEMMA CloseDriver ==
    ASSUME ClaimInv, NEW c \in Client, DriverClosed(c)
    PROVE  ForeignSound' /\ HoldersSound' /\ DriversSound'
<1>. USE PortsAssumption DEF ClaimInv, EndpointInv
<1>0. TypeOK /\ ClientStep(c)
  BY DEF HandleInv, ClientStep
<1>1. /\ pc[c] = "rel_close" /\ pc'[c] = "rel_clear" /\ dev' = dev \ {fr[c].drv}
      /\ UNCHANGED <<port, fr>>
  BY <1>0 DEF DriverClosed, Goto, TypeOK
<1>2. \A d \in Client : d # c => pc'[d] = pc[d]
  BY <1>0, ClientAlone
<1>4. ForeignSound'
  BY <1>0, <1>1, ClientForeign DEF ForeignSound
<1>5. HoldersSound'
  BY <1>1, <1>2 DEF HoldersSound, Claimed, ClaimCall, NoClaimCall
<1>6. DriversSound'
  BY <1>1, <1>2 DEF DriversSound
<1>. QED  BY <1>4, <1>5, <1>6

\* A port claimed by name, or for a stream, is not one that is on its way out.
LEMMA ClaimStep ==
    ASSUME EndpointsFit, ClaimInv, NEW c \in Client,
           (\E n \in Known : Claim(c, n)) \/ AdapterClaim(c)
    PROVE  ForeignSound' /\ HoldersSound' /\ DriversSound'
<1>. USE PortsAssumption DEF ClaimInv, EndpointInv
<1>0. TypeOK /\ ClientStep(c) /\ UNCHANGED <<stream, dev>>
  BY DEF HandleInv, ClientStep, Claim, AdapterClaim
<1>1. ASSUME NEW n \in Known, Claim(c, n)
      PROVE  ForeignSound' /\ HoldersSound' /\ DriversSound'
  <2>1. PICK s \in PortSlot : port[s].name = n /\ ClaimEntry(c, s)
    BY <1>1 DEF Claim, PortNamed
  <2>2. port[s].name \in Name \ Foreign /\ fr[c].slot = 0
    BY <1>1, <2>1, NoFrameType DEF EndpointsFit, Claim
  <2>. QED  BY <1>0, <2>1, <2>2, MakeClaim
<1>2. CASE AdapterClaim(c)
  <2>1. fr[c].slot = 0 /\ fr[c].str # 0 /\ pc[c] = "open_claim"
    BY <1>2 DEF AdapterClaim, HoldersSound, NoClaimCall, HandleInv, OpenersSound, StreamCall
  <2>2. ASSUME NEW s \in PortSlot, port[s].name = port[fr[c].user].name,
               port[s].name # NoName, ClaimEntry(c, s)
        PROVE  ForeignSound' /\ HoldersSound' /\ DriversSound'
    <3>1. Opened(c, fr[c].str) /\ fr[c].str \in StreamSlot
      BY <1>0, <2>1 DEF HandleInv, OpenersSound, TypeOK, Frame
    <3>2. port[s].name = stream[fr[c].str].id
      BY <2>2, <3>1 DEF EndpointsSound, Opened
    <3>3. stream[fr[c].str].id \notin Foreign
      <4>1. SUFFICES ASSUME stream[fr[c].str].id \in Foreign PROVE FALSE
        OBVIOUS
      <4>2. PICK t \in StreamSlot : stream[t].id = stream[fr[c].str].id /\ stream[t].user = 0
        BY <4>1 DEF ForeignSound
      <4>3. t = fr[c].str
        BY <3>1, <4>2 DEF HandleInv, StreamsSound, Opened
      <4>. QED  BY <3>1, <4>2, <4>3 DEF Opened
    <3>4. port[s].name \in Name \ Foreign
      BY <3>1, <3>2, <3>3 DEF Opened
    <3>. QED  BY <1>0, <2>1, <2>2, <3>4, MakeClaim
  <2>3. CASE Goto(c, "open_rollback") /\ UNCHANGED <<port, nextToken, fr>>
    <3>1. pc'[c] = "open_rollback"
      BY <1>0, <2>3 DEF Goto, TypeOK
    <3>. QED  BY <1>0, <2>1, <2>3, <3>1, KeepClaims DEF ClaimCall, ClosedCall
  <2>. QED  BY <1>2, <2>2, <2>3 DEF AdapterClaim, PortNamed
<1>. QED  BY <1>1, <1>2

\* The steps of a client that work on its stream handle only.
LEMMA StreamStep ==
    ASSUME ClaimInv, NEW c \in Client,
           (\E n \in KnownStream : StreamOpen(c, n)) \/ OpenRollback(c) \/ CloseDrop(c)
           \/ CloseCall(c) \/ CloseFetch(c) \/ DriverRefused(c)
    PROVE  ForeignSound' /\ HoldersSound' /\ DriversSound'
<1>. USE PortsAssumption DEF ClaimInv, EndpointInv
<1>0. TypeOK /\ ClientStep(c) /\ UNCHANGED <<port, dev>> /\ fr[c] \in Frame
  BY DEF HandleInv, ClientStep, StreamOpen, OpenRollback, CloseDrop, CloseCall, CloseFetch,
     DriverRefused, TypeOK
<1>1. CASE \E n \in KnownStream : StreamOpen(c, n)
  <2>1. fr[c] = NoFrame /\ pc'[c] = "open_claim"
    BY <1>0, <1>1 DEF StreamOpen, Goto, TypeOK
  <2>2. PICK s \in StreamSlot :
           fr' = [fr EXCEPT ![c].str = s, ![c].gen = stream[s].gen, ![c].user = stream[s].user]
    BY <1>1 DEF StreamOpen, StreamNamed
  <2>3. fr'[c].slot = fr[c].slot
    BY <1>0, <2>2 DEF TypeOK, Frame
  <2>. QED  BY <1>0, <2>1, <2>3, NoFrameType, KeepClaims DEF ClaimCall, ClosedCall
<1>2. CASE OpenRollback(c) \/ CloseDrop(c)
  <2>1. fr'[c] = NoFrame /\ pc'[c] = "idle"
    BY <1>0, <1>2 DEF OpenRollback, CloseDrop, Goto, TypeOK
  <2>. QED  BY <1>0, <2>1, NoFrameType, KeepClaims DEF ClaimCall, NoClaimCall, ClosedCall
<1>3. CASE CloseCall(c)
  <2>1. UNCHANGED fr /\ pc'[c] = "close_fetch"
    BY <1>0, <1>3, OpenedSameStream DEF CloseCall, Goto, TypeOK
  <2>. QED  BY <1>0, <2>1, KeepClaims DEF ClaimCall, NoClaimCall, ClosedCall
<1>4. CASE CloseFetch(c)
  <2>1. stream[fr[c].str].id # NoName
    BY <1>4 DEF CloseFetch, HandleInv, OpenersSound, StreamCall, Opened
  <2>2. UNCHANGED fr /\ pc'[c] = "close_check"
    BY <1>0, <1>4, <2>1 DEF CloseFetch, Goto, TypeOK
  <2>. QED  BY <1>0, <2>2, KeepClaims DEF ClaimCall, NoClaimCall, ClosedCall
<1>5. CASE DriverRefused(c)
  <2>1. UNCHANGED fr /\ pc[c] = "claim_open" /\ pc'[c] = "claim_rollback"
    BY <1>0, <1>5 DEF DriverRefused, Goto, TypeOK
  <2>2. fr[c].slot # 0 /\ fr[c].drv \notin dev
    BY <2>1 DEF HoldersSound, DriversSound, ClaimCall, ClosedCall
  <2>. QED  BY <1>0, <2>1, <2>2, KeepClaims DEF NoClaimCall
<1>. QED  BY <1>1, <1>2, <1>3, <1>4, <1>5

\* The steps of a client that give its port handle back or keep it.
LEMMA HandleStep ==
    ASSUME ClaimInv, NEW c \in Client,
           ClaimRollback(c) \/ ReleaseCall(c) \/ CloseCheck(c) \/ ReleaseBegin(c)
           \/ DriverNotClosed(c) \/ ReleaseClear(c)
    PROVE  ForeignSound' /\ HoldersSound' /\ DriversSound'
<1>. USE PortsAssumption DEF ClaimInv, EndpointInv
<1>0. TypeOK /\ ClientStep(c) /\ UNCHANGED dev /\ fr[c] \in Frame
  BY DEF HandleInv, ClientStep, ClaimRollback, ReleaseCall, CloseCheck, ReleaseBegin,
     DriverNotClosed, ReleaseClear, TypeOK
<1>1. Returned(c) => fr'[c].slot = 0 /\ pc'[c] \in {"idle", "close_drop"}
  BY <1>0, NoPortHandleType DEF Returned, Goto, TypeOK
<1>2. CASE ClaimRollback(c) \/ ReleaseClear(c)
  <2>1. /\ port' = Unclaim(fr[c]) /\ fr[c].slot # 0 /\ fr[c].drv \notin dev
    BY <1>2 DEF ClaimRollback, ReleaseClear, HoldersSound, DriversSound, ClaimCall, ClosedCall
  <2>2. fr'[c].slot = 0 /\ pc'[c] \in {"idle", "open_rollback", "close_drop"}
    BY <1>0, <1>1, <1>2, NoPortHandleType DEF ClaimRollback, ReleaseClear, Goto, TypeOK
  <2>. QED  BY <1>0, <2>1, <2>2, DropClaim DEF ClaimCall
<1>3. CASE UNCHANGED port /\ Returned(c)
  BY <1>0, <1>1, <1>3, KeepClaims DEF ClaimCall, ClosedCall
<1>4. CASE ReleaseCall(c) \/ (CloseCheck(c) /\ HandleValid(fr[c]))
  <2>1. /\ UNCHANGED port
        /\ \/ UNCHANGED fr /\ pc'[c] = "rel_begin" /\ fr[c].slot # 0
           \/ fr'[c] = NoFrame /\ pc'[c] = "idle"
    BY <1>0, <1>4 DEF ReleaseCall, CloseCheck, HandleValid, Goto, TypeOK
  <2>. QED  BY <1>0, <2>1, NoFrameType, KeepClaims DEF ClaimCall, NoClaimCall, ClosedCall
<1>5. CASE CloseCheck(c) /\ ~ HandleValid(fr[c])
  <2>1. UNCHANGED port /\ fr'[c].slot = 0 /\ pc'[c] = "close_drop"
    BY <1>0, <1>5, NoPortHandleType DEF CloseCheck, Goto, TypeOK
  <2>. QED  BY <1>0, <2>1, KeepClaims DEF ClaimCall, ClosedCall
<1>6. CASE ReleaseBegin(c) /\ HandleValid(fr[c])
  <2>1. /\ UNCHANGED port /\ pc'[c] = "rel_close" /\ fr[c].slot # 0
        /\ fr' = [fr EXCEPT ![c].drv = port[fr[c].slot].name]
    BY <1>0, <1>6 DEF ReleaseBegin, HandleValid, Goto, TypeOK
  <2>2. port[fr[c].slot].name = fr[c].drv
    BY <2>1 DEF HoldersSound, Claimed
  <2>3. fr'[c].slot = fr[c].slot /\ fr'[c].token = fr[c].token /\ fr'[c].drv = fr[c].drv
    BY <1>0, <2>1, <2>2 DEF TypeOK, Frame
  <2>. QED  BY <1>0, <2>1, <2>3, KeepClaims DEF NoClaimCall, ClosedCall
<1>7. CASE DriverNotClosed(c) /\ ~ Returned(c)
  <2>1. UNCHANGED <<port, fr>> /\ pc'[c] = "idle"
    BY <1>0, <1>7 DEF DriverNotClosed, Goto, TypeOK
  <2>. QED  BY <1>0, <2>1, KeepClaims DEF ClaimCall, NoClaimCall, ClosedCall
<1>8. ReleaseBegin(c) \/ DriverNotClosed(c) => UNCHANGED port
  BY DEF ReleaseBegin, DriverNotClosed
<1>. QED  BY <1>2, <1>3, <1>4, <1>5, <1>6, <1>7, <1>8 DEF ReleaseBegin

\* Every step keeps the claims sound.
LEMMA NextClaimInv ==
    ASSUME DriversDistinct, EndpointsFit, ClaimInv, [Next]_vars
    PROVE  ClaimInv'
<1>1. EndpointInv'
  BY NextEndpointInv DEF ClaimInv
<1>2. ASSUME NEW p \in Provider, ProviderStep(p)
      PROVE  ForeignSound' /\ HoldersSound' /\ DriversSound'
  <2>1. ForeignSound'
    BY <1>2, RegisterForeign, UnregisterForeign, ClearForeign DEF ProviderStep
  <2>. QED  BY <1>2, <2>1, ProviderClaims
<1>3. ASSUME NEW c \in Client, ClientStep(c)
      PROVE  ForeignSound' /\ HoldersSound' /\ DriversSound'
  BY <1>3, ClaimStep, StreamStep, HandleStep, OpenDriver, CloseDriver DEF ClientStep
<1>4. CASE UNCHANGED vars
  <2>1. port' = port /\ stream' = stream /\ dev' = dev /\ pc' = pc /\ fr' = fr
    BY <1>4 DEF vars
  <2>2. ForeignSound'
    BY <2>1 DEF ClaimInv, ForeignSound, Registering
  <2>3. HoldersSound'
    BY <2>1 DEF ClaimInv, HoldersSound, Claimed
  <2>4. DriversSound'
    BY <2>1 DEF ClaimInv, DriversSound
  <2>. QED  BY <1>1, <2>2, <2>3, <2>4 DEF ClaimInv
<1>. QED  BY <1>1, <1>2, <1>3, <1>4 DEF ClaimInv, Next, Rest

\* A claim lasts until its holder ends it: no unregister, no other claim and no
\* registration takes the entry away, however the calls of the tasks interleave.
THEOREM ClaimsAreKept ==
    ASSUME DriversDistinct, EndpointsFit
    PROVE  Spec => []ClaimKept
<1>1. ClaimInv => ClaimKept
  <2>. SUFFICES ASSUME ClaimInv, NEW c \in Client, fr[c].slot # 0
                PROVE  HandleValid(fr[c]) /\ port[fr[c].slot].name = fr[c].drv
    BY DEF ClaimKept, InUse
  <2>1. Claimed(c, fr[c].slot)
    BY DEF ClaimInv, HoldersSound
  <2>. QED  BY <2>1, PortsAssumption DEF Claimed, HandleValid
<1>2. ClaimInv /\ [Next]_vars => ClaimInv'
  BY NextClaimInv
<1>. QED  BY <1>1, <1>2, InitClaimInv, PTL DEF Spec

\* The registry runs a driver's open callback only while the driver is closed.
THEOREM OpenIsCalledOnClosed ==
    ASSUME DriversDistinct, EndpointsFit
    PROVE  Spec => []OpenOnClosed
<1>1. ClaimInv => OpenOnClosed
  BY DEF ClaimInv, DriversSound, ClosedCall, OpenOnClosed
<1>2. ClaimInv /\ [Next]_vars => ClaimInv'
  BY NextClaimInv
<1>. QED  BY <1>1, <1>2, InitClaimInv, PTL DEF Spec

\* And it leaves no driver open behind a port that is gone or unclaimed.
THEOREM OpenDriversAreClaimed ==
    ASSUME DriversDistinct, EndpointsFit
    PROVE  Spec => []OpenMeansClaimed
<1>1. ClaimInv => OpenMeansClaimed
  BY DEF ClaimInv, DriversSound, ClosedCall, OpenMeansClaimed, PortNamed
<1>2. ClaimInv /\ [Next]_vars => ClaimInv'
  BY NextClaimInv
<1>. QED  BY <1>1, <1>2, InitClaimInv, PTL DEF Spec
-----------------------------------------------------------------------------
(***************************************************************************)
(* No claim is left over.  From here on a handle is dropped only with its  *)
(* claim: a driver that may refuse to close has no stream that clients     *)
(* open, as port_stream_close forgets its handle whatever release answered,*)
(* and no client that ignores what release answers.                        *)
(***************************************************************************)
ReleasesLand ==
    \/ SlowClose = {}
    \/ SlowClose \cap KnownStream = {} /\ Careless = {}

\* Somebody holds every claim, and the port of an open stream by its name.
LeakFree ==
    /\ \A s \in PortSlot : port[s].token # 0 => \E c \in Client : fr[c].slot = s
    /\ \A c \in Client : fr[c].str # 0 =>
          /\ stream[fr[c].str].id \in KnownStream
          /\ fr[c].slot # 0 => fr[c].drv = stream[fr[c].str].id

\* A provider takes no claim away and opens no stream.
LEMMA ProviderLeaks ==
    ASSUME ClaimInv, LeakFree, NEW p \in Provider, ProviderStep(p)
    PROVE  LeakFree'
<1>. USE PortsAssumption DEF ClaimInv, EndpointInv
<1>0. TypeOK /\ \A c \in Client : fr'[c] = fr[c]
  BY ProviderAlone DEF HandleInv
<1>1. \A s \in PortSlot : port'[s].token # 0 => port[s].token # 0
  <2>1. CASE Register(p)
    <3>1. PICK r \in PortSlot : port' = [port EXCEPT ![r] = [name |-> DriverName[p], token |-> 0]]
      BY <2>1 DEF Register
    <3>. QED  BY <1>0, <3>1 DEF TypeOK
  <2>2. CASE RegisterRollback(p) \/ UnregisterClear(p)
    BY <2>2, ClearingStep DEF ClearsOwn
  <2>3. CASE RegisterStream(p) \/ RegisterStreamRefused(p) \/ Unregister(p) \/ UnregisterStream(p)
    BY <2>3 DEF RegisterStream, RegisterStreamRefused, Unregister, UnregisterStream
  <2>. QED  BY <2>1, <2>2, <2>3 DEF ProviderStep
<1>2. ASSUME NEW c \in Client, fr[c].str # 0
      PROVE  stream'[fr[c].str].id = stream[fr[c].str].id
  <2>1. fr[c].str \in StreamSlot /\ Opened(c, fr[c].str) /\ Opened(c, fr[c].str)'
    <3>1. HandleInv'
      BY RegisterHandles, TakeBackHandles, RegisterStreamHandles, UnregisterStreamHandles
         DEF ProviderStep
    <3>. QED  BY <1>0, <1>2, <3>1 DEF HandleInv, OpenersSound, TypeOK, Frame
  <2>2. stream[fr[c].str].active = 1 /\ stream[fr[c].str].id # NoName
    BY <2>1 DEF Opened
  <2>3. CASE RegisterStream(p)
    BY <2>1, <2>2, <2>3 DEF RegisterStream, IsFirstFreeStream
  <2>4. CASE UnregisterStream(p)
    BY <2>1, <2>2, <2>4 DEF UnregisterStream, IsClosed
  <2>5. CASE ~ RegisterStream(p) /\ ~ UnregisterStream(p)
    BY <2>5 DEF ProviderStep, Register, RegisterStreamRefused, RegisterRollback, Unregister,
       UnregisterClear
  <2>. QED  BY <2>3, <2>4, <2>5
<1>. QED  BY <1>0, <1>1, <1>2 DEF LeakFree

\* A handle that is kept is valid.
LEMMA ClaimedIsValid ==
    ASSUME ClaimInv, NEW c \in Client, fr[c].slot # 0
    PROVE  HandleValid(fr[c]) /\ Claimed(c, fr[c].slot) /\ fr[c].slot \in PortSlot
<1>1. Claimed(c, fr[c].slot)
  BY DEF ClaimInv, HoldersSound
<1>2. HandleValid(fr[c])
  BY <1>1, PortsAssumption DEF Claimed, HandleValid
<1>3. fr[c].slot \in PortSlot
  BY DEF ClaimInv, EndpointInv, HandleInv, TypeOK, Frame
<1>. QED  BY <1>1, <1>2, <1>3

\* A client that takes and drops claims together with its handle.
LEMMA ClientLeaks ==
    ASSUME ClaimInv, LeakFree, NEW c \in Client, ClientStep(c),
           \A s \in PortSlot : port'[s].token # 0 =>
               \/ fr'[c].slot = s
               \/ port[s].token # 0 /\ fr[c].slot # s,
           fr'[c].str # 0 => /\ fr'[c].str \in StreamSlot
                             /\ stream[fr'[c].str].id \in KnownStream
                             /\ fr'[c].slot # 0 => fr'[c].drv = stream[fr'[c].str].id
    PROVE  LeakFree'
<1>0. HandleInv
  BY DEF ClaimInv, EndpointInv
<1>1. NamesKept
  BY <1>0, ClientNames
<1>2. \A d \in Client : d # c => fr'[d] = fr[d] /\ fr[d].str \in StreamSlot \cup {0}
  <2>1. \A d \in Client : d # c => fr'[d] = fr[d]
    BY <1>0, ClientAlone DEF HandleInv
  <2>. QED  BY <1>0, <2>1 DEF HandleInv, TypeOK, Frame
<1>3. ASSUME NEW s \in PortSlot, port'[s].token # 0
      PROVE  \E d \in Client : fr'[d].slot = s
  <2>1. CASE fr'[c].slot = s
    BY <2>1
  <2>2. CASE port[s].token # 0 /\ fr[c].slot # s
    <3>1. PICK d \in Client : fr[d].slot = s
      BY <2>2 DEF LeakFree
    <3>. QED  BY <1>2, <2>2, <3>1
  <2>. QED  BY <1>3, <2>1, <2>2
<1>4. ASSUME NEW d \in Client, fr'[d].str # 0
      PROVE  /\ stream'[fr'[d].str].id \in KnownStream
             /\ fr'[d].slot # 0 => fr'[d].drv = stream'[fr'[d].str].id
  <2>1. CASE d = c
    BY <1>1, <1>4, <2>1 DEF NamesKept
  <2>2. CASE d # c
    BY <1>1, <1>2, <1>4, <2>2 DEF NamesKept, LeakFree
  <2>. QED  BY <2>1, <2>2
<1>. QED  BY <1>3, <1>4 DEF LeakFree

\* Taking claims.
LEMMA ClaimLeaks ==
    ASSUME ClaimInv, LeakFree, NEW c \in Client,
           \/ \E n \in Known : Claim(c, n)
           \/ \E n \in KnownStream : StreamOpen(c, n)
           \/ AdapterClaim(c)
    PROVE  LeakFree'
<1>. USE PortsAssumption DEF ClaimInv, EndpointInv
<1>0. TypeOK /\ ClientStep(c) /\ fr[c] \in Frame
  BY DEF HandleInv, ClientStep, TypeOK
<1>1. ASSUME NEW s \in PortSlot, ClaimEntry(c, s)
      PROVE  /\ fr'[c].slot = s /\ fr'[c].str = fr[c].str /\ fr'[c].drv = port[s].name
             /\ \A r \in PortSlot : r # s => port'[r] = port[r]
  BY <1>0, <1>1 DEF ClaimEntry, TypeOK, Frame
<1>2. ASSUME NEW n \in Known, Claim(c, n) PROVE LeakFree'
  <2>1. PICK s \in PortSlot : ClaimEntry(c, s)
    BY <1>2 DEF Claim, PortNamed
  <2>2. fr[c].slot = 0 /\ fr[c].str = 0
    BY <1>2, NoFrameType DEF Claim
  <2>. QED  BY <1>0, <1>1, <2>1, <2>2, ClientLeaks
<1>3. ASSUME NEW n \in KnownStream, StreamOpen(c, n) PROVE LeakFree'
  <2>1. PICK s \in StreamSlot :
           /\ stream[s].id = n
           /\ fr' = [fr EXCEPT ![c].str = s, ![c].gen = stream[s].gen, ![c].user = stream[s].user]
    BY <1>3 DEF StreamOpen, StreamNamed
  <2>2. fr[c].slot = 0 /\ UNCHANGED port
    BY <1>3, NoFrameType DEF StreamOpen
  <2>3. fr'[c].slot = 0 /\ fr'[c].str = s
    BY <1>0, <2>1, <2>2 DEF TypeOK, Frame
  <2>4. \A r \in PortSlot : r # 0
    OBVIOUS
  <2>. QED  BY <1>0, <2>1, <2>2, <2>3, <2>4, ClientLeaks
<1>4. CASE AdapterClaim(c)
  <2>1. fr[c].slot = 0 /\ fr[c].str # 0
    BY <1>4 DEF AdapterClaim, HoldersSound, NoClaimCall, HandleInv, OpenersSound, StreamCall
  <2>2. fr[c].str \in StreamSlot /\ stream[fr[c].str].id \in KnownStream
    BY <1>0, <2>1 DEF LeakFree, Frame
  <2>3. ASSUME NEW s \in PortSlot, port[s].name = port[fr[c].user].name, ClaimEntry(c, s)
        PROVE  LeakFree'
    <3>1. Opened(c, fr[c].str)
      BY <2>1 DEF HandleInv, OpenersSound
    <3>2. port[s].name = stream[fr[c].str].id
      BY <2>2, <2>3, <3>1 DEF EndpointsSound, Opened
    <3>3. \A r \in PortSlot : r # 0
      OBVIOUS
    <3>. QED  BY <1>0, <1>1, <2>1, <2>2, <2>3, <3>2, <3>3, ClientLeaks
  <2>4. CASE UNCHANGED <<port, fr>>
    <3>1. \A r \in PortSlot : r # 0
      OBVIOUS
    <3>. QED  BY <1>0, <2>1, <2>2, <2>4, <3>1, ClientLeaks
  <2>. QED  BY <1>4, <2>3, <2>4 DEF AdapterClaim, PortNamed
<1>. QED  BY <1>2, <1>3, <1>4

\* Steps that change neither a port nor the client's handles.
LEMMA QuietLeaks ==
    ASSUME ClaimInv, LeakFree, NEW c \in Client, ClientStep(c), UNCHANGED port,
           fr'[c].str = fr[c].str \/ fr'[c].str = 0,
           fr'[c].slot = fr[c].slot, fr[c].slot # 0 => fr'[c].drv = fr[c].drv
    PROVE  LeakFree'
<1>1. fr[c].str \in StreamSlot \cup {0}
  BY DEF ClaimInv, EndpointInv, HandleInv, TypeOK, Frame
<1>2. ASSUME NEW s \in PortSlot, port'[s].token # 0
      PROVE  fr'[c].slot = s \/ (port[s].token # 0 /\ fr[c].slot # s)
  BY <1>2
<1>3. fr'[c].str # 0 => /\ fr'[c].str \in StreamSlot
                        /\ stream[fr'[c].str].id \in KnownStream
                        /\ fr'[c].slot # 0 => fr'[c].drv = stream[fr'[c].str].id
  BY <1>1 DEF LeakFree
<1>. QED  BY <1>2, <1>3, ClientLeaks

\* Giving claims back.
LEMMA ReleaseLeaks ==
    ASSUME ReleasesLand, ClaimInv, LeakFree, NEW c \in Client,
           ClaimRollback(c) \/ ReleaseClear(c) \/ ReleaseBegin(c) \/ CloseCheck(c)
           \/ ReleaseCall(c) \/ DriverNotClosed(c)
    PROVE  LeakFree'
<1>. USE PortsAssumption DEF ClaimInv, EndpointInv
<1>0. TypeOK /\ ClientStep(c) /\ fr[c] \in Frame
  BY DEF HandleInv, ClientStep, ClaimRollback, ReleaseClear, ReleaseBegin, CloseCheck,
     ReleaseCall, DriverNotClosed, TypeOK
<1>1. CASE ClaimRollback(c) \/ ReleaseClear(c)
  <2>1. /\ port' = Unclaim(fr[c]) /\ fr[c].slot # 0
        /\ fr' = [fr EXCEPT ![c] = NoPortHandle(fr[c])]
    BY <1>0, <1>1 DEF ClaimRollback, ReleaseClear, Returned, HoldersSound, ClaimCall, TypeOK
  <2>2. fr'[c].slot = 0 /\ fr'[c].str = fr[c].str
    BY <1>0, <2>1, NoPortHandleType DEF TypeOK
  <2>3. fr[c].slot \in PortSlot /\ SameClaim(fr[c])
    BY <2>1, ClaimedIsValid DEF HandleValid, SameClaim
  <2>4. ASSUME NEW s \in PortSlot, port'[s].token # 0
        PROVE  port[s].token # 0 /\ fr[c].slot # s
    BY <1>0, <2>1, <2>3, <2>4, UnclaimType
  <2>5. fr'[c].str # 0 => fr'[c].str \in StreamSlot /\ stream[fr'[c].str].id \in KnownStream
    BY <1>0, <2>2 DEF LeakFree, Frame
  <2>. QED  BY <1>0, <2>2, <2>4, <2>5, ClientLeaks
<1>2. CASE ReleaseBegin(c)
  <2>1. fr[c].slot # 0
    BY <1>2 DEF ReleaseBegin, HoldersSound, ClaimCall
  <2>2. HandleValid(fr[c]) /\ port[fr[c].slot].name = fr[c].drv
    BY <2>1, ClaimedIsValid DEF Claimed
  <2>3. UNCHANGED port /\ fr' = [fr EXCEPT ![c].drv = port[fr[c].slot].name]
    BY <1>2, <2>2 DEF ReleaseBegin
  <2>4. fr'[c].slot = fr[c].slot /\ fr'[c].str = fr[c].str /\ fr'[c].drv = fr[c].drv
    BY <1>0, <2>2, <2>3 DEF TypeOK, Frame
  <2>. QED  BY <1>0, <2>3, <2>4, QuietLeaks
<1>3. CASE CloseCheck(c) \/ ReleaseCall(c)
  <2>1. UNCHANGED port
    BY <1>3 DEF CloseCheck, ReleaseCall
  <2>2. UNCHANGED fr \/ (fr[c].slot = 0 /\ fr' = [fr EXCEPT ![c] = NoPortHandle(fr[c])])
    BY <1>3, ClaimedIsValid DEF CloseCheck, ReleaseCall
  <2>3. fr'[c].slot = fr[c].slot /\ fr'[c].str = fr[c].str /\ (fr[c].slot # 0 => fr'[c].drv = fr[c].drv)
    BY <1>0, <2>2, NoPortHandleType DEF TypeOK
  <2>. QED  BY <1>0, <2>1, <2>3, QuietLeaks
<1>4. CASE DriverNotClosed(c)
  <2>1. pc[c] = "rel_close" /\ fr[c].drv \in SlowClose /\ UNCHANGED port
    BY <1>4 DEF DriverNotClosed
  <2>2. fr[c].slot # 0
    BY <2>1 DEF HoldersSound, ClaimCall
  <2>3. SlowClose \cap KnownStream = {} /\ Careless = {}
    BY <2>1 DEF ReleasesLand
  <2>4. fr[c].str = 0
    BY <2>1, <2>2, <2>3 DEF LeakFree
  <2>5. UNCHANGED fr
    BY <1>4, <2>3, <2>4 DEF DriverNotClosed
  <2>. QED  BY <1>0, <2>1, <2>5, QuietLeaks
<1>. QED  BY <1>1, <1>2, <1>3, <1>4

\* What leaves the claims as they are.
LEMMA OtherLeaks ==
    ASSUME ClaimInv, LeakFree, NEW c \in Client,
           DriverOpened(c) \/ DriverRefused(c) \/ DriverClosed(c) \/ CloseFetch(c)
           \/ CloseCall(c) \/ OpenRollback(c) \/ CloseDrop(c)
    PROVE  LeakFree'
<1>. USE PortsAssumption DEF ClaimInv, EndpointInv
<1>0. TypeOK /\ ClientStep(c) /\ UNCHANGED port
  BY DEF HandleInv, ClientStep, DriverOpened, DriverRefused, DriverClosed, CloseFetch, CloseCall,
     OpenRollback, CloseDrop
<1>1. CASE DriverOpened(c) \/ DriverRefused(c) \/ DriverClosed(c) \/ CloseFetch(c)
  BY <1>0, <1>1, QuietLeaks DEF DriverOpened, DriverRefused, DriverClosed, CloseFetch
<1>2. CASE CloseCall(c)
  <2>1. UNCHANGED fr
    BY <1>2, OpenedSameStream DEF CloseCall
  <2>. QED  BY <1>0, <2>1, QuietLeaks
<1>3. CASE OpenRollback(c) \/ CloseDrop(c)
  <2>1. fr[c].slot = 0 /\ fr'[c] = NoFrame
    BY <1>0, <1>3 DEF OpenRollback, CloseDrop, HoldersSound, NoClaimCall, TypeOK
  <2>. QED  BY <1>0, <2>1, NoFrameType, QuietLeaks
<1>. QED  BY <1>1, <1>2, <1>3

\* Nothing is claimed at the start.
LEMMA InitLeakFree == Init => LeakFree
BY DEF Init, LeakFree, FreePort, NoFrame

\* Every step keeps claim and handle together.
LEMMA NextLeakFree ==
    ASSUME ReleasesLand, ClaimInv, LeakFree, [Next]_vars
    PROVE  LeakFree'
<1>1. ASSUME NEW p \in Provider, ProviderStep(p) PROVE LeakFree'
  BY <1>1, ProviderLeaks
<1>2. ASSUME NEW c \in Client, ClientStep(c) PROVE LeakFree'
  BY <1>2, ClaimLeaks, ReleaseLeaks, OtherLeaks DEF ClientStep
<1>3. CASE UNCHANGED vars
  BY <1>3 DEF vars, LeakFree
<1>. QED  BY <1>1, <1>2, <1>3 DEF Next, Rest

\* One task holds a claim, and it alone.
LEMMA OneHolder ==
    ASSUME ClaimInv, LeakFree, NEW s \in PortSlot, port[s].token # 0
    PROVE  Cardinality(Holders(s)) = 1
<1>1. PICK c \in Client : fr[c].slot = s
  BY DEF LeakFree
<1>2. s # 0
  OBVIOUS
<1>3. Holders(s) = {c}
  BY <1>1, <1>2 DEF Holders, ClaimInv, HoldersSound, Claimed
<1>. QED  BY <1>3, FS_Singleton

\* A claimed port has exactly one task that can release it: no claim is lost,
\* whatever fails on the way to it or on the way back.
THEOREM ClaimsAreHeld ==
    ASSUME DriversDistinct, EndpointsFit, ReleasesLand
    PROVE  Spec => []ClaimsHeld
<1>1. ClaimInv /\ LeakFree => ClaimsHeld
  BY OneHolder DEF ClaimsHeld
<1>2. ClaimInv /\ LeakFree /\ [Next]_vars => ClaimInv' /\ LeakFree'
  BY NextClaimInv, NextLeakFree
<1>. QED  BY <1>1, <1>2, InitClaimInv, InitLeakFree, PTL DEF Spec
-----------------------------------------------------------------------------
(***************************************************************************)
(* The registry implements PortClaims.                                     *)
(***************************************************************************)
There == {n \in Name : PortNamed(n) # {}}
Own(n) == IF OwnersOf(n) = {} THEN NoClient ELSE CHOOSE c \in OwnersOf(n) : TRUE

\* The owner of a port is the client that has its handle.
OwnersSound ==
    \A n \in Name : /\ Own(n) \in Client \cup {NoClient}
                    /\ \A c \in Client : Own(n) = c <=> (fr[c].slot # 0 /\ fr[c].drv = n)

\* Names are unique and a client holds one handle: the owner is well defined.
LEMMA SoundOwners == ClaimInv => OwnersSound
<1>. SUFFICES ASSUME ClaimInv, NEW n \in Name
              PROVE  /\ Own(n) \in Client \cup {NoClient}
                     /\ \A c \in Client : Own(n) = c <=> (fr[c].slot # 0 /\ fr[c].drv = n)
  BY DEF OwnersSound
<1>1. OwnersOf(n) = {c \in Client : fr[c].slot # 0 /\ fr[c].drv = n}
  BY ClaimedIsValid DEF OwnersOf, HandleValid
<1>2. ASSUME NEW c \in OwnersOf(n), NEW d \in OwnersOf(n)
      PROVE  c = d
  <2>1. /\ fr[c].slot # 0 /\ fr[d].slot # 0
        /\ fr[c].slot \in PortSlot /\ fr[d].slot \in PortSlot
        /\ port[fr[c].slot].name = n /\ port[fr[d].slot].name = n
    BY <1>1, <1>2, ClaimedIsValid DEF Claimed
  <2>2. n # NoName
    BY PortsAssumption
  <2>3. fr[c].slot = fr[d].slot
    BY <2>1, <2>2 DEF ClaimInv, EndpointInv, PortsSound
  <2>. QED  BY <1>1, <2>1, <2>3 DEF ClaimInv, HoldersSound
<1>3. CASE OwnersOf(n) = {}
  BY <1>1, <1>3, PortsAssumption DEF Own
<1>4. CASE OwnersOf(n) # {}
  <2>1. Own(n) \in OwnersOf(n)
    BY <1>4 DEF Own
  <2>. QED  BY <1>1, <1>2, <2>1
<1>. QED  BY <1>3, <1>4

\* A client has at most one port handle, and changes it only through none.
LEMMA SlotSteps ==
    ASSUME ClaimInv, NEW c \in Client, ClientStep(c)
    PROVE  fr'[c].slot = fr[c].slot \/ fr'[c].slot = 0 \/ fr[c].slot = 0
<1>. USE PortsAssumption DEF ClaimInv, EndpointInv
<1>0. TypeOK /\ fr[c] \in Frame
  BY DEF HandleInv, TypeOK
<1>1. CASE (\E n \in Known : Claim(c, n)) \/ (\E n \in KnownStream : StreamOpen(c, n))
  BY <1>1, NoFrameType DEF Claim, StreamOpen
<1>2. CASE AdapterClaim(c)
  BY <1>2 DEF AdapterClaim, HoldersSound, NoClaimCall
<1>3. CASE ClaimRollback(c) \/ OpenRollback(c) \/ ReleaseClear(c) \/ CloseDrop(c)
  <2>1. fr' = [fr EXCEPT ![c] = NoPortHandle(fr[c])] \/ fr' = [fr EXCEPT ![c] = NoFrame]
    BY <1>3 DEF ClaimRollback, OpenRollback, ReleaseClear, CloseDrop, Returned, TypeOK
  <2>. QED  BY <1>0, <2>1, NoPortHandleType, NoFrameType DEF TypeOK
<1>4. CASE DriverOpened(c) \/ DriverRefused(c) \/ CloseFetch(c) \/ DriverClosed(c)
  BY <1>4 DEF DriverOpened, DriverRefused, CloseFetch, DriverClosed
<1>5. CASE ReleaseCall(c) \/ CloseCall(c) \/ CloseCheck(c) \/ DriverNotClosed(c)
  <2>1. \/ UNCHANGED fr
        \/ fr' = [fr EXCEPT ![c] = NoPortHandle(fr[c])]
        \/ fr' = [fr EXCEPT ![c] = NoFrame]
    BY <1>5 DEF ReleaseCall, CloseCall, CloseCheck, DriverNotClosed, Returned, TypeOK
  <2>. QED  BY <1>0, <2>1, NoPortHandleType, NoFrameType DEF TypeOK
<1>6. CASE ReleaseBegin(c)
  <2>1. \/ fr' = [fr EXCEPT ![c].drv = port[fr[c].slot].name]
        \/ fr' = [fr EXCEPT ![c] = NoPortHandle(fr[c])]
    BY <1>6 DEF ReleaseBegin, Returned, TypeOK
  <2>. QED  BY <1>0, <2>1, NoPortHandleType DEF TypeOK, Frame
<1>. QED  BY <1>1, <1>2, <1>3, <1>4, <1>5, <1>6 DEF ClientStep

Owner == [n \in Name |-> Own(n)]

\* No port is there at the start, and nobody owns one.
LEMMA ClaimsInit == Init => Claims!Init
<1>. SUFFICES ASSUME Init PROVE Claims!Init
  OBVIOUS
<1>1. There = {}
  BY PortsAssumption DEF Init, There, PortNamed, FreePort
<1>2. \A n \in Name : OwnersOf(n) = {}
  BY DEF Init, OwnersOf, HandleValid, NoFrame
<1>. QED  BY <1>1, <1>2 DEF Claims!Init, There

\* A driver publishes its port or takes it back, and then nobody owns it.
LEMMA ProviderMaps ==
    ASSUME ClaimInv, OwnersSound, OwnersSound', NEW p \in Provider, ProviderStep(p)
    PROVE  /\ Owner' = Owner
           /\ \/ There' = There
              \/ \E n \in Name : n \notin There /\ There' = There \cup {n}
              \/ \E n \in There : Own(n) = NoClient /\ There' = There \ {n}
<1>. USE PortsAssumption
<1>0. TypeOK /\ HandleInv /\ EndpointInv
  BY DEF ClaimInv, EndpointInv, HandleInv
<1>1. \A c \in Client : fr'[c] = fr[c]
  BY <1>0, ProviderAlone
<1>2. ASSUME NEW n \in Name PROVE Own(n)' = Own(n)
  BY <1>1 DEF OwnersSound
<1>3. Owner' = Owner
  BY <1>2 DEF Owner
<1>. DEFINE m == DriverName[p]
<1>4. m \in Name
  OBVIOUS
<1>5. CASE Register(p)
  <2>1. PICK s \in PortSlot :
           port[s].name = NoName /\ port' = [port EXCEPT ![s] = [name |-> m, token |-> 0]]
    BY <1>5 DEF Register, IsFirstFreePort
  <2>2. port'[s].name = m /\ \A r \in PortSlot : r # s => port'[r] = port[r]
    BY <1>0, <2>1 DEF TypeOK
  <2>3. m \notin There /\ There' = There \cup {m}
    BY <1>4, <1>5, <2>1, <2>2 DEF There, PortNamed, Register
  <2>. QED  BY <1>3, <1>4, <2>3
<1>6. CASE RegisterRollback(p) \/ UnregisterClear(p)
  <2>1. ClearsOwn(p)
    BY <1>0, <1>6, ClearingStep
  <2>2. \A n \in Name : n # m => (n \in There' <=> n \in There)
    BY <2>1 DEF ClearsOwn, There, PortNamed
  <2>3. m \in There' => m \in There
    BY <2>1 DEF ClearsOwn, There, PortNamed
  <2>4. ASSUME m \in There, m \notin There', Own(m) # NoClient
        PROVE  FALSE
    <3>1. PICK c \in Client : fr[c].slot # 0 /\ fr[c].drv = m
      BY <1>4, <2>4 DEF OwnersSound
    <3>2. Claimed(c, fr[c].slot) /\ fr[c].slot \in PortSlot
      BY <3>1, ClaimedIsValid
    <3>3. port'[fr[c].slot] = port[fr[c].slot]
      BY <3>2, ClaimedUntouched DEF Claimed
    <3>. QED  BY <1>4, <2>4, <3>1, <3>2, <3>3 DEF Claimed, There, PortNamed
  <2>5. There \subseteq Name /\ There' \subseteq Name
    BY DEF There
  <2>6. There' = There \/ (m \in There /\ Own(m) = NoClient /\ There' = There \ {m})
    BY <2>2, <2>3, <2>4, <2>5
  <2>. QED  BY <1>3, <2>6
<1>7. CASE RegisterStream(p) \/ RegisterStreamRefused(p) \/ Unregister(p) \/ UnregisterStream(p)
  <2>1. UNCHANGED port
    BY <1>7 DEF RegisterStream, RegisterStreamRefused, Unregister, UnregisterStream
  <2>2. There' = There
    BY <2>1 DEF There, PortNamed
  <2>. QED  BY <1>3, <2>2
<1>. QED  BY <1>5, <1>6, <1>7 DEF ProviderStep

\* A client takes a port that is there and free, or gives its own back.
LEMMA ClientMaps ==
    ASSUME ClaimInv, ClaimInv', OwnersSound, OwnersSound', NEW c \in Client, ClientStep(c)
    PROVE  /\ There' = There
           /\ \/ Owner' = Owner
              \/ \E n \in There : Own(n) = NoClient /\ Owner' = [Owner EXCEPT ![n] = c]
              \/ \E n \in Name : Own(n) = c /\ Owner' = [Owner EXCEPT ![n] = NoClient]
<1>. USE PortsAssumption
<1>0. TypeOK /\ HandleInv
  BY DEF ClaimInv, EndpointInv, HandleInv
<1>1. \A s \in PortSlot : port'[s].name = port[s].name
  <2>1. NamesKept
    BY <1>0, ClientNames
  <2>. QED  BY <2>1 DEF NamesKept
<1>2. There' = There
  BY <1>1 DEF There, PortNamed
<1>3. \A d \in Client : d # c => fr'[d] = fr[d]
  BY <1>0, ClientAlone
<1>4. fr[c].slot # 0 =>
         fr[c].slot \in PortSlot /\ fr[c].drv \in Name /\ port[fr[c].slot].name = fr[c].drv
  BY ClaimedIsValid DEF Claimed
<1>5. fr'[c].slot # 0 =>
         fr'[c].slot \in PortSlot /\ fr'[c].drv \in Name /\ port'[fr'[c].slot].name = fr'[c].drv
  BY DEF ClaimInv, EndpointInv, HandleInv, TypeOK, HoldersSound, Claimed, Frame
<1>6. CASE fr[c].slot = 0 /\ fr'[c].slot = 0
  <2>1. ASSUME NEW n \in Name PROVE Own(n)' = Own(n)
    BY <1>3, <1>6 DEF OwnersSound
  <2>. QED  BY <1>2, <2>1 DEF Owner
<1>7. CASE fr[c].slot # 0 /\ fr'[c].slot = fr[c].slot
  <2>1. fr'[c].drv = fr[c].drv
    BY <1>1, <1>4, <1>5, <1>7
  <2>2. ASSUME NEW n \in Name PROVE Own(n)' = Own(n)
    BY <1>3, <1>7, <2>1 DEF OwnersSound
  <2>. QED  BY <1>2, <2>2 DEF Owner
<1>8. CASE fr[c].slot = 0 /\ fr'[c].slot # 0
  <2>0. PICK m \in Name : m = fr'[c].drv
    BY <1>5, <1>8
  <2>1. m \in There
    BY <1>2, <1>5, <1>8, <2>0 DEF There, PortNamed
  <2>2. m \in Name /\ Own(m)' = c
    BY <1>8, <2>0 DEF OwnersSound
  <2>3. Own(m) = NoClient
    <3>1. ASSUME NEW d \in Client, Own(m) = d PROVE FALSE
      <4>1. fr[d].slot # 0 /\ fr[d].drv = m
        BY <2>2, <3>1 DEF OwnersSound
      <4>2. d # c
        BY <1>8, <4>1
      <4>3. Own(m)' = d
        BY <1>3, <2>2, <4>1, <4>2 DEF OwnersSound
      <4>. QED  BY <2>2, <4>2, <4>3
    <3>. QED  BY <2>2, <3>1 DEF OwnersSound
  <2>4. ASSUME NEW n \in Name, n # m PROVE Own(n)' = Own(n)
    BY <1>3, <1>8, <2>0, <2>4 DEF OwnersSound
  <2>5. Owner' = [Owner EXCEPT ![m] = c]
    BY <2>2, <2>4 DEF Owner
  <2>. QED  BY <1>2, <2>1, <2>3, <2>5
<1>9. CASE fr[c].slot # 0 /\ fr'[c].slot = 0
  <2>0. PICK m \in Name : m = fr[c].drv
    BY <1>4, <1>9
  <2>1. m \in Name /\ Own(m) = c
    BY <1>9, <2>0 DEF OwnersSound
  <2>2. Own(m)' = NoClient
    <3>1. ASSUME NEW d \in Client, Own(m)' = d PROVE FALSE
      <4>1. fr'[d].slot # 0 /\ fr'[d].drv = m
        BY <2>1, <3>1 DEF OwnersSound
      <4>2. d # c
        BY <1>9, <4>1
      <4>3. Own(m) = d
        BY <1>3, <2>1, <4>1, <4>2 DEF OwnersSound
      <4>. QED  BY <2>1, <4>2, <4>3
    <3>. QED  BY <2>1, <3>1 DEF OwnersSound
  <2>3. ASSUME NEW n \in Name, n # m PROVE Own(n)' = Own(n)
    BY <1>3, <1>9, <2>0, <2>3 DEF OwnersSound
  <2>4. Owner' = [Owner EXCEPT ![m] = NoClient]
    BY <2>1, <2>2, <2>3 DEF Owner
  <2>. QED  BY <1>2, <2>1, <2>4
<1>. QED  BY <1>6, <1>7, <1>8, <1>9, SlotSteps

\* Every section of the registry is a step of the promise or changes nothing in it.
LEMMA StepMaps ==
    ASSUME ClaimInv, ClaimInv', OwnersSound, OwnersSound', [Next]_vars
    PROVE  [Claims!Next]_(Claims!claimVars)
<1>. SUFFICES \/ There' = There /\ Owner' = Owner
              \/ \E n \in Name :
                    \/ n \notin There /\ There' = There \cup {n} /\ Owner' = Owner
                    \/ /\ n \in There /\ Own(n) = NoClient
                       /\ There' = There \ {n} /\ Owner' = Owner
                    \/ \E c \in Client :
                          \/ /\ n \in There /\ Own(n) = NoClient
                             /\ Owner' = [Owner EXCEPT ![n] = c] /\ There' = There
                          \/ /\ Own(n) = c
                             /\ Owner' = [Owner EXCEPT ![n] = NoClient] /\ There' = There
  BY DEF Claims!Next, Claims!Appear, Claims!Vanish, Claims!Acquire, Claims!Release,
         Claims!claimVars, There, Owner, Own
<1>0. There \subseteq Name
  BY DEF There
<1>1. CASE \E p \in Provider : ProviderStep(p)
  BY <1>0, <1>1, ProviderMaps
<1>2. CASE \E c \in Client : ClientStep(c)
  BY <1>0, <1>2, ClientMaps
<1>3. CASE Rest \/ UNCHANGED vars
  <2>1. UNCHANGED <<port, fr>>
    BY <1>3 DEF Rest, vars
  <2>2. There' = There
    BY <2>1 DEF There, PortNamed
  <2>3. \A n \in Name : Own(n)' = Own(n)
    BY <2>1 DEF OwnersSound
  <2>. QED  BY <2>2, <2>3 DEF Owner
<1>. QED  BY <1>1, <1>2, <1>3 DEF Next

\* The registry keeps its promise to its users: a port that is there has one
\* owner at most, changes hands only through being free, and is taken back only
\* while it is free.
THEOREM RegistryImplementsClaims ==
    ASSUME DriversDistinct, EndpointsFit
    PROVE  Spec => ClaimsSpec
<1>1. (ClaimInv => OwnersSound) /\ (ClaimInv => OwnersSound)'
  BY SoundOwners, PTL
<1>2. Init => ClaimInv /\ Claims!Init
  BY InitClaimInv, ClaimsInit
<1>3. ClaimInv /\ [Next]_vars => ClaimInv'
  BY NextClaimInv
<1>4. ClaimInv /\ ClaimInv' /\ OwnersSound /\ OwnersSound' /\ [Next]_vars
        => [Claims!Next]_(Claims!claimVars)
  BY StepMaps
<1>. QED  BY <1>1, <1>2, <1>3, <1>4, PTL DEF Spec, ClaimsSpec, Claims!Spec
=============================================================================
