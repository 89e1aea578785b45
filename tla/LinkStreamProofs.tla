--------------------------- MODULE LinkStreamProofs ---------------------------
(***************************************************************************)
(* Proofs about LinkStream, for any sessions, sequence space and sizes of  *)
(* queues: types, and no byte of an earlier session is left to be read.    *)
(***************************************************************************)
EXTENDS LinkStream, FiniteSetTheorems, TLAPS

AtMostOne(S) == \A x, y \in S : x = y

\* What holds of the stream of an end between two sections.
Sound(s) == /\ s \in Stream
            /\ AtMostOne(s.win) /\ AtMostOne(s.ack)
            /\ s.open => s.local # 0
            /\ s.remote # 0 => s.open

LinkInv == /\ st \in [End -> Stream]
           /\ act \in [End -> Frame \cup {NoFrame}]
           /\ net \in [End -> Seq(Frame)]
           /\ wrote \in [End -> 0..ItemMax] /\ since \in [End -> 0..ItemMax]
           /\ last \in [End -> [item : 0..ItemMax, ses : Session \cup {0}, own : Session \cup {0}]]
           /\ faults \in 0..FaultMax
           /\ \A e \in End : /\ Sound(st[e])
                             /\ st[e].tx <= wrote[e]
                             /\ Len(net[e]) <= NetMax
                             /\ act[e] # NoFrame => Len(net[Peer(e)]) < NetMax
-----------------------------------------------------------------------------
(***************************************************************************)
(* The operators the actions are built from.                               *)
(***************************************************************************)
LEMMA PeerIsEnd == ASSUME NEW e \in End PROVE Peer(e) \in End
<1>1. \E x \in End : x # e
  <2>1. SUFFICES ASSUME End = {e} PROVE FALSE
    OBVIOUS
  <2>2. Cardinality(End) = 1
    BY <2>1, FS_Singleton
  <2>. QED  BY <2>2, LinkStreamAssumption
<1>. QED  BY <1>1 DEF Peer

\* The two ends are each other's peers.
LEMMA PeerUnique == ASSUME NEW e \in End, NEW x \in End, Peer(x) = Peer(e) PROVE x = e
<1>. SUFFICES ASSUME x # e PROVE FALSE
  OBVIOUS
<1>. DEFINE p == Peer(e)
<1>1. p \in End /\ p # e /\ p # x
  <2>1. \E y \in End : y # e
    OBVIOUS
  <2>2. \E y \in End : y # x
    OBVIOUS
  <2>. QED  BY <2>1, <2>2 DEF Peer
<1>. HIDE DEF p
<1>2. IsFiniteSet({e}) /\ Cardinality({e}) = 1
  BY FS_Singleton
<1>3. IsFiniteSet({e} \cup {x}) /\ Cardinality({e} \cup {x}) = 2
  <2>1. Cardinality({e} \cup {x}) = Cardinality({e}) + 1 /\ IsFiniteSet({e} \cup {x})
    BY <1>2, FS_AddElement
  <2>. QED  BY <1>2, <2>1
<1>4. Cardinality(({e} \cup {x}) \cup {p}) = 3
  <2>1. Cardinality(({e} \cup {x}) \cup {p}) = Cardinality({e} \cup {x}) + 1
    BY <1>1, <1>3, FS_AddElement
  <2>. QED  BY <1>3, <2>1
<1>5. Cardinality(({e} \cup {x}) \cup {p}) <= Cardinality(End)
  <2>1. ({e} \cup {x}) \cup {p} \in SUBSET End
    BY <1>1
  <2>. QED  BY <2>1, FS_Subset, LinkStreamAssumption
<1>. QED  BY <1>4, <1>5, LinkStreamAssumption

LEMMA SessionsNonzero ==
    /\ 0 \notin Session
    /\ \A e \in End : NewSessions(e) \subseteq Session
BY LinkStreamAssumption DEF Session, NewSessions

LEMMA NextInSequence ==
    /\ 1 \in Sequence
    /\ \A n \in Sequence : NextSeq(n) \in Sequence /\ PrevSeq(n) \in Sequence
BY LinkStreamAssumption DEF Sequence, NextSeq, PrevSeq

LEMMA CountAtMostOne == ASSUME NEW S, AtMostOne(S) PROVE Cardinality(S) <= 1
<1>1. CASE S = {}
  <2>1. Cardinality(S) = 0
    BY <1>1, FS_EmptySet
  <2>. QED  BY <2>1
<1>2. CASE S # {}
  <2>1. PICK x : S = {x}
    BY <1>2 DEF AtMostOne
  <2>2. Cardinality(S) = 1
    BY <2>1, FS_Singleton
  <2>. QED  BY <2>2
<1>. QED  BY <1>1, <1>2

LEMMA RenewedSound ==
    ASSUME NEW s, s \in Stream, AtMostOne(s.win), AtMostOne(s.ack),
           s.remote # 0 => s.open, NEW ses \in Session
    PROVE  /\ Sound(Renewed(s, ses))
           /\ Renewed(s, ses).tx = s.tx /\ Renewed(s, ses).open = s.open
           /\ Renewed(s, ses).rx = s.rx
<1>1. {[w EXCEPT !.seq = 1, !.sent = FALSE] : w \in s.win} \in SUBSET Slot
  <2>1. ASSUME NEW w \in s.win PROVE [w EXCEPT !.seq = 1, !.sent = FALSE] \in Slot
    <3>1. w \in Slot
      BY DEF Stream
    <3>. QED  BY <3>1, NextInSequence DEF Slot
  <2>. QED  BY <2>1
<1>2. AtMostOne({[w EXCEPT !.seq = 1, !.sent = FALSE] : w \in s.win})
  BY DEF AtMostOne
<1>. QED  BY <1>1, <1>2, NextInSequence, SessionsNonzero DEF Renewed, Stream, Sound

LEMMA AcknowledgedSound ==
    ASSUME NEW s, Sound(s), NEW f \in Frame
    PROVE  /\ Sound(Acknowledged(s, f))
           /\ \A x \in {"tx", "rx", "remote"} : Acknowledged(s, f)[x] = s[x]
BY DEF Acknowledged, Sound, Stream, AtMostOne

LEMMA OpenedSound ==
    ASSUME NEW s, Sound(s), s.open, NEW f \in Frame, NEW ses \in Session
    PROVE  /\ Sound(Opened(s, f, ses))
           /\ Opened(s, f, ses).tx = s.tx
           /\ Opened(s, f, ses).rx = 0 \/ Opened(s, f, ses) = s
<1>1. CASE f.ses = s.remote
  BY <1>1 DEF Opened
<1>2. CASE f.ses # s.remote
  <2>. DEFINE r == IF s.remote # 0 \/ s.had THEN Renewed(s, ses) ELSE s
  <2>1. Sound(r) /\ r.tx = s.tx /\ r.open = s.open
    BY RenewedSound DEF Sound
  <2>2. Opened(s, f, ses) = [r EXCEPT !.remote = f.ses, !.had = TRUE, !.expect = 1,
                                      !.any = FALSE, !.ack = {}, !.rx = 0, !.due = TRUE]
    BY <1>2 DEF Opened
  <2>3. f.ses \in Session
    BY DEF Frame
  <2>. HIDE DEF r
  <2>4. Opened(s, f, ses) \in Stream
    <3>1. r \in Stream /\ 0 \in 0..RxMax /\ {} \in SUBSET Ack
      BY <2>1, LinkStreamAssumption DEF Sound
    <3>. QED  BY <2>2, <2>3, <3>1, NextInSequence DEF Stream
  <2>5. /\ Opened(s, f, ses).tx = r.tx /\ Opened(s, f, ses).rx = 0
        /\ Opened(s, f, ses).win = r.win /\ Opened(s, f, ses).ack = {}
        /\ Opened(s, f, ses).open = r.open /\ Opened(s, f, ses).local = r.local
    BY <2>1, <2>2 DEF Sound, Stream
  <2>. QED  BY <2>1, <2>4, <2>5 DEF Sound, AtMostOne
<1>. QED  BY <1>1, <1>2

\* A section changes one stream.
LEMMA OneStream ==
    ASSUME LinkInv, NEW e \in End, NEW s, Sound(s), st' = [st EXCEPT ![e] = s]
    PROVE  /\ st' \in [End -> Stream]
           /\ st'[e] = s
           /\ \A x \in End : Sound(st'[x]) /\ (x # e => st'[x] = st[x])
BY DEF LinkInv, Sound

\* If it keeps the queue as long as it was or shortens it, the queue still holds
\* only what was written.
LEMMA ShorterQueue ==
    ASSUME LinkInv, NEW e \in End, NEW s, Sound(s), st' = [st EXCEPT ![e] = s],
           s.tx <= st[e].tx \/ s.tx = 0, UNCHANGED wrote
    PROVE  \A x \in End : st'[x].tx <= wrote'[x]
<1>1. s.tx <= wrote[e]
  <2>1. s.tx \in Nat /\ st[e].tx \in Nat /\ wrote[e] \in Nat /\ st[e].tx <= wrote[e]
    BY LinkStreamAssumption DEF LinkInv, Stream, Sound
  <2>. QED  BY <2>1
<1>. QED  BY <1>1, OneStream DEF LinkInv

LEMMA TakeTyped ==
    ASSUME LinkInv, NEW e \in End, Take(e)
    PROVE  /\ Arrived(e) \in Frame
           /\ net' \in [End -> Seq(Frame)]
           /\ \A x \in End : Len(net'[x]) <= Len(net[x]) /\ Len(net'[x]) \in Nat
           /\ UNCHANGED <<act, wrote, since, faults>>
<1>1. net[e] \in Seq(Frame) /\ net[e] # <<>> /\ Len(net[e]) <= NetMax
  BY DEF LinkInv, Take
<1>2. /\ Head(net[e]) \in Frame /\ Tail(net[e]) \in Seq(Frame)
      /\ Len(Tail(net[e])) <= Len(net[e]) /\ Len(Tail(net[e])) \in Nat
  BY <1>1
<1>3. Arrived(e) \in Frame
  BY <1>2 DEF Arrived
<1>4. net \in [End -> Seq(Frame)] /\ \A x \in End : Len(net[x]) \in Nat
  BY DEF LinkInv
<1>5. CASE net' = [net EXCEPT ![e] = Tail(@)]
  <2>1. net' \in [End -> Seq(Frame)]
    BY <1>2, <1>4, <1>5
  <2>2. \A x \in End : net'[x] = IF x = e THEN Tail(net[e]) ELSE net[x]
    BY <1>4, <1>5
  <2>3. \A x \in End : Len(net'[x]) <= Len(net[x]) /\ Len(net'[x]) \in Nat
    <3>1. TAKE x \in End
    <3>2. CASE x = e
      BY <1>2, <2>2, <3>2
    <3>3. CASE x # e
      BY <1>4, <2>2, <3>3
    <3>. QED  BY <3>2, <3>3
  <2>. QED  BY <1>3, <2>1, <2>3 DEF Take
<1>6. CASE UNCHANGED net
  BY <1>3, <1>4, <1>6 DEF Take
<1>. QED  BY <1>5, <1>6 DEF Take

LEMMA TakeBounded ==
    ASSUME LinkInv, NEW e \in End, Take(e)
    PROVE  \A x \in End : /\ Len(net'[x]) <= NetMax
                          /\ act'[x] # NoFrame => Len(net'[Peer(x)]) < NetMax
<1>. TAKE x \in End
<1>1. \A y \in End : Len(net[y]) \in Nat /\ Len(net'[y]) \in Nat /\ Len(net'[y]) <= Len(net[y])
  BY TakeTyped DEF LinkInv
<1>2. NetMax \in Nat /\ Peer(x) \in End
  BY LinkStreamAssumption, PeerIsEnd
<1>3. Len(net[x]) <= NetMax /\ (act[x] # NoFrame => Len(net[Peer(x)]) < NetMax)
  BY DEF LinkInv
<1>4. Len(net'[x]) <= NetMax
  BY <1>1, <1>2, <1>3
<1>5. act'[x] # NoFrame => Len(net'[Peer(x)]) < NetMax
  BY <1>1, <1>2, <1>3 DEF Take
<1>. QED  BY <1>4, <1>5

\* The frame of an action is typed when it is prepared.
LEMMA PrepareTyped ==
    ASSUME LinkInv, NEW e \in End, NEW f \in Frame, Prepare(e, f)
    PROVE  /\ act' \in [End -> Frame \cup {NoFrame}]
           /\ \A x \in End : act'[x] # NoFrame => Len(net'[Peer(x)]) < NetMax
           /\ UNCHANGED <<net, wrote, since, last>>
BY DEF LinkInv, Prepare

LEMMA ControlTyped ==
    ASSUME LinkInv, NEW e \in End, NEW ses \in Session, NEW ack \in SUBSET Ack,
           NEW op \in {"open", "close", "ack"}
    PROVE  Control(op, ses, ack) \in Frame
BY LinkStreamAssumption DEF Control, Frame
-----------------------------------------------------------------------------
(***************************************************************************)
(* What programs do.                                                       *)
(***************************************************************************)
LEMMA OpenTyped == ASSUME LinkInv, NEW e \in End, Open(e) PROVE LinkInv'
<1>. DEFINE c == [st[e] EXCEPT
           !.open = TRUE, !.remote = 0, !.had = FALSE, !.expect = 1, !.any = FALSE,
           !.win = {}, !.tx = 0, !.rx = 0, !.ack = {}, !.close = 0]
<1>1. PICK ses \in NewSessions(e) : st' = [st EXCEPT ![e] = Renewed(c, ses)]
  BY DEF Open
<1>2. ses \in Session
  BY SessionsNonzero
<1>3. c \in Stream /\ AtMostOne(c.win) /\ AtMostOne(c.ack) /\ c.tx = 0 /\ c.remote = 0
  <2>1. st[e] \in Stream /\ 0 \in 0..TxMax /\ 0 \in 0..RxMax
    BY LinkStreamAssumption DEF LinkInv
  <2>. QED  BY <2>1, NextInSequence DEF Stream, AtMostOne
<1>. HIDE DEF c
<1>4. Sound(Renewed(c, ses)) /\ Renewed(c, ses).tx = 0
  BY <1>2, <1>3, RenewedSound
<1>. QED  BY <1>1, <1>4, OneStream, ShorterQueue DEF LinkInv, Open

LEMMA CloseTyped == ASSUME LinkInv, NEW e \in End, Close(e) PROVE LinkInv'
<1>. DEFINE c == [st[e] EXCEPT !.open = FALSE, !.remote = 0, !.close = st[e].local,
                               !.win = {}, !.tx = 0, !.rx = 0, !.ack = {}]
<1>1. st' = [st EXCEPT ![e] = c]
  BY DEF Close, LinkInv, Stream
<1>2. Sound(c) /\ c.tx = 0
  <2>1. st[e] \in Stream /\ 0 \in 0..TxMax /\ 0 \in 0..RxMax
    BY LinkStreamAssumption DEF LinkInv
  <2>. QED  BY <2>1 DEF Stream, Sound, AtMostOne
<1>. HIDE DEF c
<1>3. faults' \in 0..FaultMax
  BY LinkStreamAssumption DEF Close, Fault, LinkInv
<1>. QED  BY <1>1, <1>2, <1>3, OneStream, ShorterQueue DEF LinkInv, Close

LEMMA WriteTyped == ASSUME LinkInv, NEW e \in End, Write(e) PROVE LinkInv'
<1>. DEFINE c == [st[e] EXCEPT !.tx = @ + 1]
<1>1. st' = [st EXCEPT ![e] = c]
  BY DEF Write, LinkInv, Stream
<1>2. Sound(c) /\ c.tx = st[e].tx + 1
  <2>1. Sound(st[e]) /\ st[e].tx + 1 \in 0..TxMax
    BY LinkStreamAssumption DEF LinkInv, Write, Stream
  <2>. QED  BY <2>1 DEF Stream, Sound, AtMostOne
<1>. HIDE DEF c
<1>3. wrote' \in [End -> 0..ItemMax] /\ wrote'[e] = wrote[e] + 1
      /\ \A x \in End : x # e => wrote'[x] = wrote[x]
  BY LinkStreamAssumption DEF Write, LinkInv
<1>4. \A x \in End : st'[x].tx <= wrote'[x]
  <2>1. st[e].tx \in Nat /\ wrote[e] \in Nat /\ st[e].tx <= wrote[e]
    BY LinkStreamAssumption DEF LinkInv, Stream
  <2>. QED  BY <1>1, <1>2, <1>3, <2>1, OneStream DEF LinkInv
<1>. QED  BY <1>1, <1>2, <1>3, <1>4, OneStream DEF LinkInv, Write

LEMMA ReadTyped == ASSUME LinkInv, NEW e \in End, Read(e) PROVE LinkInv'
<1>. DEFINE c == [st[e] EXCEPT !.rx = @ - 1]
<1>1. st' = [st EXCEPT ![e] = c]
  BY DEF Read, LinkInv, Stream
<1>2. Sound(c) /\ c.tx = st[e].tx /\ c.tx \in Int
  <2>1. Sound(st[e]) /\ st[e].rx - 1 \in 0..RxMax
    BY LinkStreamAssumption DEF LinkInv, Read, Stream
  <2>. QED  BY <2>1 DEF Stream, Sound, AtMostOne
<1>. HIDE DEF c
<1>. QED  BY <1>1, <1>2, OneStream, ShorterQueue DEF LinkInv, Read
-----------------------------------------------------------------------------
(***************************************************************************)
(* Sending.                                                                *)
(***************************************************************************)
\* A frame that leaves the stream alone.
LEMMA OnlyPrepared ==
    ASSUME LinkInv, NEW e \in End, NEW f \in Frame, Prepare(e, f), UNCHANGED <<st, faults>>
    PROVE  LinkInv'
BY PrepareTyped DEF LinkInv

LEMMA PrepareControlTyped ==
    ASSUME LinkInv, NEW e \in End, PrepareClose(e) \/ PrepareOpen(e) \/ PrepareAck(e)
    PROVE  LinkInv'
<1>1. st[e].ack \in SUBSET Ack /\ Sound(st[e])
  BY DEF LinkInv, Stream
<1>2. CASE PrepareClose(e)
  <2>1. st[e].close \in Session
    BY <1>2 DEF PrepareClose, LinkInv, Stream
  <2>. QED  BY <1>1, <1>2, <2>1, ControlTyped, OnlyPrepared DEF PrepareClose
<1>3. CASE PrepareOpen(e)
  <2>1. st[e].local \in Session
    BY <1>1, <1>3 DEF PrepareOpen, Stream, Sound
  <2>. QED  BY <1>1, <1>3, <2>1, ControlTyped, OnlyPrepared DEF PrepareOpen
<1>4. CASE PrepareAck(e)
  <2>1. st[e].local \in Session
    BY <1>1, <1>4 DEF PrepareAck, Connected, Stream, Sound
  <2>. QED  BY <1>1, <1>4, <2>1, ControlTyped, OnlyPrepared DEF PrepareAck
<1>. QED  BY <1>2, <1>3, <1>4

\* Forgetting the session of the peer keeps the stream sound.
LEMMA PeerTimeoutTyped == ASSUME LinkInv, NEW e \in End, PeerTimeout(e) PROVE LinkInv'
<1>. DEFINE c == [st[e] EXCEPT !.remote = 0, !.due = TRUE, !.ack = {}]
<1>1. st' = [st EXCEPT ![e] = c]
  BY DEF PeerTimeout, LinkInv, Stream
<1>2. Sound(st[e])
  BY DEF LinkInv
<1>3. Sound(c) /\ c.tx = st[e].tx /\ c.tx \in Int
  <2>1. c \in Stream /\ c.tx = st[e].tx /\ c.win = st[e].win /\ c.ack = {}
        /\ c.open = st[e].open /\ c.local = st[e].local /\ c.remote = 0
    BY <1>2 DEF Sound, Stream
  <2>2. st[e].tx \in Int
    BY <1>2, LinkStreamAssumption DEF Sound, Stream
  <2>. QED  BY <1>2, <2>1, <2>2 DEF Sound, AtMostOne
<1>. HIDE DEF c
<1>4. st[e].local \in Session
  BY DEF PeerTimeout, LinkInv, Stream, Sound
<1>5. /\ act' \in [End -> Frame \cup {NoFrame}]
      /\ \A x \in End : act'[x] # NoFrame => Len(net'[Peer(x)]) < NetMax
      /\ UNCHANGED <<net, wrote, since, last>>
  <2>1. Control("open", st[e].local, {}) \in Frame
    BY <1>4, ControlTyped
  <2>. QED  BY <2>1, PrepareTyped DEF PeerTimeout
<1>6. faults' \in 0..FaultMax
  BY LinkStreamAssumption DEF PeerTimeout, Fault, LinkInv
<1>. QED  BY <1>1, <1>3, <1>5, <1>6, OneStream, ShorterQueue DEF LinkInv

LEMMA SendingTyped == ASSUME LinkInv, NEW e \in End, PrepareData(e) PROVE LinkInv'
<1>1. PICK w \in Window(e) :
        /\ Prepare(e, [op |-> "data", ses |-> st[e].local, seq |-> w.seq,
                       item |-> w.item, ack |-> st[e].ack])
        /\ st' = [st EXCEPT ![e].win = {w},
                            ![e].next = IF st[e].win = {} THEN NextSeq(@) ELSE @,
                            ![e].tx = IF st[e].win = {} THEN @ - 1 ELSE @]
  BY DEF PrepareData
<1>. DEFINE c == [st[e] EXCEPT !.win = {w},
                               !.next = IF st[e].win = {} THEN NextSeq(@) ELSE @,
                               !.tx = IF st[e].win = {} THEN @ - 1 ELSE @]
<1>2. st' = [st EXCEPT ![e] = c]
  BY <1>1 DEF LinkInv, Stream
<1>3. Sound(st[e]) /\ st[e] \in Stream /\ st[e].tx <= wrote[e] /\ wrote[e] \in 0..ItemMax
  BY DEF LinkInv
<1>4. w \in Slot /\ (st[e].win = {} => st[e].tx > 0)
  <2>1. CASE st[e].win = {} /\ st[e].tx > 0
    <3>1. w = [seq |-> st[e].next, item |-> wrote[e] - st[e].tx + 1, sent |-> FALSE]
      BY <2>1 DEF Window
    <3>2. wrote[e] - st[e].tx + 1 \in 1..ItemMax
      BY <1>3, <2>1, LinkStreamAssumption DEF Stream
    <3>. QED  BY <1>3, <2>1, <3>1, <3>2 DEF Slot, Stream
  <2>2. CASE ~(st[e].win = {} /\ st[e].tx > 0)
    <3>1. PICK v \in st[e].win : w = [v EXCEPT !.sent = FALSE]
      BY <2>2 DEF Window
    <3>2. v \in Slot
      BY <1>3 DEF Stream
    <3>. QED  BY <3>1, <3>2 DEF Slot
  <2>. QED  BY <2>1, <2>2
<1>5. Sound(c) /\ c.tx <= st[e].tx
  <2>1. /\ (IF st[e].win = {} THEN st[e].tx - 1 ELSE st[e].tx) \in 0..TxMax
        /\ (IF st[e].win = {} THEN st[e].tx - 1 ELSE st[e].tx) <= st[e].tx
    BY <1>3, <1>4, LinkStreamAssumption DEF Stream
  <2>2. (IF st[e].win = {} THEN NextSeq(st[e].next) ELSE st[e].next) \in Sequence
    BY <1>3, NextInSequence DEF Stream
  <2>3. {w} \in SUBSET Slot
    BY <1>4
  <2>4. c \in Stream /\ c.win = {w} /\ c.ack = st[e].ack /\ c.tx <= st[e].tx
        /\ c.open = st[e].open /\ c.local = st[e].local /\ c.remote = st[e].remote
    BY <1>3, <2>1, <2>2, <2>3 DEF Stream
  <2>. QED  BY <1>3, <2>4 DEF Sound, AtMostOne
<1>. HIDE DEF c
<1>6. [op |-> "data", ses |-> st[e].local, seq |-> w.seq, item |-> w.item, ack |-> st[e].ack]
        \in Frame
  <2>1. st[e].local \in Session
    BY <1>3 DEF PrepareData, Connected, Sound, Stream
  <2>2. w.seq \in 0..SeqMax /\ w.item \in 0..ItemMax
    BY <1>4, LinkStreamAssumption DEF Slot, Sequence
  <2>. QED  BY <1>3, <2>1, <2>2 DEF Frame, Stream
<1>7. /\ act' \in [End -> Frame \cup {NoFrame}]
      /\ \A x \in End : act'[x] # NoFrame => Len(net'[Peer(x)]) < NetMax
      /\ UNCHANGED <<net, wrote, since, last>>
  BY <1>1, <1>6, PrepareTyped
<1>. QED  BY <1>2, <1>5, <1>7, OneStream, ShorterQueue DEF LinkInv, PrepareData

LEMMA SentSound ==
    ASSUME NEW s, Sound(s), NEW f \in Frame
    PROVE  Sound(Sent(s, f)) /\ Sent(s, f).tx = s.tx
<1>. DEFINE k == [s EXCEPT !.ack = IF @ = f.ack THEN {} ELSE @]
            win == {[w EXCEPT !.sent = @ \/ w.seq = f.seq] : w \in s.win}
<1>1. Sound(k) /\ k.tx = s.tx /\ k.win = s.win
  BY DEF Sound, Stream, AtMostOne
<1>2. win \in SUBSET Slot /\ AtMostOne(win)
  <2>1. ASSUME NEW w \in s.win PROVE [w EXCEPT !.sent = @ \/ w.seq = f.seq] \in Slot
    <3>1. w \in Slot
      BY DEF Sound, Stream
    <3>. QED  BY <3>1 DEF Slot
  <2>. QED  BY <2>1 DEF Sound, AtMostOne
<1>3. \/ Sent(s, f) = [k EXCEPT !.close = 0]
      \/ Sent(s, f) = [k EXCEPT !.due = FALSE]
      \/ Sent(s, f) = [k EXCEPT !.win = win]
      \/ Sent(s, f) = k
  <2>1. k.win = s.win
    BY <1>1
  <2>. QED  BY <2>1 DEF Sent, Sound, Stream
<1>. HIDE DEF k, win
<1>. QED  BY <1>1, <1>2, <1>3 DEF Sound, Stream

LEMMA FinishTyped == ASSUME LinkInv, NEW e \in End, Finish(e) PROVE LinkInv'
<1>1. act[e] \in Frame /\ Peer(e) \in End
  BY PeerIsEnd DEF Finish, LinkInv
<1>2. st' = [st EXCEPT ![e] = Sent(st[e], act[e])]
  BY DEF Finish, LinkInv
<1>3. Sound(Sent(st[e], act[e])) /\ Sent(st[e], act[e]).tx = st[e].tx /\ st[e].tx \in Int
  BY <1>1, SentSound, LinkStreamAssumption DEF LinkInv, Stream
<1>4. net' = [net EXCEPT ![Peer(e)] = Append(@, act[e])] /\ act' = [act EXCEPT ![e] = NoFrame]
  BY DEF Finish
<1>5. net' \in [End -> Seq(Frame)] /\ act' \in [End -> Frame \cup {NoFrame}]
  BY <1>1, <1>4 DEF LinkInv
<1>6. \A x \in End : Len(net'[x]) <= NetMax /\ (act'[x] # NoFrame => Len(net'[Peer(x)]) < NetMax)
  <2>1. Len(net[Peer(e)]) < NetMax /\ Len(net[Peer(e)]) \in Nat
    BY <1>1 DEF Finish, LinkInv
  <2>2. Len(net'[Peer(e)]) = Len(net[Peer(e)]) + 1
    BY <1>1, <1>4 DEF LinkInv
  <2>3. \A x \in End : x # Peer(e) => net'[x] = net[x]
    BY <1>4 DEF LinkInv
  <2>4. ASSUME NEW x \in End, act'[x] # NoFrame PROVE Len(net'[Peer(x)]) < NetMax
    <3>1. x # e /\ act'[x] = act[x]
      BY <1>4, <2>4 DEF LinkInv
    <3>2. Peer(x) # Peer(e) /\ Peer(x) \in End
      BY <3>1, PeerUnique, PeerIsEnd
    <3>. QED  BY <2>3, <2>4, <3>1, <3>2 DEF LinkInv
  <2>5. ASSUME NEW x \in End PROVE Len(net'[x]) <= NetMax
    <3>1. CASE x = Peer(e)
      <4>1. NetMax \in Nat
        BY LinkStreamAssumption
      <4>. QED  BY <2>1, <2>2, <3>1, <4>1
    <3>2. CASE x # Peer(e)
      BY <2>3, <3>2 DEF LinkInv
    <3>. QED  BY <3>1, <3>2
  <2>. QED  BY <2>4, <2>5
<1>. QED  BY <1>2, <1>3, <1>5, <1>6, OneStream, ShorterQueue DEF LinkInv, Finish

LEMMA RefusedTyped == ASSUME LinkInv, NEW e \in End, Refused(e) PROVE LinkInv'
BY LinkStreamAssumption DEF Refused, Fault, LinkInv

LEMMA TransportStoppedTyped ==
    ASSUME LinkInv, NEW e \in End, TransportStopped(e) PROVE LinkInv'
<1>. DEFINE win == {[w EXCEPT !.sent = FALSE] : w \in st[e].win}
            c == [st[e] EXCEPT !.remote = 0, !.due = TRUE, !.ack = {}, !.win = win]
<1>1. st' = [st EXCEPT ![e] = c]
  BY DEF TransportStopped, LinkInv, Stream
<1>2. Sound(st[e]) /\ st[e].tx \in Int
  BY LinkStreamAssumption DEF LinkInv, Stream
<1>3. win \in SUBSET Slot /\ AtMostOne(win)
  <2>1. ASSUME NEW w \in st[e].win PROVE [w EXCEPT !.sent = FALSE] \in Slot
    <3>1. w \in Slot
      BY <1>2 DEF Sound, Stream
    <3>. QED  BY <3>1 DEF Slot
  <2>. QED  BY <1>2, <2>1 DEF Sound, AtMostOne
<1>. HIDE DEF win
<1>4. Sound(c) /\ c.tx = st[e].tx
  <2>1. c \in Stream /\ c.tx = st[e].tx /\ c.win = win /\ c.ack = {}
        /\ c.open = st[e].open /\ c.local = st[e].local /\ c.remote = 0
    BY <1>2, <1>3 DEF Sound, Stream
  <2>. QED  BY <1>2, <1>3, <2>1 DEF Sound, AtMostOne
<1>. HIDE DEF c
<1>5. faults' \in 0..FaultMax
  BY LinkStreamAssumption DEF TransportStopped, Fault, LinkInv
<1>. QED  BY <1>1, <1>2, <1>4, <1>5, OneStream, ShorterQueue DEF LinkInv, TransportStopped
-----------------------------------------------------------------------------
(***************************************************************************)
(* Receiving.                                                              *)
(***************************************************************************)
LEMMA LoseTyped == ASSUME LinkInv, NEW e \in End, Lose(e) PROVE LinkInv'
<1>1. Take(e)
  BY DEF Lose, Take
<1>. QED  BY <1>1, TakeTyped, TakeBounded DEF LinkInv, Lose

\* A frame is handled: one stream changes, the last item perhaps with it.
LEMMA Handled ==
    ASSUME LinkInv, NEW e \in End, Take(e), NEW s, Sound(s), s.tx = st[e].tx,
           st' = [st EXCEPT ![e] = s],
           last' \in [End -> [item : 0..ItemMax, ses : Session \cup {0}, own : Session \cup {0}]]
    PROVE  LinkInv'
<1>1. st[e].tx \in Int
  BY LinkStreamAssumption DEF LinkInv, Stream
<1>. QED  BY <1>1, TakeTyped, TakeBounded, OneStream, ShorterQueue DEF LinkInv

LEMMA ReceiveOpenTyped == ASSUME LinkInv, NEW e \in End, ReceiveOpen(e) PROVE LinkInv'
<1>1. PICK ses \in NewSessions(e) :
        st' = [st EXCEPT ![e] = Acknowledged(Opened(st[e], Arrived(e), ses), Arrived(e))]
  BY DEF ReceiveOpen, LinkInv
<1>2. Take(e) /\ Arrived(e) \in Frame /\ Sound(st[e]) /\ st[e].open
  BY TakeTyped DEF ReceiveOpen, LinkInv
<1>. DEFINE o == Opened(st[e], Arrived(e), ses)
<1>3. Sound(o) /\ o.tx = st[e].tx
  BY <1>1, <1>2, OpenedSound, SessionsNonzero
<1>. HIDE DEF o
<1>4. Sound(Acknowledged(o, Arrived(e))) /\ Acknowledged(o, Arrived(e)).tx = st[e].tx
  BY <1>2, <1>3, AcknowledgedSound
<1>5. st' = [st EXCEPT ![e] = Acknowledged(o, Arrived(e))]
  BY <1>1 DEF o
<1>. QED  BY <1>2, <1>4, <1>5, Handled DEF ReceiveOpen, LinkInv

LEMMA AnsweredSound ==
    ASSUME NEW s, Sound(s), NEW f \in Frame
    PROVE  Sound(Answered(s, f)) /\ Answered(s, f).tx = s.tx
<1>. DEFINE c == [s EXCEPT !.ack = {[ses |-> f.ses, seq |-> PrevSeq(s.expect)]}]
<1>1. {[ses |-> f.ses, seq |-> PrevSeq(s.expect)]} \in SUBSET Ack
  BY NextInSequence DEF Sound, Stream, Frame, Ack
<1>2. /\ c \in Stream /\ c.tx = s.tx /\ c.win = s.win /\ c.open = s.open
      /\ c.local = s.local /\ c.remote = s.remote
      /\ c.ack = {[ses |-> f.ses, seq |-> PrevSeq(s.expect)]}
  BY <1>1 DEF Sound, Stream
<1>3. Sound(c)
  BY <1>2 DEF Sound, AtMostOne
<1>. QED  BY <1>2, <1>3 DEF Answered

LEMMA TakenSound ==
    ASSUME NEW s, Sound(s), s.rx < RxMax, NEW f \in Frame
    PROVE  Sound(Taken(s, f)) /\ Taken(s, f).tx = s.tx
<1>. DEFINE c == [s EXCEPT !.rx = s.rx + 1, !.expect = NextSeq(s.expect), !.any = TRUE]
<1>1. s.rx + 1 \in 0..RxMax /\ NextSeq(s.expect) \in Sequence
  BY NextInSequence, LinkStreamAssumption DEF Sound, Stream
<1>2. /\ c \in Stream /\ c.tx = s.tx /\ c.win = s.win /\ c.open = s.open
      /\ c.local = s.local /\ c.remote = s.remote /\ c.ack = s.ack
  BY <1>1 DEF Sound, Stream
<1>3. Sound(c)
  BY <1>2 DEF Sound
<1>4. Taken(s, f) = Answered(c, f)
  BY DEF Taken
<1>. HIDE DEF c
<1>. QED  BY <1>2, <1>3, <1>4, AnsweredSound

LEMMA ReceiveDataTyped == ASSUME LinkInv, NEW e \in End, ReceiveData(e) PROVE LinkInv'
<1>. DEFINE f == Arrived(e)
<1>1. /\ Take(e) /\ f \in Frame /\ Sound(st[e]) /\ st[e] \in Stream
      /\ last[e] \in [item : 0..ItemMax, ses : Session \cup {0}, own : Session \cup {0}]
  BY TakeTyped DEF ReceiveData, FromPeer, LinkInv
<1>2. CASE st[e].rx < RxMax
  <2>1. st' = [st EXCEPT ![e] = Acknowledged(Taken(st[e], f), f)]
    BY <1>2 DEF ReceiveData, LinkInv
  <2>2. last' \in [End -> [item : 0..ItemMax, ses : Session \cup {0}, own : Session \cup {0}]]
    <3>1. f.item \in 0..ItemMax /\ f.ses \in Session
      BY <1>1 DEF Frame
    <3>2. st[e].local \in Session \cup {0}
      BY <1>1 DEF Stream
    <3>3. last' = [last EXCEPT ![e] = [item |-> f.item, ses |-> f.ses, own |-> st[e].local]]
      BY <1>2 DEF ReceiveData
    <3>. QED  BY <3>1, <3>2, <3>3 DEF LinkInv
  <2>. HIDE DEF f
  <2>3. Sound(Taken(st[e], f)) /\ Taken(st[e], f).tx = st[e].tx
    BY <1>1, <1>2, TakenSound
  <2>4. Sound(Acknowledged(Taken(st[e], f), f)) /\ Acknowledged(Taken(st[e], f), f).tx = st[e].tx
    BY <1>1, <2>3, AcknowledgedSound
  <2>. QED  BY <1>1, <2>1, <2>2, <2>4, Handled
<1>3. CASE ~(st[e].rx < RxMax)
  <2>1. st' = [st EXCEPT ![e] = Acknowledged(st[e], f)] /\ last' = last
    BY <1>3 DEF ReceiveData, LinkInv
  <2>2. Sound(Acknowledged(st[e], f)) /\ Acknowledged(st[e], f).tx = st[e].tx
    BY <1>1, AcknowledgedSound
  <2>. QED  BY <1>1, <2>1, <2>2, Handled DEF LinkInv
<1>. QED  BY <1>2, <1>3

LEMMA ReceiveOtherTyped == ASSUME LinkInv, NEW e \in End, ReceiveOther(e) PROVE LinkInv'
<1>. DEFINE f == Arrived(e)
<1>1. Take(e) /\ f \in Frame /\ Sound(st[e]) /\ last' = last
  BY TakeTyped DEF ReceiveOther, FromPeer, LinkInv
<1>2. st' = [st EXCEPT ![e] = Acknowledged(Answered(st[e], f), f)]
  BY DEF ReceiveOther, LinkInv
<1>. HIDE DEF f
<1>3. Sound(Answered(st[e], f)) /\ Answered(st[e], f).tx = st[e].tx
  BY <1>1, AnsweredSound
<1>4. Sound(Acknowledged(Answered(st[e], f), f)) /\ Acknowledged(Answered(st[e], f), f).tx = st[e].tx
  BY <1>1, <1>3, AcknowledgedSound
<1>. QED  BY <1>1, <1>2, <1>4, Handled DEF LinkInv

LEMMA ReceiveAckTyped == ASSUME LinkInv, NEW e \in End, ReceiveAck(e) PROVE LinkInv'
<1>1. Take(e) /\ Arrived(e) \in Frame /\ Sound(st[e]) /\ last' = last
  BY TakeTyped DEF ReceiveAck, FromPeer, LinkInv
<1>2. st' = [st EXCEPT ![e] = Acknowledged(st[e], Arrived(e))]
  BY DEF ReceiveAck, LinkInv
<1>. QED  BY <1>1, <1>2, AcknowledgedSound, Handled DEF LinkInv

LEMMA ReceiveCloseTyped == ASSUME LinkInv, NEW e \in End, ReceiveClose(e) PROVE LinkInv'
<1>. DEFINE k == Acknowledged(st[e], Arrived(e))
            c == [k EXCEPT !.remote = 0, !.ack = {}, !.rx = 0, !.due = TRUE]
<1>1. Take(e) /\ Arrived(e) \in Frame /\ Sound(st[e]) /\ last' = last
  BY TakeTyped DEF ReceiveClose, FromPeer, LinkInv
<1>2. st' = [st EXCEPT ![e] = c]
  BY DEF ReceiveClose, LinkInv
<1>3. Sound(k) /\ k.tx = st[e].tx
  BY <1>1, AcknowledgedSound
<1>. HIDE DEF k
<1>4. Sound(c) /\ c.tx = st[e].tx
  <2>1. 0 \in 0..RxMax
    BY LinkStreamAssumption
  <2>2. /\ c \in Stream /\ c.tx = k.tx /\ c.win = k.win /\ c.open = k.open
        /\ c.local = k.local /\ c.remote = 0 /\ c.ack = {}
    BY <1>3, <2>1 DEF Sound, Stream
  <2>. QED  BY <1>3, <2>2 DEF Sound, AtMostOne
<1>. HIDE DEF c
<1>. QED  BY <1>1, <1>2, <1>4, Handled DEF LinkInv

LEMMA ReceiveDroppedTyped == ASSUME LinkInv, NEW e \in End, ReceiveDropped(e) PROVE LinkInv'
<1>1. Take(e) /\ UNCHANGED <<st, last>>
  BY DEF ReceiveDropped
<1>. QED  BY <1>1, TakeTyped, TakeBounded DEF LinkInv
-----------------------------------------------------------------------------
LEMMA InitTyped == Init => LinkInv
<1>. SUFFICES ASSUME Init PROVE LinkInv
  OBVIOUS
<1>1. 0 \in 0..TxMax /\ 0 \in 0..RxMax /\ 0 \in 0..ItemMax /\ 0 \in 0..FaultMax /\ NetMax \in Nat /\ 0 <= NetMax
  BY LinkStreamAssumption
<1>2. \A e \in End : Sound(st[e]) /\ st[e].tx = 0
  BY <1>1, NextInSequence DEF Init, Sound, Stream, AtMostOne
<1>3. st \in [End -> Stream]
  BY <1>2 DEF Init, Sound
<1>4. /\ net \in [End -> Seq(Frame)]
      /\ \A e \in End : Len(net[e]) = 0 /\ act[e] = NoFrame /\ wrote[e] = 0
  BY DEF Init
<1>. QED  BY <1>1, <1>2, <1>3, <1>4 DEF Init, LinkInv

LEMMA NextTyped == LinkInv /\ [Next]_linkVars => LinkInv'
<1>. SUFFICES ASSUME LinkInv, [Next]_linkVars PROVE LinkInv'
  OBVIOUS
<1>1. CASE UNCHANGED linkVars
  BY <1>1 DEF linkVars, LinkInv
<1>2. ASSUME NEW e \in End,
             \/ Open(e) \/ Close(e) \/ Write(e) \/ Read(e)
             \/ PrepareClose(e) \/ PrepareOpen(e) \/ PeerTimeout(e)
             \/ PrepareData(e) \/ PrepareAck(e) \/ Finish(e) \/ Refused(e) \/ TransportStopped(e)
             \/ Receive(e) \/ Lose(e)
      PROVE  LinkInv'
  <2>1. CASE Open(e) \/ Close(e) \/ Write(e) \/ Read(e)
    BY <2>1, OpenTyped, CloseTyped, WriteTyped, ReadTyped
  <2>2. CASE PrepareClose(e) \/ PrepareOpen(e) \/ PrepareAck(e) \/ PeerTimeout(e) \/ PrepareData(e)
    BY <2>2, PrepareControlTyped, PeerTimeoutTyped, SendingTyped
  <2>3. CASE Finish(e) \/ Refused(e) \/ TransportStopped(e)
    BY <2>3, FinishTyped, RefusedTyped, TransportStoppedTyped
  <2>4. CASE Receive(e)
    BY <2>4, ReceiveOpenTyped, ReceiveDataTyped, ReceiveOtherTyped, ReceiveAckTyped,
       ReceiveCloseTyped, ReceiveDroppedTyped DEF Receive
  <2>5. CASE Lose(e)
    BY <2>5, LoseTyped
  <2>. QED  BY <1>2, <2>1, <2>2, <2>3, <2>4, <2>5
<1>. QED  BY <1>1, <1>2 DEF Next

LEMMA LinkInvTypeOK == LinkInv => TypeOK
BY CountAtMostOne DEF LinkInv, Sound, TypeOK

\* Type correctness, for any ends, sessions, sequence space and queues: the
\* window and the pending acknowledgement never hold more than one element, and no
\* more frames are under way than the link has room for.
THEOREM TypeCorrect == Spec => []TypeOK
<1>1. Spec => []LinkInv
  BY InitTyped, NextTyped, PTL DEF Spec
<1>. QED  BY <1>1, LinkInvTypeOK, PTL
-----------------------------------------------------------------------------
(***************************************************************************)
(* What can be read.                                                       *)
(***************************************************************************)
\* What an end may read is of the session it has of its peer.
Fresh(s, l) == s.rx > 0 => s.remote \in {0, l.ses}

LEMMA ReceivedFresh ==
    ASSUME LinkInv, NEW e \in End, Fresh(st[e], last[e]), Receive(e)
    PROVE  Fresh(st'[e], last'[e])
<1>1. /\ Sound(st[e]) /\ e \in DOMAIN st /\ e \in DOMAIN last
      /\ Arrived(e) \in Frame
  BY TakeTyped DEF LinkInv, Receive, ReceiveOpen, ReceiveData, ReceiveOther, ReceiveAck,
                   ReceiveClose, ReceiveDropped, FromPeer
<1>2. CASE ReceiveOpen(e)
  <2>1. PICK ses \in NewSessions(e) :
          st'[e] = Acknowledged(Opened(st[e], Arrived(e), ses), Arrived(e))
    BY <1>1, <1>2 DEF ReceiveOpen
  <2>. DEFINE o == Opened(st[e], Arrived(e), ses)
  <2>2. Sound(o) /\ (o.rx = 0 \/ o = st[e])
    BY <1>1, <1>2, OpenedSound, SessionsNonzero DEF ReceiveOpen
  <2>. HIDE DEF o
  <2>3. st'[e].rx = o.rx /\ st'[e].remote = o.remote
    BY <1>1, <2>1, <2>2, AcknowledgedSound DEF o
  <2>. QED  BY <1>2, <2>2, <2>3 DEF Fresh, ReceiveOpen
<1>3. CASE ReceiveData(e) \/ ReceiveOther(e) \/ ReceiveAck(e)
  <2>1. /\ st'[e].remote = st[e].remote
        /\ \/ st'[e].rx = st[e].rx /\ last'[e] = last[e]
           \/ last'[e].ses = st[e].remote
    <3>1. CASE ReceiveData(e)
      <4>1. CASE st[e].rx < RxMax
        <5>1. Sound(Taken(st[e], Arrived(e)))
          BY <1>1, <4>1, TakenSound
        <5>2. Taken(st[e], Arrived(e)).remote = st[e].remote
          BY <1>1 DEF Taken, Answered, Sound, Stream
        <5>3. st'[e] = Acknowledged(Taken(st[e], Arrived(e)), Arrived(e))
              /\ last'[e].ses = st[e].remote
          BY <1>1, <3>1, <4>1 DEF ReceiveData, FromPeer
        <5>. QED  BY <1>1, <5>1, <5>2, <5>3, AcknowledgedSound
      <4>2. CASE ~(st[e].rx < RxMax)
        <5>1. st'[e] = Acknowledged(st[e], Arrived(e)) /\ last' = last
          BY <1>1, <3>1, <4>2 DEF ReceiveData
        <5>. QED  BY <1>1, <5>1, AcknowledgedSound
      <4>. QED  BY <4>1, <4>2
    <3>2. CASE ReceiveOther(e)
      <4>1. Sound(Answered(st[e], Arrived(e)))
        BY <1>1, AnsweredSound
      <4>2. /\ Answered(st[e], Arrived(e)).remote = st[e].remote
            /\ Answered(st[e], Arrived(e)).rx = st[e].rx
        BY <1>1 DEF Answered, Sound, Stream
      <4>3. st'[e] = Acknowledged(Answered(st[e], Arrived(e)), Arrived(e)) /\ last' = last
        BY <1>1, <3>2 DEF ReceiveOther
      <4>. QED  BY <1>1, <4>1, <4>2, <4>3, AcknowledgedSound
    <3>3. CASE ReceiveAck(e)
      <4>1. st'[e] = Acknowledged(st[e], Arrived(e)) /\ last' = last
        BY <1>1, <3>3 DEF ReceiveAck
      <4>. QED  BY <1>1, <4>1, AcknowledgedSound
    <3>. QED  BY <1>3, <3>1, <3>2, <3>3
  <2>. QED  BY <2>1 DEF Fresh
<1>4. CASE ReceiveClose(e)
  <2>. DEFINE k == Acknowledged(st[e], Arrived(e))
  <2>1. k \in Stream
    BY <1>1, AcknowledgedSound DEF Sound
  <2>2. st'[e] = [k EXCEPT !.remote = 0, !.ack = {}, !.rx = 0, !.due = TRUE]
    BY <1>1, <1>4 DEF ReceiveClose
  <2>. HIDE DEF k
  <2>. QED  BY <2>1, <2>2 DEF Fresh, Stream
<1>5. CASE ReceiveDropped(e)
  BY <1>5 DEF ReceiveDropped, Fresh
<1>. QED  BY <1>2, <1>3, <1>4, <1>5 DEF Receive

LEMMA SentKeeps ==
    ASSUME NEW s, Sound(s), NEW f \in Frame
    PROVE  Sent(s, f).rx = s.rx /\ Sent(s, f).remote = s.remote
BY DEF Sent, Sound, Stream

\* Every other step clears what can be read, shortens it or leaves it, and at most
\* forgets the session of the peer.
LEMMA OtherFresh ==
    ASSUME LinkInv, NEW e \in End, Fresh(st[e], last[e]),
           \/ Open(e) \/ Close(e) \/ Write(e) \/ Read(e)
           \/ PrepareClose(e) \/ PrepareOpen(e) \/ PeerTimeout(e)
           \/ PrepareData(e) \/ PrepareAck(e) \/ Finish(e) \/ Refused(e) \/ TransportStopped(e)
           \/ Lose(e)
    PROVE  Fresh(st'[e], last'[e]) /\ last' = last
<1>1. Sound(st[e]) /\ st[e] \in Stream /\ e \in DOMAIN st
  BY DEF LinkInv
<1>2. CASE Open(e)
  <2>. DEFINE c == [st[e] EXCEPT
             !.open = TRUE, !.remote = 0, !.had = FALSE, !.expect = 1, !.any = FALSE,
             !.win = {}, !.tx = 0, !.rx = 0, !.ack = {}, !.close = 0]
  <2>1. PICK ses \in NewSessions(e) : st' = [st EXCEPT ![e] = Renewed(c, ses)]
    BY <1>2 DEF Open
  <2>2. c.rx = 0
    BY <1>1 DEF Stream
  <2>3. Renewed(c, ses).rx = c.rx
    BY <1>1 DEF Renewed, Stream
  <2>. HIDE DEF c
  <2>4. st'[e].rx = 0 /\ last' = last
    BY <1>1, <1>2, <2>1, <2>2, <2>3 DEF Open
  <2>. QED  BY <2>4 DEF Fresh
<1>3. CASE Close(e) \/ TransportStopped(e) \/ PeerTimeout(e)
  <2>1. CASE Close(e)
    BY <1>1, <2>1 DEF Close, Stream, Fresh
  <2>2. CASE TransportStopped(e)
    BY <1>1, <2>2 DEF TransportStopped, Stream, Fresh
  <2>3. CASE PeerTimeout(e)
    BY <1>1, <2>3 DEF PeerTimeout, Prepare, Stream, Fresh
  <2>. QED  BY <1>3, <2>1, <2>2, <2>3
<1>4. CASE Read(e)
  <2>1. st'[e].remote = st[e].remote /\ st[e].rx > 0 /\ last' = last
    BY <1>1, <1>4 DEF Read, LinkInv, Stream
  <2>. QED  BY <2>1 DEF Fresh
<1>5. CASE Write(e) \/ PrepareData(e)
  <2>1. CASE Write(e)
    BY <1>1, <2>1 DEF Write, Stream, Fresh
  <2>2. CASE PrepareData(e)
    <3>1. PICK w \in Window(e) :
            st' = [st EXCEPT ![e].win = {w},
                             ![e].next = IF st[e].win = {} THEN NextSeq(@) ELSE @,
                             ![e].tx = IF st[e].win = {} THEN @ - 1 ELSE @]
      BY <2>2 DEF PrepareData
    <3>2. st'[e].remote = st[e].remote /\ st'[e].rx = st[e].rx
      BY <1>1, <3>1 DEF Stream
    <3>3. last' = last
      BY <2>2 DEF PrepareData, Prepare
    <3>. QED  BY <3>2, <3>3 DEF Fresh
  <2>. QED  BY <1>5, <2>1, <2>2
<1>6. CASE Finish(e)
  <2>1. act[e] \in Frame /\ st'[e] = Sent(st[e], act[e]) /\ last' = last
    BY <1>1, <1>6 DEF Finish, LinkInv
  <2>. QED  BY <1>1, <2>1, SentKeeps DEF Fresh
<1>7. CASE PrepareClose(e) \/ PrepareOpen(e) \/ PrepareAck(e) \/ Refused(e) \/ Lose(e)
  BY <1>7 DEF PrepareClose, PrepareOpen, PrepareAck, Prepare, Refused, Lose, Fresh
<1>. QED  BY <1>2, <1>3, <1>4, <1>5, <1>6, <1>7

\* A step of one end leaves what the other can read alone.
LEMMA OneEnd ==
    ASSUME LinkInv, NEW e \in End,
           \/ Open(e) \/ Close(e) \/ Write(e) \/ Read(e)
           \/ PrepareClose(e) \/ PrepareOpen(e) \/ PeerTimeout(e)
           \/ PrepareData(e) \/ PrepareAck(e) \/ Finish(e) \/ Refused(e) \/ TransportStopped(e)
           \/ Receive(e) \/ Lose(e)
    PROVE  \A x \in End : x # e => st'[x] = st[x] /\ last'[x] = last[x]
BY DEF LinkInv, Open, Close, Write, Read, PrepareClose, PrepareOpen, PeerTimeout, PrepareData,
       PrepareAck, Prepare, Finish, Refused, TransportStopped, Receive, Lose, ReceiveOpen,
       ReceiveData, ReceiveOther, ReceiveAck, ReceiveClose, ReceiveDropped

\* "without reusing stale bytes" (link.md): whatever is lost or repeated and whenever
\* an end reopens, times out or restarts, what can be read is of the session the end
\* has of its peer.
THEOREM StaleBytesGone == Spec => []NoStaleBytes
<1>1. Init => NoStaleBytes
  BY DEF Init, NoStaleBytes
<1>2. LinkInv /\ NoStaleBytes /\ [Next]_linkVars => NoStaleBytes'
  <2>. SUFFICES ASSUME LinkInv, NoStaleBytes, [Next]_linkVars PROVE NoStaleBytes'
    OBVIOUS
  <2>1. \A x \in End : Fresh(st[x], last[x])
    BY DEF NoStaleBytes, Fresh
  <2>2. CASE UNCHANGED linkVars
    BY <2>2 DEF linkVars, NoStaleBytes
  <2>3. ASSUME NEW e \in End,
               \/ Open(e) \/ Close(e) \/ Write(e) \/ Read(e)
               \/ PrepareClose(e) \/ PrepareOpen(e) \/ PeerTimeout(e)
               \/ PrepareData(e) \/ PrepareAck(e) \/ Finish(e) \/ Refused(e)
               \/ TransportStopped(e) \/ Receive(e) \/ Lose(e)
        PROVE  NoStaleBytes'
    <3>1. Fresh(st'[e], last'[e])
      BY <2>1, <2>3, ReceivedFresh, OtherFresh
    <3>2. \A x \in End : x # e => st'[x] = st[x] /\ last'[x] = last[x]
      BY <2>3, OneEnd
    <3>3. \A x \in End : Fresh(st'[x], last'[x])
      BY <2>1, <3>1, <3>2
    <3>. QED  BY <3>3 DEF NoStaleBytes, Fresh
  <2>. QED  BY <2>2, <2>3 DEF Next
<1>. QED  BY <1>1, <1>2, InitTyped, NextTyped, PTL DEF Spec
=============================================================================
