------------------------------ MODULE LinkStream ------------------------------
(***************************************************************************)
(* A virtual serial port over a frame link (solar_os_link_stream.c): two   *)
(* ends, each with a port a program opens, reads and writes, and a stream  *)
(* that the task of the link job drives: it handles the frames it receives *)
(* and sends one frame per pass.  Sending has two sections under           *)
(* stream_mutex, one that prepares the frame and one that notes that it    *)
(* was queued; programs run in between.  Delivery is stop and wait within  *)
(* a session, a random number either end draws for its own direction.      *)
(*                                                                         *)
(* The link loses frames and delivers a frame again (a repeater's copy),   *)
(* and keeps their order.  One item stands for the bytes of one data       *)
(* frame.  Times are choices: an interval or a timeout may end any time.   *)
(***************************************************************************)
EXTENDS Integers, Sequences, FiniteSets

CONSTANTS End,          \* the two ends
          Writer,       \* the ends whose programs write
          SessionsOf,   \* the numbers each end draws its sessions from
          SeqMax,       \* the largest sequence number (UINT16_MAX)
          TxMax, RxMax, \* items the queues of a port hold
          NetMax,       \* frames under way in one direction
          ItemMax,      \* bound: items a program writes
          FaultMax      \* bound: closings, timeouts, stops, refused sends

ASSUME LinkStreamAssumption ==
    /\ Cardinality(End) = 2 /\ IsFiniteSet(End) /\ Writer \subseteq End
    /\ SessionsOf \in [End -> SUBSET (Nat \ {0})]
    /\ \A e, f \in End : e # f => SessionsOf[e] \cap SessionsOf[f] = {}
    /\ {SeqMax, TxMax, RxMax, NetMax} \subseteq Nat \ {0} /\ SeqMax > 1
    /\ {ItemMax, FaultMax} \subseteq Nat

VARIABLES st,           \* streams[] at each end
          act,          \* the frame an end has prepared and not yet sent
          net,          \* frames under way to each end
          wrote,        \* history: items written at each end,
          since,        \*   of them those before the port was last opened,
          last,         \*   the last item accepted at each end and its session
          faults        \*   closings, timeouts and stops so far

linkVars == <<st, act, net, wrote, since, last, faults>>

Session == UNION {SessionsOf[e] : e \in End}
Peer(e) == CHOOSE x \in End : x # e
Sequence == 1..SeqMax
NextSeqUnwrapped(n) == n + 1
NextSeq(n) == IF n = SeqMax THEN 1 ELSE n + 1
PrevSeq(n) == IF n = 1 THEN SeqMax ELSE n - 1

\* The window holds one frame, an acknowledgement is pending or not: each is a
\* set of at most one element.
Slot == [seq : Sequence, item : 1..ItemMax, sent : BOOLEAN]
Ack == [ses : Session, seq : Sequence]

Frame == [op : {"open", "data", "ack", "close"}, ses : Session,
          seq : 0..SeqMax, item : 0..ItemMax, ack : SUBSET Ack]
NoFrame == [op |-> "none"]

Stream == [open : BOOLEAN, local : Session \cup {0}, remote : Session \cup {0},
           had : BOOLEAN, expect : Sequence, any : BOOLEAN, next : Sequence,
           win : SUBSET Slot, tx : 0..TxMax, rx : 0..RxMax, ack : SUBSET Ack,
           close : Session \cup {0}, due : BOOLEAN]

\* A random session is not one that anybody still knows; which one it is does
\* not matter, so the smallest.  Bound: there is one.
Used(f) == IF f = NoFrame THEN {} ELSE {f.ses} \cup {a.ses : a \in f.ack}
InUse == UNION {{st[e].local, st[e].remote, st[e].close, last[e].ses, last[e].own}
                  \cup {a.ses : a \in st[e].ack} \cup Used(act[e])
                  \cup UNION {Used(net[e][i]) : i \in DOMAIN net[e]} : e \in End}
NewSessions(e) ==
    LET free == SessionsOf[e] \ InUse IN {n \in free : \A m \in free : n <= m}

Init == /\ st = [e \in End |->
                   [open |-> FALSE, local |-> 0, remote |-> 0, had |-> FALSE,
                    expect |-> 1, any |-> FALSE, next |-> 1, win |-> {}, tx |-> 0,
                    rx |-> 0, ack |-> {}, close |-> 0, due |-> TRUE]]
        /\ act = [e \in End |-> NoFrame]
        /\ net = [e \in End |-> <<>>]
        /\ wrote = [e \in End |-> 0]
        /\ since = [e \in End |-> 0]
        /\ last = [e \in End |-> [item |-> 0, ses |-> 0, own |-> 0]]
        /\ faults = 0

RenewedUnnumbered(s, ses) == [s EXCEPT !.local = ses, !.due = TRUE,
                                       !.win = {[w EXCEPT !.sent = FALSE] : w \in @}]

\* A new session numbers the frame in the window again from 1; it counts as
\* unsent, and the next open frame is due.
Renewed(s, ses) == [s EXCEPT !.local = ses,
                             !.win = {[w EXCEPT !.seq = 1, !.sent = FALSE] : w \in @},
                             !.next = IF s.win = {} THEN 1 ELSE NextSeq(1),
                             !.due = TRUE]

Fault == faults < FaultMax /\ faults' = faults + 1
-----------------------------------------------------------------------------
(***************************************************************************)
(* Programs, through the port.                                             *)
(***************************************************************************)
Open(e) ==
    /\ ~st[e].open
    /\ \E ses \in NewSessions(e) : st' = [st EXCEPT ![e] = Renewed([@ EXCEPT
           !.open = TRUE, !.remote = 0, !.had = FALSE, !.expect = 1, !.any = FALSE,
           !.win = {}, !.tx = 0, !.rx = 0, !.ack = {}, !.close = 0], ses)]
    /\ since' = [since EXCEPT ![e] = wrote[e]]
    /\ UNCHANGED <<act, net, wrote, last, faults>>

Close(e) ==
    /\ st[e].open /\ Fault
    /\ st' = [st EXCEPT ![e].open = FALSE, ![e].remote = 0, ![e].close = st[e].local,
                        ![e].win = {}, ![e].tx = 0, ![e].rx = 0, ![e].ack = {}]
    /\ UNCHANGED <<act, net, wrote, since, last>>

Write(e) ==
    /\ st[e].open /\ st[e].tx < TxMax
    /\ e \in Writer /\ wrote[e] < ItemMax
    /\ st' = [st EXCEPT ![e].tx = @ + 1]
    /\ wrote' = [wrote EXCEPT ![e] = @ + 1]
    /\ UNCHANGED <<act, net, since, last, faults>>

Read(e) ==
    /\ st[e].open /\ st[e].rx > 0
    /\ st' = [st EXCEPT ![e].rx = @ - 1]
    /\ UNCHANGED <<act, net, wrote, since, last, faults>>
-----------------------------------------------------------------------------
(***************************************************************************)
(* The task of the job, sending: one frame per pass, in this order of      *)
(* preference.  Every frame carries the pending acknowledgement.           *)
(***************************************************************************)
Prepare(e, f) ==
    /\ act[e] = NoFrame /\ Len(net[Peer(e)]) < NetMax
    /\ act' = [act EXCEPT ![e] = f]
    /\ UNCHANGED <<net, wrote, since, last>>

Control(op, ses, ack) == [op |-> op, ses |-> ses, seq |-> 0, item |-> 0, ack |-> ack]

PrepareClose(e) ==
    /\ st[e].close # 0
    /\ Prepare(e, Control("close", st[e].close, st[e].ack))
    /\ UNCHANGED <<st, faults>>

\* At once when it is due, and otherwise after an interval.
PrepareOpen(e) ==
    /\ st[e].close = 0 /\ st[e].open
    /\ Prepare(e, Control("open", st[e].local, st[e].ack))
    /\ UNCHANGED <<st, faults>>

\* The peer has not been heard for peer_timeout_ms; an open frame is due.
PeerTimeout(e) ==
    /\ st[e].remote # 0 /\ Fault
    /\ st' = [st EXCEPT ![e].remote = 0, ![e].due = TRUE, ![e].ack = {}]
    /\ Prepare(e, Control("open", st[e].local, {}))

Connected(e) == st[e].open /\ st[e].close = 0 /\ ~st[e].due /\ st[e].remote # 0

\* The next item of the queue, if the window has room for it; otherwise the
\* frame in the window, which was not sent or whose retry delay has passed.
Window(e) ==
    IF st[e].win = {} /\ st[e].tx > 0
    THEN {[seq |-> st[e].next, item |-> wrote[e] - st[e].tx + 1, sent |-> FALSE]}
    ELSE {[w EXCEPT !.sent = FALSE] : w \in st[e].win}

PrepareData(e) ==
    /\ Connected(e)
    /\ \E w \in Window(e) :
          /\ Prepare(e, [op |-> "data", ses |-> st[e].local, seq |-> w.seq,
                         item |-> w.item, ack |-> st[e].ack])
          /\ st' = [st EXCEPT ![e].win = {w},
                              ![e].next = IF st[e].win = {} THEN NextSeq(@) ELSE @,
                              ![e].tx = IF st[e].win = {} THEN @ - 1 ELSE @]
    /\ UNCHANGED faults

\* No data to send: the acknowledgement goes alone, after its delay.
PrepareAck(e) ==
    /\ Connected(e) /\ st[e].ack # {}
    /\ IF st[e].win = {} THEN st[e].tx = 0 ELSE \A w \in st[e].win : w.sent
    /\ Prepare(e, Control("ack", st[e].local, st[e].ack))
    /\ UNCHANGED <<st, faults>>

\* The second section, once the frame is queued.
Sent(s, f) ==
    LET acked == [s EXCEPT !.ack = IF @ = f.ack THEN {} ELSE @] IN
    CASE f.op = "close" -> [acked EXCEPT !.close = 0]
      [] f.op = "open"  -> [acked EXCEPT !.due = FALSE]
      [] f.op = "data"  -> [acked EXCEPT !.win = {[w EXCEPT !.sent = @ \/ w.seq = f.seq] : w \in @}]
      [] OTHER          -> acked

Finish(e) ==
    /\ act[e] # NoFrame
    /\ act' = [act EXCEPT ![e] = NoFrame]
    /\ net' = [net EXCEPT ![Peer(e)] = Append(@, act[e])]
    /\ st' = [st EXCEPT ![e] = Sent(@, act[e])]
    /\ UNCHANGED <<wrote, since, last, faults>>

\* The queue of the link is full of other frames.
Refused(e) ==
    /\ act[e] # NoFrame /\ Fault
    /\ act' = [act EXCEPT ![e] = NoFrame]
    /\ UNCHANGED <<st, net, wrote, since, last>>

\* The job ends and starts again with the same link name.
TransportStopped(e) ==
    /\ act[e] = NoFrame /\ Fault
    /\ st' = [st EXCEPT ![e].remote = 0, ![e].due = TRUE, ![e].ack = {},
                        ![e].win = {[w EXCEPT !.sent = FALSE] : w \in @}]
    /\ UNCHANGED <<act, net, wrote, since, last>>
-----------------------------------------------------------------------------
(***************************************************************************)
(* The task of the job, receiving.                                         *)
(***************************************************************************)
Arrived(e) == Head(net[e])

\* The frame leaves the link, or a copy of it is still to come.
Take(e) ==
    /\ net[e] # <<>> /\ act[e] = NoFrame
    /\ \/ net' = [net EXCEPT ![e] = Tail(@)]
       \/ UNCHANGED net
    /\ UNCHANGED <<act, wrote, since, faults>>

\* The link has lost the frame instead.
Lose(e) ==
    /\ net[e] # <<>> /\ act[e] = NoFrame
    /\ net' = [net EXCEPT ![e] = Tail(@)]
    /\ UNCHANGED <<st, act, wrote, since, last, faults>>

AcknowledgedAnySession(s, f) == [s EXCEPT !.win = {w \in @ : w.seq \notin {k.seq : k \in f.ack}}]

\* What s does with the acknowledgement a frame carries: it counts for the
\* current session only.
Acknowledged(s, f) ==
    [s EXCEPT !.win = {w \in @ : [ses |-> s.local, seq |-> w.seq] \notin f.ack}]

OpenedKeepingBytes(s, f, ses) ==
    IF f.ses = s.remote THEN s
    ELSE [(IF s.remote # 0 \/ s.had THEN Renewed(s, ses) ELSE s) EXCEPT
             !.remote = f.ses, !.had = TRUE, !.expect = 1, !.any = FALSE,
             !.ack = {}, !.due = TRUE]

\* An open frame of a session the end has not seen: it starts over, and if it
\* had heard of an earlier one it starts a session of its own as well.
Opened(s, f, ses) ==
    IF f.ses = s.remote THEN s
    ELSE [(IF s.remote # 0 \/ s.had THEN Renewed(s, ses) ELSE s) EXCEPT
             !.remote = f.ses, !.had = TRUE, !.expect = 1, !.any = FALSE,
             !.ack = {}, !.rx = 0, !.due = TRUE]

ReceiveOpen(e) ==
    /\ Take(e) /\ st[e].open /\ Arrived(e).op = "open"
    /\ \E ses \in NewSessions(e) :
          st' = [st EXCEPT ![e] = Acknowledged(Opened(@, Arrived(e), ses), Arrived(e))]
    /\ UNCHANGED last

FromAnySession(e, op) == Take(e) /\ st[e].open /\ Arrived(e).op = op

\* A frame of the session the peer has announced.
FromPeer(e, op) == /\ Take(e) /\ st[e].open
                   /\ Arrived(e).op = op /\ Arrived(e).ses = st[e].remote

\* Data are answered with the sequence number before the expected one, once there
\* was any.
Answered(s, f) ==
    IF s.expect = 1 /\ ~s.any THEN s
    ELSE [s EXCEPT !.ack = {[ses |-> f.ses, seq |-> PrevSeq(s.expect)]}]
Taken(s, f) ==
    Answered([s EXCEPT !.rx = s.rx + 1, !.expect = NextSeq(s.expect), !.any = TRUE], f)

\* The expected frame is taken if the queue has room.
ReceiveData(e) ==
    /\ FromPeer(e, "data") /\ Arrived(e).seq = st[e].expect
    /\ IF st[e].rx < RxMax
       THEN /\ st' = [st EXCEPT ![e] = Acknowledged(Taken(@, Arrived(e)), Arrived(e))]
            /\ last' = [last EXCEPT ![e] = [item |-> Arrived(e).item, ses |-> Arrived(e).ses,
                                                own |-> st[e].local]]
       ELSE /\ st' = [st EXCEPT ![e] = Acknowledged(@, Arrived(e))]
            /\ UNCHANGED last

ReceiveOtherUnanswered(e) ==
    /\ FromPeer(e, "data") /\ Arrived(e).seq # st[e].expect
    /\ st' = [st EXCEPT ![e] = Acknowledged(@, Arrived(e))]
    /\ UNCHANGED last

\* Any other is only answered.
ReceiveOther(e) ==
    /\ FromPeer(e, "data") /\ Arrived(e).seq # st[e].expect
    /\ st' = [st EXCEPT ![e] = Acknowledged(Answered(@, Arrived(e)), Arrived(e))]
    /\ UNCHANGED last

ReceiveAck(e) ==
    /\ FromPeer(e, "ack")
    /\ st' = [st EXCEPT ![e] = Acknowledged(@, Arrived(e))]
    /\ UNCHANGED last

ReceiveClose(e) ==
    /\ FromPeer(e, "close")
    /\ st' = [st EXCEPT ![e] = [Acknowledged(@, Arrived(e)) EXCEPT
                 !.remote = 0, !.ack = {}, !.rx = 0, !.due = TRUE]]
    /\ UNCHANGED last

\* A closed port, or a session the end does not know: the frame is dropped.
ReceiveDropped(e) ==
    /\ Take(e)
    /\ ~st[e].open \/ (Arrived(e).op # "open" /\ Arrived(e).ses # st[e].remote)
    /\ UNCHANGED <<st, last>>

Receive(e) == \/ ReceiveOpen(e) \/ ReceiveData(e) \/ ReceiveOther(e) \/ ReceiveAck(e)
              \/ ReceiveClose(e) \/ ReceiveDropped(e)
-----------------------------------------------------------------------------
Next == \E e \in End :
    \/ Open(e) \/ Close(e) \/ Write(e) \/ Read(e)
    \/ PrepareClose(e) \/ PrepareOpen(e) \/ PeerTimeout(e)
    \/ PrepareData(e) \/ PrepareAck(e) \/ Finish(e) \/ Refused(e) \/ TransportStopped(e)
    \/ Receive(e) \/ Lose(e)

Spec == Init /\ [][Next]_linkVars

\* The job passes over its stream for ever, intervals end, programs read what
\* has arrived, and the link does not lose all frames that open or close a
\* stream, all that carry data or all that acknowledge.
Delivers(e, F(_)) == /\ net[e] # <<>> /\ F(Arrived(e))
                     /\ Receive(e) /\ net' # net
IsControl(f) == f.op \in {"open", "close"}
HasData(f) == f.op = "data"
HasAck(f) == f.ack # {}
FairSpec ==
    /\ Spec
    /\ \A e \in End :
          /\ WF_linkVars(Finish(e) \/ Refused(e)) /\ WF_linkVars(Read(e))
          /\ SF_linkVars(PrepareOpen(e)) /\ SF_linkVars(Delivers(e, IsControl))
    /\ \A e \in Writer :
          /\ SF_linkVars(PrepareData(e)) /\ SF_linkVars(Delivers(Peer(e), HasData))
          /\ SF_linkVars(Delivers(e, HasAck))
-----------------------------------------------------------------------------
TypeOK == /\ st \in [End -> Stream]
          /\ \A e \in End : Cardinality(st[e].win) <= 1 /\ Cardinality(st[e].ack) <= 1
          /\ act \in [End -> Frame \cup {NoFrame}]
          /\ net \in [End -> Seq(Frame)] /\ \A e \in End : Len(net[e]) <= NetMax
          /\ wrote \in [End -> 0..ItemMax] /\ since \in [End -> 0..ItemMax]
          /\ last \in [End -> [item : 0..ItemMax, ses : Session \cup {0}, own : Session \cup {0}]]
          /\ faults \in 0..FaultMax

\* The last item that left the window of e, acknowledged.
LastDone(e) == IF st[e].win = {} THEN wrote[e] - st[e].tx
               ELSE (CHOOSE w \in st[e].win : TRUE).item - 1

\* Whatever sessions either end has gone through, an item leaves the window only
\* when the other end has accepted it: an acknowledgement of an earlier session
\* never counts for a frame numbered again.
AckedWasAccepted ==
    \A e \in End : st[e].open /\ LastDone(e) > since[e] =>
        last[Peer(e)].item >= LastDone(e)

\* Bytes of an earlier session of the peer are gone before any of a new one
\* can be read ("without reusing stale bytes").
NoStaleBytes ==
    \A e \in End : st[e].rx > 0 => st[e].remote \in {0, last[e].ses}

\* When each end knows the current session of the other, the frame in a window
\* is the one the other end expects, or the one it has just accepted.
Agree(e) == st[e].open /\ st[e].remote = st[Peer(e)].local
WindowAligned ==
    \A e \in End : Agree(e) /\ Agree(Peer(e)) =>
        \A w \in st[Peer(e)].win :
            \/ w.seq = st[e].expect /\ w.item >= last[e].item
            \/ /\ w.seq = PrevSeq(st[e].expect)
               /\ last[e] = [item |-> w.item, ses |-> st[e].remote, own |-> st[e].local]

\* Items are accepted in the order they were written; one is accepted again only
\* when one of the ends has begun a new session, and none is passed over unless
\* its port was closed.
Accepts(e) == st'[e].rx > st[e].rx
Epoch(l) == <<l.ses, l.own>>
InOrderOnce ==
    [][\A e \in End : Accepts(e) =>
          /\ \/ last'[e].item > last[e].item
             \/ last'[e].item = last[e].item /\ Epoch(last'[e]) # Epoch(last[e])
          /\ \A i \in last[e].item + 1 .. last'[e].item - 1 : i <= since[Peer(e)]]_linkVars

\* As long as no port is closed, no peer times out and no job stops, what one
\* program writes the other one gets, whatever the link loses.
Delivered ==
    \A e \in Writer : \A n \in 1..ItemMax :
        (wrote[e] >= n /\ st[Peer(e)].open) ~> (last[Peer(e)].item >= n \/ faults > 0)

\* The stream epochs resynchronize: once both ports stay open each end ends up
\* with the session of the other.
EpochsSettle ==
    <>[](\A e \in End : st[e].open)
      => <>[](\A e \in End : st[e].remote = st[Peer(e)].local)
=============================================================================
