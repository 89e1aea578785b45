-------------------------- MODULE LinkDeliveryProofs --------------------------
(***************************************************************************)
(* Proofs about what LinkStream delivers, for any sessions, sequence space *)
(* and sizes of queues: an item leaves the window only when the other end  *)
(* has accepted it, the windows of two ends that know each other's session *)
(* are aligned, and items are accepted in order and once per epoch.        *)
(*                                                                         *)
(* The invariant is stated of one direction: the stream s of the sender    *)
(* and r of the receiver, the frames c under way to the receiver and d     *)
(* under way back, the last item l the receiver has accepted, the last     *)
(* item top the sender has taken out of its queue, and the number n of     *)
(* items written before its port was last opened.  Every action is a few   *)
(* elementary changes of these, each with a lemma of its own.              *)
(***************************************************************************)
EXTENDS LinkStreamProofs

Accepted == [item : 0..ItemMax, ses : Session \cup {0}, own : Session \cup {0}]

-----------------------------------------------------------------------------
(* The inductive invariant.                                                *)

\* The last item whose acknowledgement s has seen.
Done(s, top) == top - (IF s.win = {} THEN 0 ELSE 1)
IsData(f) == f.op = "data"

\* An end by itself: what it has accepted in the present epoch, and nothing sent
\* before it has heard of its peer.
EndSound(s, l, top) ==
    /\ s.remote # 0 => s.had
    /\ ~s.any => s.expect = 1
    /\ ~s.had => s.win = {} /\ s.next = 1 /\ ~s.any
    /\ s.remote # 0 /\ s.any => l.ses = s.remote /\ l.own = s.local
    /\ s.open /\ (~s.had \/ (s.remote # 0 /\ ~s.any)) => l.own # s.local
    /\ \A w \in s.win : w.item = top /\ s.next = NextSeq(w.seq)

Typed(s, r, c, d, l, top, n) ==
    /\ Sound(s) /\ Sound(r) /\ c \in Seq(Frame) /\ d \in Seq(Frame)
    /\ l \in Accepted /\ top \in Int /\ n \in Int

\* All data under way, of whatever session: in order, none behind what was accepted,
\* and nothing missing between but what a closed port dropped.
InOrder(c, l, top, n) ==
    /\ l.item <= top
    /\ \A i \in DOMAIN c : IsData(c[i]) =>
          /\ l.item <= c[i].item /\ c[i].item <= top
          /\ c[i].item - 1 <= n \/ c[i].item - 1 <= l.item
    /\ \A i, j \in DOMAIN c : i <= j /\ IsData(c[i]) /\ IsData(c[j]) => c[i].item <= c[j].item

\* The same item of the same session always has the same number.
Numbered(c, r, l) ==
    /\ \A i, j \in DOMAIN c :
          IsData(c[i]) /\ IsData(c[j]) /\ c[i].ses = c[j].ses /\ c[i].item = c[j].item
             => c[i].seq = c[j].seq
    /\ \A i \in DOMAIN c :
          IsData(c[i]) /\ r.any /\ c[i].ses = r.remote /\ c[i].item = l.item
             => c[i].seq = PrevSeq(r.expect)

\* The data of the present session: the frame in the window, or copies of the one
\* before it.
InWindow(f, s, top) ==
    IF s.win = {} THEN f.item = top /\ f.seq = PrevSeq(s.next)
    ELSE \A w \in s.win : \/ f.item = w.item /\ f.seq = w.seq
                          \/ f.item = w.item - 1 /\ f.seq = PrevSeq(w.seq)
Windowed(c, s, top) ==
    s.open => \A i \in DOMAIN c : IsData(c[i]) /\ c[i].ses = s.local => InWindow(c[i], s, top)

\* The acknowledgements of the present session, under way and pending: those of the
\* frame before, then those of the frame in the window, which only come when it was
\* accepted.
Mine(s, k) == k.ses = s.local
AckedRight(s, l, k) ==
    IF s.win = {} THEN k.seq = PrevSeq(s.next)
    ELSE \A w \in s.win : \/ k.seq = PrevSeq(w.seq)
                          \/ k.seq = w.seq /\ w.item <= l.item
Later(s, k, m) == \A w \in s.win : k.seq = w.seq => m.seq = w.seq
Acked(d, s, r, l) ==
    s.open =>
        /\ \A i \in DOMAIN d : \A k \in d[i].ack : Mine(s, k) => AckedRight(s, l, k)
        /\ \A k \in r.ack : Mine(s, k) => AckedRight(s, l, k)
        /\ \A i, j \in DOMAIN d : \A k \in d[i].ack, m \in d[j].ack :
              i <= j /\ Mine(s, k) /\ Mine(s, m) => Later(s, k, m)
        /\ \A i \in DOMAIN d : \A k \in d[i].ack, m \in r.ack :
              Mine(s, k) /\ Mine(s, m) => Later(s, k, m)

\* What the receiver expects once it has accepted something of the present session.
Heard(s, r) == s.open /\ r.remote = s.local
Aligned(s, r, l, top) ==
    IF s.win = {} THEN r.expect = s.next /\ l.item = top
    ELSE \A w \in s.win : \/ r.expect = w.seq /\ l.item < w.item
                          \/ r.expect = NextSeq(w.seq) /\ l.item = w.item
Expected(s, r, l, top) == Heard(s, r) /\ r.any => Aligned(s, r, l, top)

\* An end that has not heard of any peer has sent no data in its session; one that
\* knows the session of its peer has the window at the start of its own, and
\* unacknowledged, until the peer has accepted something of it.
Silent(c, s) == \A i \in DOMAIN c : IsData(c[i]) => c[i].ses # s.local
Unacked(d, s, r) == /\ \A i \in DOMAIN d : \A k \in d[i].ack : ~Mine(s, k)
                    /\ \A k \in r.ack : ~Mine(s, k)
AtStart(s) == IF s.win = {} THEN s.next = 1 ELSE \A w \in s.win : w.seq = 1
Knows(s, r) == s.remote # 0 /\ s.remote = r.local
Starting(c, d, s, r) ==
    /\ s.open /\ ~s.had => Silent(c, s) /\ Unacked(d, s, r)
    /\ Knows(s, r) /\ (~r.had \/ (Heard(s, r) /\ ~r.any)) => AtStart(s) /\ Unacked(d, s, r)

\* What has left the window was accepted, or was written before the port was opened.
Settled(s, l, top, n) == s.open /\ Done(s, top) > n => l.item >= Done(s, top)

Direction(s, r, c, d, l, top, n) ==
    /\ Typed(s, r, c, d, l, top, n)
    /\ InOrder(c, l, top, n) /\ Numbered(c, r, l) /\ Windowed(c, s, top)
    /\ Acked(d, s, r, l) /\ Expected(s, r, l, top)
    /\ Starting(c, d, s, r) /\ Settled(s, l, top, n)

\* The frames of e that its peer has not taken: those on the link and the one that
\* is prepared.
Chan(e) == IF act[e] = NoFrame THEN net[Peer(e)] ELSE Append(net[Peer(e)], act[e])
Top(e) == wrote[e] - st[e].tx

DirectionOf(e) == Direction(st[e], st[Peer(e)], Chan(e), Chan(Peer(e)), last[Peer(e)],
                            Top(e), since[e])
DeliveryInv == /\ LinkInv
               /\ \A e \in End : EndSound(st[e], last[e], Top(e)) /\ DirectionOf(e)
-----------------------------------------------------------------------------
(***************************************************************************)
(* Sequence numbers, and the frames under way.                             *)
(***************************************************************************)
LEMMA Numbers ==
    \A k \in Sequence : /\ PrevSeq(NextSeq(k)) = k /\ NextSeq(PrevSeq(k)) = k
                        /\ PrevSeq(k) # k /\ NextSeq(k) # k
BY LinkStreamAssumption DEF Sequence, NextSeq, PrevSeq

LEMMA SoundFields ==
    ASSUME NEW s, Sound(s)
    PROVE  /\ s.next \in Sequence /\ s.expect \in Sequence
           /\ \A w \in s.win : w.seq \in Sequence /\ w.item \in Int
           /\ s.open => s.local # 0
           /\ s.remote # 0 => s.open
BY LinkStreamAssumption DEF Sound, Stream, Slot

LEMMA FrameFields ==
    ASSUME NEW c \in Seq(Frame), NEW i \in DOMAIN c
    PROVE  c[i].item \in Int /\ c[i].ses # 0 /\ i \in Int
<1>1. c[i] \in Frame /\ i \in Int
  OBVIOUS
<1>. QED  BY <1>1, SessionsNonzero, LinkStreamAssumption DEF Frame

\* Some frames have gone from the front or the end.
Shrinks(c, v) ==
    /\ v \in Seq(Frame)
    /\ \E k \in {0, 1} : \A i \in DOMAIN v : i + k \in DOMAIN c /\ v[i] = c[i + k]

LEMMA TailShrinks ==
    ASSUME NEW c \in Seq(Frame), c # <<>>
    PROVE  Shrinks(c, Tail(c))
<1>1. Tail(c) \in Seq(Frame) /\ Len(Tail(c)) = Len(c) - 1 /\ Len(c) \in Nat
  OBVIOUS
<1>2. \A i \in DOMAIN Tail(c) : i + 1 \in DOMAIN c /\ Tail(c)[i] = c[i + 1]
  BY <1>1
<1>. QED  BY <1>1, <1>2 DEF Shrinks

LEMMA SameShrinks == ASSUME NEW c \in Seq(Frame) PROVE Shrinks(c, c)
<1>1. \A i \in DOMAIN c : i + 0 \in DOMAIN c /\ c[i] = c[i + 0]
  <2>1. DOMAIN c = 1..Len(c)
    OBVIOUS
  <2>. QED  BY <2>1
<1>. QED  BY <1>1 DEF Shrinks

LEMMA FrontShrinks ==
    ASSUME NEW c \in Seq(Frame), NEW f \in Frame
    PROVE  Shrinks(Append(c, f), c)
<1>1. \A i \in DOMAIN c : i + 0 \in DOMAIN Append(c, f) /\ c[i] = Append(c, f)[i + 0]
  <2>1. DOMAIN c = 1..Len(c) /\ Len(c) \in Nat /\ DOMAIN Append(c, f) = 1..Len(c) + 1
    OBVIOUS
  <2>. QED  BY <2>1
<1>. QED  BY <1>1 DEF Shrinks

LEMMA AppendTailShrinks ==
    ASSUME NEW c \in Seq(Frame), c # <<>>, NEW f \in Frame
    PROVE  Shrinks(Append(c, f), Append(Tail(c), f))
<1>. DEFINE t == Tail(c)
<1>1. /\ t \in Seq(Frame) /\ Len(t) = Len(c) - 1 /\ Len(c) \in Nat /\ Len(t) \in Nat
      /\ \A i \in 1..Len(t) : t[i] = c[i + 1]
  OBVIOUS
<1>. HIDE DEF t
<1>2. /\ Append(t, f) \in Seq(Frame) /\ DOMAIN Append(t, f) = 1..Len(c)
      /\ DOMAIN Append(c, f) = 1..Len(c) + 1
  BY <1>1
<1>3. ASSUME NEW i \in 1..Len(c) PROVE Append(t, f)[i] = Append(c, f)[i + 1]
  <2>1. CASE i = Len(c)
    <3>1. Append(t, f)[i] = f
      BY <1>1, <2>1
    <3>2. Append(c, f)[i + 1] = f
      BY <1>1, <2>1
    <3>. QED  BY <3>1, <3>2
  <2>2. CASE i # Len(c)
    <3>1. i \in 1..Len(t) /\ i + 1 \in 1..Len(c)
      BY <1>1, <2>2
    <3>2. Append(t, f)[i] = t[i]
      BY <1>1, <3>1
    <3>3. Append(c, f)[i + 1] = c[i + 1]
      BY <3>1
    <3>. QED  BY <1>1, <3>1, <3>2, <3>3
  <2>. QED  BY <2>1, <2>2
<1>4. Shrinks(Append(c, f), Append(t, f))
  <2>1. \A i \in DOMAIN Append(t, f) :
           i + 1 \in DOMAIN Append(c, f) /\ Append(t, f)[i] = Append(c, f)[i + 1]
    BY <1>1, <1>2, <1>3
  <2>. HIDE <1>1, <1>3
  <2>. QED  BY <1>2, <2>1 DEF Shrinks
<1>. QED  BY <1>4 DEF t

LEMMA AppendIndex ==
    ASSUME NEW c \in Seq(Frame), NEW f \in Frame
    PROVE  /\ Append(c, f) \in Seq(Frame)
           /\ \A i \in DOMAIN Append(c, f) :
                 \/ i \in DOMAIN c /\ Append(c, f)[i] = c[i]
                 \/ i = Len(c) + 1 /\ Append(c, f)[i] = f
           /\ \A i \in DOMAIN c : i \in Int /\ i < Len(c) + 1
<1>1. DOMAIN c = 1..Len(c) /\ Len(c) \in Nat /\ DOMAIN Append(c, f) = 1..Len(c) + 1
  OBVIOUS
<1>. QED  BY <1>1
-----------------------------------------------------------------------------
(***************************************************************************)
(* What the link does to a direction: frames leave it and are put on it.   *)
(***************************************************************************)
LEMMA ForthShrinks ==
    ASSUME NEW s, NEW r, NEW c, NEW v, NEW d, NEW l, NEW top, NEW n,
           Direction(s, r, c, d, l, top, n), Shrinks(c, v)
    PROVE  Direction(s, r, v, d, l, top, n)
<1>1. PICK k \in {0, 1} : \A i \in DOMAIN v : i + k \in DOMAIN c /\ v[i] = c[i + k]
  BY DEF Shrinks
<1>2. v \in Seq(Frame) /\ Typed(s, r, v, d, l, top, n)
  BY DEF Direction, Typed, Shrinks
<1>3. \A i, j \in DOMAIN v : i <= j => i + k <= j + k
  BY <1>2, FrameFields
<1>4. InOrder(v, l, top, n)
  BY <1>1, <1>3 DEF Direction, InOrder
<1>5. Numbered(v, r, l)
  BY <1>1 DEF Direction, Numbered
<1>6. Windowed(v, s, top)
  BY <1>1 DEF Direction, Windowed
<1>7. Starting(v, d, s, r)
  BY <1>1 DEF Direction, Starting, Silent
<1>. QED  BY <1>2, <1>4, <1>5, <1>6, <1>7 DEF Direction

LEMMA BackShrinks ==
    ASSUME NEW s, NEW r, NEW c, NEW d, NEW v, NEW l, NEW top, NEW n,
           Direction(s, r, c, d, l, top, n), Shrinks(d, v)
    PROVE  Direction(s, r, c, v, l, top, n)
<1>1. PICK k \in {0, 1} : \A i \in DOMAIN v : i + k \in DOMAIN d /\ v[i] = d[i + k]
  BY DEF Shrinks
<1>2. v \in Seq(Frame) /\ Typed(s, r, c, v, l, top, n)
  BY DEF Direction, Typed, Shrinks
<1>3. \A i, j \in DOMAIN v : i <= j => i + k <= j + k
  BY <1>2, FrameFields
<1>4. Acked(v, s, r, l)
  BY <1>1, <1>3 DEF Direction, Acked
<1>5. Starting(c, v, s, r)
  BY <1>1 DEF Direction, Starting, Unacked
<1>. QED  BY <1>2, <1>4, <1>5 DEF Direction

\* A frame that carries no data says nothing of the direction it goes in.
LEMMA ControlSent ==
    ASSUME NEW s, NEW r, NEW c, NEW d, NEW l, NEW top, NEW n,
           Direction(s, r, c, d, l, top, n), NEW f \in Frame, ~IsData(f)
    PROVE  Direction(s, r, Append(c, f), d, l, top, n)
<1>1. c \in Seq(Frame)
  BY DEF Direction, Typed
<1>. DEFINE v == Append(c, f)
<1>2. /\ v \in Seq(Frame)
      /\ \A i \in DOMAIN v : IsData(v[i]) => i \in DOMAIN c /\ v[i] = c[i]
  BY <1>1, AppendIndex
<1>. HIDE DEF v
<1>3. Typed(s, r, v, d, l, top, n)
  BY <1>2 DEF Direction, Typed
<1>4. InOrder(v, l, top, n)
  BY <1>2 DEF Direction, InOrder
<1>5. Numbered(v, r, l)
  BY <1>2 DEF Direction, Numbered
<1>6. Windowed(v, s, top)
  BY <1>2 DEF Direction, Windowed
<1>7. Starting(v, d, s, r)
  BY <1>2 DEF Direction, Starting, Silent
<1>8. Direction(s, r, v, d, l, top, n)
  BY <1>3, <1>4, <1>5, <1>6, <1>7 DEF Direction
<1>. QED  BY <1>8 DEF v

\* The frame in the window is sent, for the first time or again.
LEMMA DataSent ==
    ASSUME NEW s, NEW r, NEW c, NEW d, NEW l, NEW top, NEW n, NEW own,
           Direction(s, r, c, d, l, top, n), EndSound(s, own, top), s.open, s.had,
           NEW w, s.win = {w},
           NEW f \in Frame, IsData(f), f.ses = s.local, f.seq = w.seq, f.item = w.item
    PROVE  Direction(s, r, Append(c, f), d, l, top, n)
<1>1. c \in Seq(Frame) /\ l.item \in Int /\ w.item \in Int /\ w.seq \in Sequence
      /\ top \in Int /\ w.item = top
  BY SoundFields, LinkStreamAssumption DEF Direction, Typed, Accepted, EndSound
<1>. DEFINE v == Append(c, f)
<1>2. /\ v \in Seq(Frame)
      /\ \A i \in DOMAIN v : \/ i \in DOMAIN c /\ v[i] = c[i]
                             \/ i = Len(c) + 1 /\ v[i] = f
      /\ \A i \in DOMAIN c : i \in Int /\ i < Len(c) + 1 /\ c[i].item \in Int
  BY <1>1, AppendIndex, FrameFields
<1>. HIDE DEF v
<1>3. Typed(s, r, v, d, l, top, n)
  BY <1>2 DEF Direction, Typed
<1>4. InOrder(v, l, top, n)
  <2>1. l.item <= top
    BY DEF Direction, InOrder
  <2>2. f.item - 1 <= n \/ f.item - 1 <= l.item
    <3>1. Done(s, top) = f.item - 1
      BY <1>1 DEF Done
    <3>. QED  BY <1>1, <3>1 DEF Direction, Settled, Typed
  <2>3. \A i \in DOMAIN v : IsData(v[i]) =>
           /\ l.item <= v[i].item /\ v[i].item <= top
           /\ v[i].item - 1 <= n \/ v[i].item - 1 <= l.item
    BY <1>1, <1>2, <2>1, <2>2 DEF Direction, InOrder
  <2>4. ASSUME NEW i \in DOMAIN v, NEW j \in DOMAIN v, i <= j, IsData(v[i]), IsData(v[j])
        PROVE  v[i].item <= v[j].item
    <3>1. CASE j \in DOMAIN c /\ v[j] = c[j]
      <4>1. i \in DOMAIN c /\ v[i] = c[i]
        <5>1. Len(c) \in Nat
          BY <1>1
        <5>. QED  BY <1>2, <2>4, <3>1, <5>1
      <4>. QED  BY <2>4, <3>1, <4>1 DEF Direction, InOrder
    <3>2. CASE v[j] = f
      BY <1>1, <2>3, <2>4, <3>2
    <3>. QED  BY <1>2, <3>1, <3>2
  <2>. QED  BY <2>1, <2>3, <2>4 DEF InOrder
<1>5. \A i \in DOMAIN c : IsData(c[i]) /\ c[i].ses = f.ses /\ c[i].item = f.item => c[i].seq = f.seq
  BY <1>1, <1>2 DEF Direction, Windowed, InWindow
<1>6. r.any /\ f.ses = r.remote /\ f.item = l.item => f.seq = PrevSeq(r.expect)
  BY <1>1, Numbers DEF Direction, Expected, Heard, Aligned
<1>7. Numbered(v, r, l)
  BY <1>2, <1>5, <1>6 DEF Direction, Numbered
<1>8. Windowed(v, s, top)
  <2>1. InWindow(f, s, top)
    BY DEF InWindow
  <2>. QED  BY <1>2, <2>1 DEF Direction, Windowed
<1>9. Starting(v, d, s, r)
  BY DEF Direction, Starting
<1>10. Direction(s, r, v, d, l, top, n)
  BY <1>3, <1>4, <1>7, <1>8, <1>9 DEF Direction
<1>. QED  BY <1>10 DEF v

\* A frame on the way back carries the acknowledgement that is pending, or none.
LEMMA AckSent ==
    ASSUME NEW s, NEW r, NEW c, NEW d, NEW l, NEW top, NEW n,
           Direction(s, r, c, d, l, top, n), NEW f \in Frame, f.ack \subseteq r.ack
    PROVE  Direction(s, r, c, Append(d, f), l, top, n)
<1>1. d \in Seq(Frame) /\ AtMostOne(r.ack)
  BY DEF Direction, Typed, Sound
<1>. DEFINE v == Append(d, f)
<1>2. /\ v \in Seq(Frame)
      /\ \A i \in DOMAIN v : \/ i \in DOMAIN d /\ v[i] = d[i]
                             \/ i = Len(d) + 1 /\ v[i] = f
      /\ \A i \in DOMAIN d : i \in Int /\ i < Len(d) + 1
  BY <1>1, AppendIndex
<1>. HIDE DEF v
<1>3. Typed(s, r, c, v, l, top, n)
  BY <1>2 DEF Direction, Typed
<1>4. Acked(v, s, r, l)
  <2>. SUFFICES ASSUME s.open PROVE Acked(v, s, r, l)
    BY DEF Acked
  <2>1. \A k, m \in r.ack : Later(s, k, m)
    BY <1>1 DEF AtMostOne, Later
  <2>2. /\ \A i \in DOMAIN v : \A k \in v[i].ack : Mine(s, k) => AckedRight(s, l, k)
        /\ \A k \in r.ack : Mine(s, k) => AckedRight(s, l, k)
    BY <1>2 DEF Direction, Acked
  <2>3. \A i \in DOMAIN v : \A k \in v[i].ack, m \in r.ack :
              Mine(s, k) /\ Mine(s, m) => Later(s, k, m)
    BY <1>2, <2>1 DEF Direction, Acked
  <2>4. ASSUME NEW i \in DOMAIN v, NEW j \in DOMAIN v, i <= j,
               NEW k \in v[i].ack, NEW m \in v[j].ack, Mine(s, k), Mine(s, m)
        PROVE  Later(s, k, m)
    <3>1. CASE j \in DOMAIN d /\ v[j] = d[j]
      <4>1. i \in DOMAIN d /\ v[i] = d[i]
        <5>1. Len(d) \in Nat
          BY <1>1
        <5>. QED  BY <1>2, <2>4, <3>1, <5>1
      <4>. QED  BY <2>4, <3>1, <4>1 DEF Direction, Acked
    <3>2. CASE v[j] = f
      BY <2>3, <2>4, <3>2
    <3>. QED  BY <1>2, <3>1, <3>2
  <2>. QED  BY <2>2, <2>3, <2>4 DEF Acked
<1>5. Starting(c, v, s, r)
  BY <1>2 DEF Direction, Starting, Unacked
<1>6. Direction(s, r, c, v, l, top, n)
  BY <1>3, <1>4, <1>5 DEF Direction
<1>. QED  BY <1>6 DEF v
-----------------------------------------------------------------------------
(***************************************************************************)
(* What a change of the sender's stream does to a direction.               *)
(***************************************************************************)
\* The same window, however often it was sent.
SameWindow(s, v) == /\ v.win = {} <=> s.win = {}
                    /\ \A x \in v.win : \E w \in s.win : x.seq = w.seq /\ x.item = w.item

\* Nothing changes for the sender, but for a session of its peer that it forgets.
SenderEased(s, v) ==
    /\ v.open = s.open /\ v.local = s.local /\ v.had = s.had /\ v.next = s.next
    /\ v.remote \in {s.remote, 0} /\ SameWindow(s, v)

LEMMA SenderEases ==
    ASSUME NEW s, NEW v, NEW r, NEW c, NEW d, NEW l, NEW top, NEW n,
           Direction(s, r, c, d, l, top, n), Sound(v), SenderEased(s, v)
    PROVE  Direction(v, r, c, d, l, top, n)
<1>1. Typed(v, r, c, d, l, top, n)
  BY DEF Direction, Typed
<1>2. Windowed(c, v, top)
  BY DEF Direction, Windowed, InWindow, SenderEased, SameWindow
<1>3. Acked(d, v, r, l)
  <2>1. \A k : Mine(v, k) => Mine(s, k)
    BY DEF Mine, SenderEased
  <2>2. \A k : AckedRight(s, l, k) => AckedRight(v, l, k)
    BY DEF AckedRight, SenderEased, SameWindow
  <2>3. \A k, m : Later(s, k, m) => Later(v, k, m)
    BY DEF Later, SenderEased, SameWindow
  <2>. QED  BY <2>1, <2>2, <2>3 DEF Direction, Acked, SenderEased
<1>4. Expected(v, r, l, top)
  BY DEF Direction, Expected, Heard, Aligned, SenderEased, SameWindow
<1>5. Starting(c, d, v, r)
  <2>1. Unacked(d, s, r) => Unacked(d, v, r)
    BY DEF Unacked, Mine, SenderEased
  <2>2. Silent(c, s) => Silent(c, v)
    BY DEF Silent, SenderEased
  <2>3. AtStart(s) => AtStart(v)
    BY DEF AtStart, SenderEased, SameWindow
  <2>. QED  BY <2>1, <2>2, <2>3 DEF Direction, Starting, Knows, Heard, SenderEased
<1>6. Settled(v, l, top, n)
  BY DEF Direction, Settled, Done, SenderEased, SameWindow
<1>. QED  BY <1>1, <1>2, <1>3, <1>4, <1>5, <1>6 DEF Direction

\* A closed port has dropped its queue: all items written are taken out.
LEMMA SenderCloses ==
    ASSUME NEW s, NEW v, NEW r, NEW c, NEW d, NEW l, NEW top, NEW up, NEW n,
           Direction(s, r, c, d, l, top, n), Sound(v),
           ~v.open, up \in Int, top <= up
    PROVE  Direction(v, r, c, d, l, up, n)
<1>1. Typed(v, r, c, d, l, up, n)
  BY DEF Direction, Typed
<1>2. v.remote = 0
  BY DEF Sound
<1>3. InOrder(c, l, up, n)
  <2>1. c \in Seq(Frame) /\ l.item \in Int /\ top \in Int
    BY LinkStreamAssumption DEF Direction, Typed, Accepted
  <2>2. \A i \in DOMAIN c : c[i].item \in Int
    BY <2>1, FrameFields
  <2>. QED  BY <2>1, <2>2 DEF Direction, InOrder
<1>4. Starting(c, d, v, r)
  BY <1>2 DEF Starting, Knows
<1>. QED  BY <1>1, <1>3, <1>4 DEF Direction, Windowed, Acked, Expected, Heard, Settled

\* Nothing under way and nothing the ends know is of session ses.
New(ses, r, c, d) ==
    /\ \A i \in DOMAIN c : c[i].ses # ses
    /\ \A i \in DOMAIN d : \A k \in d[i].ack : k.ses # ses
    /\ \A k \in r.ack : k.ses # ses
    /\ r.remote # ses

\* A sender that starts a session of its own: with an empty window when its port is
\* opened, with the item in its window numbered again when its peer has started over.
SenderRestarted(v) ==
    /\ v.open
    /\ v.win = {} => v.next = 1
    /\ \A w \in v.win : w.seq = 1 /\ v.next = NextSeq(1)

LEMMA SenderRestarts ==
    ASSUME NEW s, NEW v, NEW r, NEW c, NEW d, NEW l, NEW top, NEW up, NEW n, NEW m,
           Direction(s, r, c, d, l, top, n), Sound(v),
           SenderRestarted(v), New(v.local, r, c, d),
           \/ up \in Int /\ top <= up /\ m = up /\ v.win = {}
           \/ up = top /\ m = n /\ s.open /\ (v.win = {} <=> s.win = {})
    PROVE  Direction(v, r, c, d, l, up, m)
<1>1. Typed(v, r, c, d, l, up, m)
  BY DEF Direction, Typed
<1>2. InOrder(c, l, up, m)
  <2>1. c \in Seq(Frame) /\ l.item \in Int /\ top \in Int
    BY LinkStreamAssumption DEF Direction, Typed, Accepted
  <2>2. \A i \in DOMAIN c : c[i].item \in Int
    BY <2>1, FrameFields
  <2>. QED  BY <2>1, <2>2 DEF Direction, InOrder
<1>3. Windowed(c, v, up)
  BY DEF Windowed, New
<1>4. Acked(d, v, r, l)
  BY DEF Acked, Mine, New
<1>5. Expected(v, r, l, up)
  BY DEF Expected, Heard, New
<1>6. Starting(c, d, v, r)
  <2>1. Silent(c, v) /\ Unacked(d, v, r)
    BY DEF Silent, Unacked, Mine, New
  <2>2. AtStart(v)
    BY DEF AtStart, SenderRestarted
  <2>. QED  BY <2>1, <2>2 DEF Starting
<1>7. Settled(v, l, up, m)
  <2>1. CASE up \in Int /\ m = up /\ v.win = {}
    BY <2>1 DEF Settled, Done
  <2>2. CASE up = top /\ m = n /\ s.open /\ (v.win = {} <=> s.win = {})
    BY <2>2 DEF Direction, Settled, Done
  <2>. QED  BY <2>1, <2>2
<1>. QED  BY <1>1, <1>2, <1>3, <1>4, <1>5, <1>6, <1>7 DEF Direction

\* A sender that hears of its first peer keeps its session.
LEMMA SenderMeets ==
    ASSUME NEW s, NEW v, NEW r, NEW c, NEW d, NEW l, NEW top, NEW n, NEW own,
           Direction(s, r, c, d, l, top, n), EndSound(s, own, top), Sound(v),
           s.open, ~s.had, v.had, v.open,
           v.local = s.local, v.win = s.win, v.next = s.next
    PROVE  Direction(v, r, c, d, l, top, n)
<1>1. Typed(v, r, c, d, l, top, n)
  BY DEF Direction, Typed
<1>2. Windowed(c, v, top)
  BY DEF Direction, Windowed, InWindow
<1>3. Acked(d, v, r, l)
  BY DEF Direction, Acked, Mine, AckedRight, Later
<1>4. Expected(v, r, l, top)
  BY DEF Direction, Expected, Heard, Aligned
<1>5. Starting(c, d, v, r)
  <2>1. Unacked(d, v, r)
    BY DEF Direction, Starting, Unacked, Mine
  <2>2. AtStart(v)
    BY DEF EndSound, AtStart
  <2>. QED  BY <2>1, <2>2 DEF Starting
<1>6. Settled(v, l, top, n)
  BY DEF Direction, Settled, Done
<1>. QED  BY <1>1, <1>2, <1>3, <1>4, <1>5, <1>6 DEF Direction

\* The window is empty and takes the next item of the queue.
LEMMA SenderAdvances ==
    ASSUME NEW s, NEW v, NEW r, NEW c, NEW d, NEW l, NEW top, NEW n, NEW own,
           Direction(s, r, c, d, l, top, n), EndSound(s, own, top), Sound(v),
           s.open, s.had, v.open, v.had, s.win = {}, NEW w, v.win = {w},
           w.seq = s.next, w.item = top + 1, v.next = NextSeq(s.next),
           v.local = s.local, v.remote = s.remote
    PROVE  Direction(v, r, c, d, l, top + 1, n)
<1>1. /\ c \in Seq(Frame) /\ l.item \in Int /\ top \in Int /\ n \in Int /\ w.seq \in Sequence
      /\ \A i \in DOMAIN c : c[i].item \in Int
  BY SoundFields, FrameFields, LinkStreamAssumption DEF Direction, Typed, Accepted
<1>2. Typed(v, r, c, d, l, top + 1, n)
  BY <1>1 DEF Direction, Typed
<1>3. InOrder(c, l, top + 1, n)
  BY <1>1 DEF Direction, InOrder
<1>4. Windowed(c, v, top + 1)
  BY <1>1 DEF Direction, Windowed, InWindow
<1>5. Acked(d, v, r, l)
  <2>1. \A k : Mine(v, k) => Mine(s, k)
    BY DEF Mine
  <2>2. \A k : AckedRight(s, l, k) => AckedRight(v, l, k)
    BY DEF AckedRight
  <2>3. \A k, m : AckedRight(s, l, k) => Later(v, k, m)
    BY <1>1, Numbers DEF AckedRight, Later
  <2>. QED  BY <2>1, <2>2, <2>3 DEF Direction, Acked
<1>6. Expected(v, r, l, top + 1)
  BY <1>1 DEF Direction, Expected, Heard, Aligned
<1>7. Starting(c, d, v, r)
  <2>1. Unacked(d, s, r) => Unacked(d, v, r)
    BY DEF Unacked, Mine
  <2>2. AtStart(s) => AtStart(v)
    BY DEF AtStart
  <2>. QED  BY <2>1, <2>2 DEF Direction, Starting, Knows, Heard
<1>8. Settled(v, l, top + 1, n)
  BY <1>1 DEF Direction, Settled, Done
<1>. QED  BY <1>2, <1>3, <1>4, <1>5, <1>6, <1>7, <1>8 DEF Direction

\* An acknowledgement of the frame in the window has arrived, at the front of the
\* frames on the way back.
LEMMA SenderAcknowledged ==
    ASSUME NEW s, NEW v, NEW r, NEW c, NEW d, NEW l, NEW top, NEW n, NEW own,
           Direction(s, r, c, d, l, top, n), EndSound(s, own, top), Sound(v), s.open,
           v.open, v.local = s.local, v.remote = s.remote, v.had = s.had, v.next = s.next,
           v.win = {}, NEW w, s.win = {w},
           1 \in DOMAIN d, NEW k \in d[1].ack, k.ses = s.local, k.seq = w.seq
    PROVE  Direction(v, r, c, d, l, top, n)
<1>1. /\ c \in Seq(Frame) /\ d \in Seq(Frame) /\ l.item \in Int /\ top \in Int /\ n \in Int
      /\ w.seq \in Sequence /\ w.item = top /\ s.next = NextSeq(w.seq)
      /\ \A i \in DOMAIN c : c[i].item \in Int
  <2>1. Sound(s) /\ w \in s.win
    BY DEF Direction, Typed
  <2>2. w.seq \in Sequence /\ w.item = top /\ s.next = NextSeq(w.seq)
    BY <2>1, SoundFields DEF EndSound
  <2>3. c \in Seq(Frame) /\ d \in Seq(Frame) /\ l.item \in Int /\ top \in Int /\ n \in Int
    BY LinkStreamAssumption DEF Direction, Typed, Accepted
  <2>. QED  BY <2>2, <2>3, FrameFields
<1>2. PrevSeq(s.next) = w.seq /\ PrevSeq(w.seq) # w.seq
  BY <1>1, Numbers
<1>3. w.item <= l.item
  <2>1. AckedRight(s, l, k)
    BY DEF Direction, Acked, Mine
  <2>. QED  BY <1>2, <2>1 DEF AckedRight
<1>4. Typed(v, r, c, d, l, top, n)
  BY DEF Direction, Typed
<1>5. Windowed(c, v, top)
  <2>1. \A i \in DOMAIN c : IsData(c[i]) => c[i].item # w.item - 1
    BY <1>1, <1>3 DEF Direction, InOrder
  <2>. QED  BY <1>1, <1>2, <2>1 DEF Direction, Windowed, InWindow
<1>6. Acked(d, v, r, l)
  <2>1. \A i \in DOMAIN d : 1 <= i
    BY <1>1
  <2>2. \A i \in DOMAIN d : \A m \in d[i].ack : Mine(s, m) => m.seq = w.seq
    BY <2>1 DEF Direction, Acked, Mine, Later
  <2>3. \A m \in r.ack : Mine(s, m) => m.seq = w.seq
    BY DEF Direction, Acked, Mine, Later
  <2>. QED  BY <1>2, <2>2, <2>3 DEF Acked, AckedRight, Mine, Later
<1>7. Expected(v, r, l, top)
  BY <1>1, <1>3 DEF Direction, Expected, Heard, Aligned
<1>8. Starting(c, d, v, r)
  <2>1. ~Unacked(d, s, r)
    BY DEF Unacked, Mine
  <2>. QED  BY <2>1 DEF Direction, Starting, Knows, Heard
<1>9. Settled(v, l, top, n)
  BY <1>1, <1>3 DEF Settled, Done
<1>. QED  BY <1>4, <1>5, <1>6, <1>7, <1>8, <1>9 DEF Direction
-----------------------------------------------------------------------------
(***************************************************************************)
(* What a change of the receiver's stream does to a direction.             *)
(***************************************************************************)
\* Nothing changes for the receiver, but that it forgets the session of its peer or
\* an acknowledgement that is pending.
ReceiverEased(r, v) ==
    /\ v.local = r.local /\ v.had = r.had /\ v.any = r.any /\ v.expect = r.expect
    /\ v.remote \in {r.remote, 0} /\ v.ack \subseteq r.ack

LEMMA ReceiverEases ==
    ASSUME NEW s, NEW r, NEW v, NEW c, NEW d, NEW l, NEW top, NEW n,
           Direction(s, r, c, d, l, top, n), Sound(v), ReceiverEased(r, v)
    PROVE  Direction(s, v, c, d, l, top, n)
<1>1. Typed(s, v, c, d, l, top, n)
  BY DEF Direction, Typed
<1>2. Numbered(c, v, l)
  <2>1. \A i \in DOMAIN c : c[i].ses # 0
    BY FrameFields DEF Direction, Typed
  <2>. QED  BY <2>1 DEF Direction, Numbered, ReceiverEased
<1>3. Acked(d, s, v, l)
  BY DEF Direction, Acked, ReceiverEased
<1>4. s.open => (Heard(s, v) => Heard(s, r))
  <2>1. s.open => s.local # 0
    BY SoundFields DEF Direction, Typed
  <2>. QED  BY <2>1 DEF Heard, ReceiverEased
<1>5. Expected(s, v, l, top)
  BY <1>4 DEF Direction, Expected, Heard, Aligned, ReceiverEased
<1>6. Starting(c, d, s, v)
  <2>1. Unacked(d, s, r) => Unacked(d, s, v)
    BY DEF Unacked, ReceiverEased
  <2>2. Heard(s, v) => Heard(s, r)
    BY <1>4 DEF Heard
  <2>. QED  BY <2>1, <2>2 DEF Direction, Starting, Knows, ReceiverEased
<1>. QED  BY <1>1, <1>2, <1>3, <1>5, <1>6 DEF Direction

\* A receiver that starts over with a session of its own.
LEMMA ReceiverRestarts ==
    ASSUME NEW s, NEW r, NEW v, NEW c, NEW d, NEW l, NEW top, NEW n,
           Direction(s, r, c, d, l, top, n), Sound(v),
           ~v.any, v.ack = {}, s.remote # v.local
    PROVE  Direction(s, v, c, d, l, top, n)
<1>1. Typed(s, v, c, d, l, top, n)
  BY DEF Direction, Typed
<1>2. Numbered(c, v, l)
  BY DEF Direction, Numbered
<1>3. Acked(d, s, v, l)
  BY DEF Direction, Acked
<1>4. Expected(s, v, l, top)
  BY DEF Expected
<1>5. Starting(c, d, s, v)
  <2>1. Unacked(d, s, r) => Unacked(d, s, v)
    BY DEF Unacked
  <2>. QED  BY <2>1 DEF Direction, Starting, Knows
<1>. QED  BY <1>1, <1>2, <1>3, <1>4, <1>5 DEF Direction

\* A receiver that hears of its first peer.
LEMMA ReceiverMeets ==
    ASSUME NEW s, NEW r, NEW v, NEW c, NEW d, NEW l, NEW top, NEW n,
           Direction(s, r, c, d, l, top, n), Sound(v),
           ~r.had, ~v.any, v.ack = {}, v.local = r.local
    PROVE  Direction(s, v, c, d, l, top, n)
<1>1. Typed(s, v, c, d, l, top, n)
  BY DEF Direction, Typed
<1>2. Numbered(c, v, l)
  BY DEF Direction, Numbered
<1>3. Acked(d, s, v, l)
  BY DEF Direction, Acked
<1>4. Expected(s, v, l, top)
  BY DEF Expected
<1>5. Starting(c, d, s, v)
  <2>1. Unacked(d, s, r) => Unacked(d, s, v)
    BY DEF Unacked
  <2>. QED  BY <2>1 DEF Direction, Starting, Knows
<1>. QED  BY <1>1, <1>2, <1>3, <1>4, <1>5 DEF Direction

\* The receiver answers a frame of data of the session it listens to, once it has
\* accepted any.
LEMMA ReceiverAnswers ==
    ASSUME NEW s, NEW r, NEW v, NEW c, NEW d, NEW l, NEW top, NEW n,
           Direction(s, r, c, d, l, top, n), Sound(v), r.any, r.had,
           NEW i \in DOMAIN c, IsData(c[i]), c[i].ses = r.remote,
           v.local = r.local, v.had = r.had, v.any = r.any, v.expect = r.expect,
           v.remote = r.remote, v.ack = {[ses |-> r.remote, seq |-> PrevSeq(r.expect)]}
    PROVE  Direction(s, v, c, d, l, top, n)
<1>. DEFINE k == [ses |-> r.remote, seq |-> PrevSeq(r.expect)]
<1>1. Typed(s, v, c, d, l, top, n)
  BY DEF Direction, Typed
<1>2. /\ l.item \in Int /\ v.ack = {k} /\ k.ses = r.remote /\ k.seq = PrevSeq(r.expect)
      /\ s.next \in Sequence
      /\ \A w \in s.win : w.seq \in Sequence /\ w.item \in Int
  BY SoundFields, LinkStreamAssumption DEF Direction, Typed, Accepted
<1>. HIDE DEF k
<1>3. Numbered(c, v, l)
  BY DEF Direction, Numbered
<1>4. ASSUME s.open, Mine(s, k)
      PROVE  /\ AckedRight(s, l, k)
             /\ \A m : AckedRight(s, l, m) => Later(s, m, k)
  <2>1. Aligned(s, r, l, top)
    BY <1>2, <1>4 DEF Direction, Expected, Heard, Mine
  <2>2. AckedRight(s, l, k)
    BY <1>2, <2>1, Numbers DEF Aligned, AckedRight
  <2>3. ASSUME NEW m, AckedRight(s, l, m), NEW w \in s.win, m.seq = w.seq
        PROVE  k.seq = w.seq
    <3>1. w.item <= l.item
      BY <1>2, <2>3, Numbers DEF AckedRight
    <3>. QED  BY <1>2, <2>1, <3>1, Numbers DEF Aligned
  <2>. QED  BY <2>2, <2>3 DEF Later
<1>5. Acked(d, s, v, l)
  BY <1>2, <1>4 DEF Direction, Acked
<1>6. Expected(s, v, l, top)
  BY DEF Direction, Expected, Heard, Aligned
<1>7. Starting(c, d, s, v)
  <2>1. Silent(c, s) => ~Mine(s, k)
    BY <1>2 DEF Silent, Mine
  <2>2. s.open /\ ~s.had => Unacked(d, s, v)
    BY <1>2, <2>1 DEF Direction, Starting, Unacked
  <2>. QED  BY <2>2 DEF Direction, Starting
<1>. QED  BY <1>1, <1>3, <1>5, <1>6, <1>7 DEF Direction

\* The receiver accepts the frame of data at the front, the one it expects.
LEMMA ReceiverTakes ==
    ASSUME NEW s, NEW r, NEW v, NEW c, NEW d, NEW l, NEW top, NEW n, NEW m \in Accepted,
           Direction(s, r, c, d, l, top, n), Sound(v), r.had,
           1 \in DOMAIN c, IsData(c[1]), c[1].ses = r.remote, c[1].seq = r.expect,
           m.item = c[1].item,
           v.local = r.local, v.had = r.had, v.any, v.expect = NextSeq(r.expect),
           v.remote = r.remote, v.ack = r.ack
    PROVE  Direction(s, v, c, d, m, top, n)
<1>1. /\ c \in Seq(Frame) /\ l.item \in Int /\ m.item \in Int /\ top \in Int /\ n \in Int
      /\ \A i \in DOMAIN c : c[i].item \in Int /\ 1 <= i
  BY FrameFields, LinkStreamAssumption DEF Direction, Typed, Accepted
<1>2. s.next \in Sequence /\ r.expect \in Sequence
      /\ \A w \in s.win : w.seq \in Sequence /\ w.item \in Int
  BY SoundFields DEF Direction, Typed
<1>3. l.item <= m.item /\ m.item <= top
  BY DEF Direction, InOrder
<1>4. Typed(s, v, c, d, m, top, n)
  BY DEF Direction, Typed
<1>5. InOrder(c, m, top, n)
  <2>1. \A i \in DOMAIN c : IsData(c[i]) => m.item <= c[i].item
    BY <1>1 DEF Direction, InOrder
  <2>. QED  BY <1>1, <1>3, <2>1 DEF Direction, InOrder
<1>6. Numbered(c, v, m)
  <2>1. PrevSeq(v.expect) = c[1].seq
    BY <1>2, Numbers
  <2>. QED  BY <2>1 DEF Direction, Numbered
<1>7. Acked(d, s, v, m)
  <2>1. \A k : AckedRight(s, l, k) => AckedRight(s, m, k)
    BY <1>1, <1>2, <1>3 DEF AckedRight
  <2>. QED  BY <2>1 DEF Direction, Acked
<1>8. Expected(s, v, m, top)
  <2>. SUFFICES ASSUME Heard(s, r) PROVE Aligned(s, v, m, top)
    BY DEF Expected, Heard
  <2>1. InWindow(c[1], s, top)
    BY DEF Direction, Windowed, Heard
  <2>. QED  BY <1>1, <1>2, <2>1, Numbers DEF InWindow, Aligned
<1>9. Starting(c, d, s, v)
  <2>1. Unacked(d, s, r) => Unacked(d, s, v)
    BY DEF Unacked
  <2>. QED  BY <2>1 DEF Direction, Starting
<1>10. Settled(s, m, top, n)
  <2>1. Done(s, top) \in Int
    BY <1>1 DEF Done
  <2>. QED  BY <1>1, <1>3, <2>1 DEF Direction, Settled
<1>. QED  BY <1>4, <1>5, <1>6, <1>7, <1>8, <1>9, <1>10 DEF Direction
-----------------------------------------------------------------------------
(***************************************************************************)
(* What the same changes do to an end by itself.                           *)
(***************************************************************************)
EndEased(s, v) ==
    /\ v.open => s.open
    /\ v.local = s.local /\ v.had = s.had /\ v.next = s.next
    /\ v.any = s.any /\ v.expect = s.expect /\ v.remote \in {s.remote, 0}
    /\ \A x \in v.win : \E w \in s.win : x.seq = w.seq /\ x.item = w.item

LEMMA EndEases ==
    ASSUME NEW s, NEW v, NEW l, NEW top, NEW up, EndSound(s, l, top), EndEased(s, v),
           up = top \/ v.win = {}
    PROVE  EndSound(v, l, up)
BY DEF EndSound, EndEased

LEMMA EndRestarts ==
    ASSUME NEW v, NEW l, NEW up, SenderRestarted(v), ~v.any, v.expect = 1, l.own # v.local,
           v.remote # 0 => v.had, ~v.had => v.win = {}, \A w \in v.win : w.item = up
    PROVE  EndSound(v, l, up)
BY DEF EndSound, SenderRestarted

LEMMA EndMeets ==
    ASSUME NEW s, NEW v, NEW l, NEW top, EndSound(s, l, top), s.open, ~s.had,
           v.had, ~v.any, v.expect = 1, v.local = s.local, v.win = s.win
    PROVE  EndSound(v, l, top)
BY DEF EndSound

LEMMA EndAdvances ==
    ASSUME NEW s, NEW v, NEW l, NEW top, NEW w, EndSound(s, l, top), s.remote # 0,
           v.open = s.open, v.local = s.local, v.had = s.had, v.any = s.any,
           v.expect = s.expect, v.remote = s.remote,
           v.win = {w}, w.seq = s.next, w.item = top + 1, v.next = NextSeq(s.next)
    PROVE  EndSound(v, l, top + 1)
BY DEF EndSound

LEMMA EndTakes ==
    ASSUME NEW s, NEW v, NEW l, NEW m, NEW top, EndSound(s, l, top), s.remote # 0,
           v.any, v.had = s.had, v.local = s.local, v.remote = s.remote, v.win = s.win,
           v.next = s.next, m.ses = s.remote, m.own = s.local
    PROVE  EndSound(v, m, top)
BY DEF EndSound
-----------------------------------------------------------------------------
(***************************************************************************)
(* The two ends, and what an action does to the frames under way.          *)
(***************************************************************************)
LEMMA TwoEnds ==
    ASSUME NEW e \in End
    PROVE  /\ Peer(e) \in End /\ Peer(e) # e /\ Peer(Peer(e)) = e
           /\ \A x \in End : x = e \/ x = Peer(e)
<1>. DEFINE p == Peer(e)
<1>1. p \in End
  BY PeerIsEnd
<1>2. p # e
  <2>1. \E x \in End : x # e
    <3>1. Cardinality({e}) = 1
      BY FS_Singleton
    <3>. QED  BY <3>1, LinkStreamAssumption
  <2>. QED  BY <2>1 DEF Peer
<1>3. Peer(p) # p /\ Peer(p) \in End
  <2>1. \E x \in End : x # p
    BY <1>2
  <2>. QED  BY <1>1, <2>1, PeerIsEnd DEF Peer
<1>. HIDE DEF p
<1>4. End = {e, p}
  <2>1. IsFiniteSet({e}) /\ Cardinality({e}) = 1
    BY FS_Singleton
  <2>2. Cardinality({e} \cup {p}) = 2
    <3>1. Cardinality({e} \cup {p}) = Cardinality({e}) + 1
      BY <1>2, <2>1, FS_AddElement
    <3>. QED  BY <2>1, <3>1
  <2>3. {e} \cup {p} \in SUBSET End
    BY <1>1
  <2>. QED  BY <2>2, <2>3, FS_Subset, LinkStreamAssumption
<1>5. p = Peer(e)
  BY DEF p
<1>. QED  BY <1>1, <1>2, <1>3, <1>4, <1>5

\* An action of e leaves the other end alone.
LEMMA Assembled ==
    ASSUME DeliveryInv, LinkInv', NEW e \in End, NEW p, p = Peer(e),
           st'[p] = st[p], last'[p] = last[p], wrote'[p] = wrote[p], since'[p] = since[p],
           EndSound(st'[e], last'[e], Top(e)'),
           Direction(st'[e], st[p], Chan(e)', Chan(p)', last[p], Top(e)', since'[e]),
           Direction(st[p], st'[e], Chan(p)', Chan(e)', last'[e], Top(p), since[p])
    PROVE  DeliveryInv'
<1>1. p \in End /\ Peer(p) = e /\ \A x \in End : x = e \/ x = p
  BY TwoEnds
<1>2. Top(p)' = Top(p)
  BY DEF Top
<1>3. EndSound(st'[p], last'[p], Top(p)')
  BY <1>1, <1>2 DEF DeliveryInv
<1>4. DirectionOf(e)' /\ DirectionOf(p)'
  BY <1>1, <1>2 DEF DirectionOf
<1>5. ASSUME NEW x \in End PROVE EndSound(st'[x], last'[x], Top(x)') /\ DirectionOf(x)'
  BY <1>1, <1>3, <1>4
<1>. QED  BY <1>5 DEF DeliveryInv

LEMMA Channels ==
    ASSUME LinkInv, NEW e \in End
    PROVE  Chan(e) \in Seq(Frame)
<1>1. net[Peer(e)] \in Seq(Frame) /\ act[e] \in Frame \cup {NoFrame}
  BY PeerIsEnd DEF LinkInv
<1>. QED  BY <1>1, AppendIndex DEF Chan

LEMMA ChannelsKept ==
    ASSUME NEW e \in End, UNCHANGED <<act, net>>
    PROVE  UNCHANGED Chan(e)
BY DEF Chan

LEMMA ChannelsPrepared ==
    ASSUME LinkInv, NEW e \in End, NEW f \in Frame, Prepare(e, f)
    PROVE  /\ Chan(e)' = Append(Chan(e), f)
           /\ Chan(Peer(e))' = Chan(Peer(e))
<1>1. f # NoFrame
  <2>1. f.op # "none" /\ NoFrame.op = "none"
    BY DEF Frame, NoFrame
  <2>. QED  BY <2>1
<1>2. act'[e] = f /\ act'[Peer(e)] = act[Peer(e)] /\ net' = net /\ act[e] = NoFrame
  BY TwoEnds DEF Prepare, LinkInv
<1>. QED  BY <1>1, <1>2 DEF Chan

LEMMA ChannelsFinished ==
    ASSUME LinkInv, NEW e \in End, Finish(e)
    PROVE  UNCHANGED Chan(e) /\ UNCHANGED Chan(Peer(e))
<1>1. /\ act'[e] = NoFrame /\ act'[Peer(e)] = act[Peer(e)]
      /\ net'[Peer(e)] = Append(net[Peer(e)], act[e]) /\ net'[e] = net[e]
      /\ act[e] # NoFrame /\ Peer(Peer(e)) = e
  BY TwoEnds DEF Finish, LinkInv
<1>. QED  BY <1>1 DEF Chan

LEMMA ChannelsRefused ==
    ASSUME LinkInv, NEW e \in End, Refused(e)
    PROVE  Shrinks(Chan(e), Chan(e)') /\ UNCHANGED Chan(Peer(e))
<1>1. /\ act'[e] = NoFrame /\ act'[Peer(e)] = act[Peer(e)] /\ net' = net
      /\ act[e] \in Frame /\ net[Peer(e)] \in Seq(Frame) /\ act[e] # NoFrame
  BY TwoEnds DEF Refused, LinkInv
<1>2. Chan(e) = Append(net[Peer(e)], act[e]) /\ Chan(e)' = net[Peer(e)]
  BY <1>1 DEF Chan
<1>. QED  BY <1>1, <1>2, FrontShrinks DEF Chan

\* A frame that is handled is at the front of its channel.
LEMMA ChannelsTaken ==
    ASSUME LinkInv, NEW e \in End, Take(e) \/ Lose(e)
    PROVE  /\ UNCHANGED Chan(e)
           /\ Shrinks(Chan(Peer(e)), Chan(Peer(e))')
           /\ 1 \in DOMAIN Chan(Peer(e)) /\ Chan(Peer(e))[1] = Arrived(e)
<1>. DEFINE p == Peer(e)  c == net[e]
<1>1. /\ p \in End /\ p # e /\ Peer(p) = e
      /\ act[p] \in Frame \cup {NoFrame} /\ c \in Seq(Frame) /\ c # <<>>
      /\ act' = act /\ net'[p] = net[p]
      /\ net'[e] = Tail(c) \/ net'[e] = c
  BY TwoEnds DEF Take, Lose, LinkInv
<1>2. Arrived(e) = c[1]
  BY DEF Arrived
<1>3. UNCHANGED Chan(e)
  BY <1>1 DEF Chan
<1>4. CASE act[p] = NoFrame
  <2>1. Chan(p) = c /\ Chan(p)' = net'[e]
    BY <1>1, <1>4 DEF Chan
  <2>. HIDE DEF p, c
  <2>2. 1 \in DOMAIN c
    BY <1>1
  <2>3. Shrinks(Chan(p), Chan(p)')
    BY <1>1, <2>1, TailShrinks, SameShrinks
  <2>4. UNCHANGED Chan(e) /\ Shrinks(Chan(p), Chan(p)') /\ 1 \in DOMAIN Chan(p)
        /\ Chan(p)[1] = Arrived(e)
    BY <1>2, <1>3, <2>1, <2>2, <2>3
  <2>. QED  BY <2>4 DEF p
<1>5. CASE act[p] # NoFrame
  <2>. DEFINE f == act[p]
  <2>1. Chan(p) = Append(c, f) /\ Chan(p)' = Append(net'[e], f) /\ f \in Frame
    BY <1>1, <1>5 DEF Chan
  <2>. HIDE DEF p, c, f
  <2>2. 1 \in DOMAIN Append(c, f) /\ Append(c, f)[1] = c[1] /\ Append(c, f) \in Seq(Frame)
    BY <1>1, <2>1
  <2>3. Shrinks(Chan(p), Chan(p)')
    BY <1>1, <2>1, <2>2, AppendTailShrinks, SameShrinks
  <2>4. UNCHANGED Chan(e) /\ Shrinks(Chan(p), Chan(p)') /\ 1 \in DOMAIN Chan(p)
        /\ Chan(p)[1] = Arrived(e)
    BY <1>2, <1>3, <2>1, <2>2, <2>3
  <2>. QED  BY <2>4 DEF p
<1>. QED  BY <1>4, <1>5

\* What an end draws as a session is new to both directions.
LEMMA DrawnNew ==
    ASSUME LinkInv, NEW e \in End, NEW ses \in NewSessions(e)
    PROVE  /\ ses \in Session
           /\ New(ses, st[Peer(e)], Chan(e), Chan(Peer(e)))
           /\ last[e].own # ses
<1>1. ses \in Session /\ ses \notin InUse
  BY SessionsNonzero DEF NewSessions
<1>2. ASSUME NEW x \in End
      PROVE  /\ st[x].remote # ses /\ last[x].own # ses
             /\ \A k \in st[x].ack : k.ses # ses
             /\ ses \notin Used(act[x])
             /\ \A i \in DOMAIN net[x] : ses \notin Used(net[x][i])
  BY <1>1 DEF InUse
<1>3. ASSUME NEW x \in End, NEW i \in DOMAIN Chan(x)
      PROVE  Chan(x)[i].ses # ses /\ \A k \in Chan(x)[i].ack : k.ses # ses
  <2>1. Peer(x) \in End /\ net[Peer(x)] \in Seq(Frame) /\ act[x] \in Frame \cup {NoFrame}
    BY PeerIsEnd DEF LinkInv
  <2>2. Chan(x)[i] \in Frame
    BY Channels
  <2>3. ses \notin Used(Chan(x)[i])
    <3>1. CASE act[x] = NoFrame
      BY <1>2, <1>3, <2>1, <3>1 DEF Chan
    <3>2. CASE act[x] # NoFrame
      <4>1. \/ i \in DOMAIN net[Peer(x)] /\ Chan(x)[i] = net[Peer(x)][i]
            \/ Chan(x)[i] = act[x]
        BY <1>3, <2>1, <3>2, AppendIndex DEF Chan
      <4>. QED  BY <1>2, <2>1, <4>1
    <3>. QED  BY <3>1, <3>2
  <2>4. Chan(x)[i] # NoFrame
    <3>1. Chan(x)[i].op # "none" /\ NoFrame.op = "none"
      BY <2>2 DEF Frame, NoFrame
    <3>. QED  BY <3>1
  <2>. QED  BY <2>3, <2>4 DEF Used
<1>4. New(ses, st[Peer(e)], Chan(e), Chan(Peer(e)))
  BY <1>2, <1>3, PeerIsEnd DEF New
<1>. QED  BY <1>1, <1>2, <1>4
-----------------------------------------------------------------------------
(***************************************************************************)
(* The elementary changes of an end, in both directions at once: what the  *)
(* invariant says if the stream of e is v, its last item l, the last item  *)
(* taken out of its queue top and those written before it was opened n.    *)
(***************************************************************************)
Holds(e, v, l, top, n) ==
    /\ Sound(v) /\ EndSound(v, l, top)
    /\ Direction(v, st[Peer(e)], Chan(e), Chan(Peer(e)), last[Peer(e)], top, n)
    /\ Direction(st[Peer(e)], v, Chan(Peer(e)), Chan(e), l, Top(Peer(e)), since[Peer(e)])

LEMMA Present ==
    ASSUME DeliveryInv, NEW e \in End
    PROVE  Holds(e, st[e], last[e], Top(e), since[e])
BY TwoEnds DEF DeliveryInv, LinkInv, DirectionOf, Holds

\* What an action comes to: the frames that have left, and the changes above.
LEMMA Concluded ==
    ASSUME DeliveryInv, LinkInv', NEW e \in End,
           Holds(e, st'[e], last'[e], Top(e)', since'[e]),
           Shrinks(Chan(e), Chan(e)'), Shrinks(Chan(Peer(e)), Chan(Peer(e))'),
           \A x \in End : x # e => /\ st'[x] = st[x] /\ last'[x] = last[x]
                                   /\ wrote'[x] = wrote[x] /\ since'[x] = since[x]
    PROVE  DeliveryInv'
<1>. DEFINE p == Peer(e)
<1>1. p \in End /\ p # e
  BY TwoEnds
<1>2. Direction(st'[e], st[p], Chan(e)', Chan(p)', last[p], Top(e)', since'[e])
  BY ForthShrinks, BackShrinks DEF Holds
<1>3. Direction(st[p], st'[e], Chan(p)', Chan(e)', last'[e], Top(p), since[p])
  BY ForthShrinks, BackShrinks DEF Holds
<1>4. EndSound(st'[e], last'[e], Top(e)')
  BY DEF Holds
<1>. HIDE DEF p
<1>5. p = Peer(e)
  BY DEF p
<1>. QED  BY <1>1, <1>2, <1>3, <1>4, <1>5, Assembled

\* Nothing changes that counts, but that a session or an acknowledgement is forgotten.
Eased(s, v) ==
    /\ v.open = s.open /\ v.local = s.local /\ v.had = s.had /\ v.next = s.next
    /\ v.any = s.any /\ v.expect = s.expect
    /\ v.remote \in {s.remote, 0} /\ v.ack \subseteq s.ack /\ SameWindow(s, v)

LEMMA HoldsEased ==
    ASSUME NEW e, NEW s, NEW v, NEW l, NEW top, NEW n, Holds(e, s, l, top, n),
           Sound(v), Eased(s, v)
    PROVE  Holds(e, v, l, top, n)
<1>1. SenderEased(s, v) /\ ReceiverEased(s, v) /\ EndEased(s, v)
  BY DEF Eased, SenderEased, ReceiverEased, EndEased, SameWindow
<1>2. EndSound(v, l, top)
  BY <1>1, EndEases DEF Holds
<1>. QED  BY <1>1, <1>2, SenderEases, ReceiverEases DEF Holds

LEMMA HoldsClosed ==
    ASSUME NEW e, NEW s, NEW v, NEW l, NEW top, NEW up, NEW n, Holds(e, s, l, top, n),
           Sound(v), ~v.open, ReceiverEased(s, v), v.next = s.next, v.win = {},
           up \in Int, top <= up
    PROVE  Holds(e, v, l, up, n)
<1>1. EndSound(v, l, up)
  BY EndEases DEF Holds, EndEased, ReceiverEased
<1>. QED  BY <1>1, SenderCloses, ReceiverEases DEF Holds

LEMMA HoldsRestarted ==
    ASSUME LinkInv, NEW e \in End, NEW s, NEW v, NEW l, NEW top, NEW up, NEW n, NEW m,
           Holds(e, s, l, top, n), Sound(v), SenderRestarted(v), v.local \in NewSessions(e),
           l = last[e], ~v.any, v.expect = 1, v.ack = {},
           v.remote # 0 => v.had, ~v.had => v.win = {}, \A w \in v.win : w.item = up,
           \/ up \in Int /\ top <= up /\ m = up /\ v.win = {}
           \/ up = top /\ m = n /\ s.open /\ (v.win = {} <=> s.win = {})
    PROVE  Holds(e, v, l, up, m)
<1>1. New(v.local, st[Peer(e)], Chan(e), Chan(Peer(e))) /\ l.own # v.local
  BY DrawnNew
<1>2. EndSound(v, l, up)
  BY <1>1, EndRestarts
<1>3. Direction(v, st[Peer(e)], Chan(e), Chan(Peer(e)), last[Peer(e)], up, m)
  <2>1. Direction(s, st[Peer(e)], Chan(e), Chan(Peer(e)), last[Peer(e)], top, n)
    BY DEF Holds
  <2>. QED  BY <1>1, <2>1, SenderRestarts
<1>4. Direction(st[Peer(e)], v, Chan(Peer(e)), Chan(e), l, Top(Peer(e)), since[Peer(e)])
  <2>1. st[Peer(e)].remote # v.local
    BY <1>1 DEF New
  <2>. QED  BY <2>1, ReceiverRestarts DEF Holds
<1>. QED  BY <1>2, <1>3, <1>4 DEF Holds

LEMMA HoldsMet ==
    ASSUME NEW e, NEW s, NEW v, NEW l, NEW top, NEW n, Holds(e, s, l, top, n),
           Sound(v), s.open, ~s.had, v.had, v.open, ~v.any, v.expect = 1, v.ack = {},
           v.local = s.local, v.win = s.win, v.next = s.next
    PROVE  Holds(e, v, l, top, n)
<1>1. EndSound(v, l, top)
  BY EndMeets DEF Holds
<1>2. Direction(v, st[Peer(e)], Chan(e), Chan(Peer(e)), last[Peer(e)], top, n)
  BY SenderMeets DEF Holds
<1>3. Direction(st[Peer(e)], v, Chan(Peer(e)), Chan(e), l, Top(Peer(e)), since[Peer(e)])
  BY ReceiverMeets DEF Holds
<1>. QED  BY <1>1, <1>2, <1>3 DEF Holds

LEMMA HoldsAdvanced ==
    ASSUME NEW e, NEW s, NEW v, NEW l, NEW top, NEW n, NEW w, Holds(e, s, l, top, n),
           Sound(v), s.remote # 0, s.win = {}, v.win = {w},
           w.seq = s.next, w.item = top + 1, v.next = NextSeq(s.next),
           v.open = s.open, v.local = s.local, v.remote = s.remote, v.had = s.had,
           v.any = s.any, v.expect = s.expect, v.ack = s.ack
    PROVE  Holds(e, v, l, top + 1, n)
<1>1. s.open /\ s.had
  BY DEF Holds, Sound, EndSound
<1>2. EndSound(v, l, top + 1)
  BY EndAdvances DEF Holds
<1>3. Direction(v, st[Peer(e)], Chan(e), Chan(Peer(e)), last[Peer(e)], top + 1, n)
  BY <1>1, SenderAdvances DEF Holds
<1>4. ReceiverEased(s, v)
  BY DEF ReceiverEased
<1>5. Direction(st[Peer(e)], v, Chan(Peer(e)), Chan(e), l, Top(Peer(e)), since[Peer(e)])
  BY <1>4, ReceiverEases DEF Holds
<1>. QED  BY <1>2, <1>3, <1>5 DEF Holds

\* A frame that arrives is the first of those the peer has sent.
LEMMA HoldsAcknowledged ==
    ASSUME NEW e, NEW s, NEW l, NEW top, NEW n, Holds(e, s, l, top, n), s.open,
           NEW f \in Frame, 1 \in DOMAIN Chan(Peer(e)), f = Chan(Peer(e))[1]
    PROVE  Holds(e, Acknowledged(s, f), l, top, n)
<1>. DEFINE v == Acknowledged(s, f)
            hit == {w \in s.win : [ses |-> s.local, seq |-> w.seq] \in f.ack}
<1>1. Sound(s) /\ Sound(v)
  BY AcknowledgedSound DEF Holds
<1>2. /\ v.open = s.open /\ v.local = s.local /\ v.had = s.had /\ v.next = s.next
      /\ v.any = s.any /\ v.expect = s.expect /\ v.remote = s.remote /\ v.ack = s.ack
      /\ v.win = s.win \ hit
  BY <1>1 DEF Acknowledged, Sound, Stream
<1>3. CASE hit = {}
  <2>1. Eased(s, v)
    BY <1>2, <1>3 DEF Eased, SameWindow
  <2>. QED  BY <1>1, <2>1, HoldsEased
<1>4. ASSUME NEW w \in hit PROVE Holds(e, v, l, top, n)
  <2>1. s.win = {w} /\ [ses |-> s.local, seq |-> w.seq] \in f.ack
    BY <1>1, <1>4 DEF Sound, AtMostOne
  <2>2. v.win = {}
    BY <1>2, <1>4, <2>1
  <2>. HIDE DEF v, hit
  <2>3. EndSound(v, l, top)
    <3>1. EndEased(s, v)
      BY <1>2, <2>2 DEF EndEased
    <3>. QED  BY <3>1, EndEases DEF Holds
  <2>4. Direction(v, st[Peer(e)], Chan(e), Chan(Peer(e)), last[Peer(e)], top, n)
    <3>1. PICK k \in Chan(Peer(e))[1].ack : k = [ses |-> s.local, seq |-> w.seq]
      BY <2>1
    <3>2. k.ses = s.local /\ k.seq = w.seq
      BY <3>1
    <3>. QED  BY <1>1, <1>2, <2>1, <2>2, <3>2, SenderAcknowledged DEF Holds
  <2>5. Direction(st[Peer(e)], v, Chan(Peer(e)), Chan(e), l, Top(Peer(e)), since[Peer(e)])
    <3>1. ReceiverEased(s, v)
      BY <1>2 DEF ReceiverEased
    <3>. QED  BY <1>1, <3>1, ReceiverEases DEF Holds
  <2>. QED  BY <1>1, <2>3, <2>4, <2>5 DEF Holds
<1>. QED  BY <1>3, <1>4

LEMMA HoldsAnswered ==
    ASSUME NEW e, NEW s, NEW l, NEW top, NEW n, Holds(e, s, l, top, n),
           NEW f \in Frame, 1 \in DOMAIN Chan(Peer(e)), f = Chan(Peer(e))[1],
           IsData(f), f.ses = s.remote
    PROVE  Holds(e, Answered(s, f), l, top, n)
<1>. DEFINE v == Answered(s, f)
<1>1. Sound(s) /\ Sound(v) /\ s.remote # 0
  BY AnsweredSound, SessionsNonzero DEF Holds, Frame
<1>2. CASE s.expect = 1 /\ ~s.any
  BY <1>2 DEF Answered
<1>3. CASE ~(s.expect = 1 /\ ~s.any)
  <2>1. s.any /\ s.had
    BY <1>1, <1>3 DEF Holds, EndSound
  <2>2. /\ v.open = s.open /\ v.local = s.local /\ v.had = s.had /\ v.next = s.next
        /\ v.any = s.any /\ v.expect = s.expect /\ v.remote = s.remote /\ v.win = s.win
        /\ v.ack = {[ses |-> s.remote, seq |-> PrevSeq(s.expect)]}
    BY <1>1, <1>3 DEF Answered, Sound, Stream
  <2>. HIDE DEF v
  <2>3. EndSound(v, l, top)
    <3>1. EndEased(s, v)
      BY <2>2 DEF EndEased
    <3>. QED  BY <3>1, EndEases DEF Holds
  <2>4. Direction(v, st[Peer(e)], Chan(e), Chan(Peer(e)), last[Peer(e)], top, n)
    <3>1. SenderEased(s, v)
      BY <2>2 DEF SenderEased, SameWindow
    <3>. QED  BY <1>1, <3>1, SenderEases DEF Holds
  <2>5. Direction(st[Peer(e)], v, Chan(Peer(e)), Chan(e), l, Top(Peer(e)), since[Peer(e)])
    BY <1>1, <2>1, <2>2, ReceiverAnswers DEF Holds
  <2>6. Holds(e, v, l, top, n)
    BY <1>1, <2>3, <2>4, <2>5 DEF Holds
  <2>. QED  BY <2>6 DEF v
<1>. QED  BY <1>2, <1>3

LEMMA HoldsTaken ==
    ASSUME NEW e, NEW s, NEW v, NEW l, NEW m \in Accepted, NEW top, NEW n, Holds(e, s, l, top, n),
           NEW f \in Frame, 1 \in DOMAIN Chan(Peer(e)), f = Chan(Peer(e))[1],
           IsData(f), f.ses = s.remote, f.seq = s.expect,
           m.item = f.item, m.ses = f.ses, m.own = s.local, Sound(v),
           v.open = s.open, v.local = s.local, v.remote = s.remote, v.had = s.had,
           v.any, v.expect = NextSeq(s.expect), v.next = s.next, v.win = s.win, v.ack = s.ack
    PROVE  Holds(e, v, m, top, n)
<1>1. Sound(s) /\ s.remote # 0 /\ s.had
  BY SessionsNonzero DEF Holds, Frame, EndSound
<1>2. EndSound(v, m, top)
  BY <1>1, EndTakes DEF Holds
<1>3. SenderEased(s, v)
  BY DEF SenderEased, SameWindow
<1>4. Direction(v, st[Peer(e)], Chan(e), Chan(Peer(e)), last[Peer(e)], top, n)
  BY <1>3, SenderEases DEF Holds
<1>5. Direction(st[Peer(e)], v, Chan(Peer(e)), Chan(e), m, Top(Peer(e)), since[Peer(e)])
  BY <1>1, ReceiverTakes DEF Holds
<1>. QED  BY <1>2, <1>4, <1>5 DEF Holds
-----------------------------------------------------------------------------
(***************************************************************************)
(* What programs do, and what takes frames away or leaves them as they are.*)
(***************************************************************************)
\* What a step of e leaves alone.
LEMMA OthersKept ==
    ASSUME LinkInv, NEW e \in End,
           \/ Open(e) \/ Close(e) \/ Write(e) \/ Read(e)
           \/ PrepareClose(e) \/ PrepareOpen(e) \/ PeerTimeout(e)
           \/ PrepareData(e) \/ PrepareAck(e) \/ Finish(e) \/ Refused(e) \/ TransportStopped(e)
           \/ Receive(e) \/ Lose(e)
    PROVE  \A x \in End : x # e => /\ st'[x] = st[x] /\ last'[x] = last[x]
                                   /\ wrote'[x] = wrote[x] /\ since'[x] = since[x]
<1>1. \A x \in End : x # e => wrote'[x] = wrote[x] /\ since'[x] = since[x]
  BY DEF LinkInv, Open, Close, Write, Read, PrepareClose, PrepareOpen, PeerTimeout, PrepareData,
         PrepareAck, Prepare, Finish, Refused, TransportStopped, Receive, Lose, ReceiveOpen,
         ReceiveData, ReceiveOther, ReceiveAck, ReceiveClose, ReceiveDropped, FromPeer, Take
<1>. QED  BY <1>1, OneEnd

LEMMA QueueTyped ==
    ASSUME LinkInv, NEW e \in End
    PROVE  /\ st[e] \in Stream /\ Sound(st[e]) /\ st[e].tx \in Nat /\ st[e].tx <= wrote[e]
           /\ wrote[e] \in Nat /\ Top(e) \in Int /\ Top(e) <= wrote[e]
           /\ e \in DOMAIN st /\ e \in DOMAIN wrote /\ e \in DOMAIN since /\ e \in DOMAIN last
           /\ Chan(e) \in Seq(Frame) /\ Chan(Peer(e)) \in Seq(Frame)
<1>1. Chan(e) \in Seq(Frame) /\ Chan(Peer(e)) \in Seq(Frame)
  BY Channels, PeerIsEnd
<1>2. /\ e \in DOMAIN st /\ e \in DOMAIN wrote /\ e \in DOMAIN since /\ e \in DOMAIN last
      /\ st[e] \in Stream /\ Sound(st[e]) /\ st[e].tx <= wrote[e] /\ wrote[e] \in 0..ItemMax
  BY DEF LinkInv
<1>3. st[e].tx \in Nat /\ wrote[e] \in Nat
  BY <1>2, LinkStreamAssumption DEF Stream
<1>. QED  BY <1>1, <1>2, <1>3 DEF Top

\* Nothing changes that counts, and at most frames leave.
LEMMA EasedStep ==
    ASSUME DeliveryInv, LinkInv', NEW e \in End, Eased(st[e], st'[e]), last'[e] = last[e],
           Top(e)' = Top(e), since'[e] = since[e],
           Shrinks(Chan(e), Chan(e)'), Shrinks(Chan(Peer(e)), Chan(Peer(e))'),
           \A x \in End : x # e => /\ st'[x] = st[x] /\ last'[x] = last[x]
                                   /\ wrote'[x] = wrote[x] /\ since'[x] = since[x]
    PROVE  DeliveryInv'
<1>1. Sound(st'[e])
  BY DEF LinkInv
<1>2. Holds(e, st'[e], last[e], Top(e), since[e])
  BY <1>1, Present, HoldsEased
<1>. QED  BY <1>2, Concluded

LEMMA SoundWindow ==
    ASSUME NEW s, Sound(s), NEW v, v.win = {[w EXCEPT !.sent = FALSE] : w \in s.win}
    PROVE  SameWindow(s, v)
<1>1. \A w \in s.win : [w EXCEPT !.sent = FALSE].seq = w.seq /\ [w EXCEPT !.sent = FALSE].item = w.item
  BY DEF Sound, Stream, Slot
<1>. QED  BY <1>1 DEF SameWindow

LEMMA WriteDelivers == ASSUME DeliveryInv, LinkInv', NEW e \in End, Write(e) PROVE DeliveryInv'
<1>1. st'[e] = [st[e] EXCEPT !.tx = @ + 1] /\ wrote'[e] = wrote[e] + 1
      /\ UNCHANGED <<act, net, since, last>>
  BY QueueTyped DEF Write, DeliveryInv
<1>2. Eased(st[e], st'[e]) /\ st'[e].tx = st[e].tx + 1
  BY <1>1, QueueTyped DEF DeliveryInv, Stream, Eased, SameWindow
<1>3. Top(e)' = Top(e)
  BY <1>1, <1>2, QueueTyped DEF DeliveryInv, Top
<1>4. Shrinks(Chan(e), Chan(e)') /\ Shrinks(Chan(Peer(e)), Chan(Peer(e))')
  BY <1>1, ChannelsKept, PeerIsEnd, QueueTyped, SameShrinks DEF DeliveryInv
<1>. QED  BY <1>1, <1>2, <1>3, <1>4, EasedStep, OthersKept DEF DeliveryInv

LEMMA ReadDelivers == ASSUME DeliveryInv, LinkInv', NEW e \in End, Read(e) PROVE DeliveryInv'
<1>1. st'[e] = [st[e] EXCEPT !.rx = @ - 1] /\ UNCHANGED <<act, net, wrote, since, last>>
  BY QueueTyped DEF Read, DeliveryInv
<1>2. Eased(st[e], st'[e]) /\ st'[e].tx = st[e].tx
  BY <1>1, QueueTyped DEF DeliveryInv, Stream, Eased, SameWindow
<1>3. Top(e)' = Top(e)
  BY <1>1, <1>2 DEF Top
<1>4. Shrinks(Chan(e), Chan(e)') /\ Shrinks(Chan(Peer(e)), Chan(Peer(e))')
  BY <1>1, ChannelsKept, PeerIsEnd, QueueTyped, SameShrinks DEF DeliveryInv
<1>. QED  BY <1>1, <1>2, <1>3, <1>4, EasedStep, OthersKept DEF DeliveryInv

LEMMA TransportDelivers ==
    ASSUME DeliveryInv, LinkInv', NEW e \in End, TransportStopped(e) PROVE DeliveryInv'
<1>1. st'[e] = [st[e] EXCEPT !.remote = 0, !.due = TRUE, !.ack = {},
                             !.win = {[w EXCEPT !.sent = FALSE] : w \in @}]
      /\ UNCHANGED <<act, net, wrote, since, last>>
  BY QueueTyped DEF TransportStopped, DeliveryInv, Stream
<1>2. /\ st'[e].open = st[e].open /\ st'[e].local = st[e].local /\ st'[e].had = st[e].had
      /\ st'[e].next = st[e].next /\ st'[e].any = st[e].any /\ st'[e].expect = st[e].expect
      /\ st'[e].remote = 0 /\ st'[e].ack = {} /\ st'[e].tx = st[e].tx
      /\ st'[e].win = {[w EXCEPT !.sent = FALSE] : w \in st[e].win}
  BY <1>1, QueueTyped DEF DeliveryInv, Stream
<1>3. Eased(st[e], st'[e])
  BY <1>2, QueueTyped, SoundWindow DEF DeliveryInv, Eased
<1>4. Top(e)' = Top(e)
  BY <1>1, <1>2 DEF Top
<1>5. Shrinks(Chan(e), Chan(e)') /\ Shrinks(Chan(Peer(e)), Chan(Peer(e))')
  BY <1>1, ChannelsKept, PeerIsEnd, QueueTyped, SameShrinks DEF DeliveryInv
<1>. QED  BY <1>1, <1>3, <1>4, <1>5, EasedStep, OthersKept DEF DeliveryInv

LEMMA SentEased ==
    ASSUME NEW s, Sound(s), NEW f \in Frame
    PROVE  Eased(s, Sent(s, f)) /\ Sent(s, f).tx = s.tx
<1>. DEFINE k == [s EXCEPT !.ack = IF @ = f.ack THEN {} ELSE @]
            mark(w) == [w EXCEPT !.sent = @ \/ w.seq = f.seq]
            win == {mark(w) : w \in s.win}
<1>1. k \in Stream /\ k.win = s.win
  BY DEF Sound, Stream
<1>2. Eased(s, k)
  BY DEF Sound, Stream, Eased, SameWindow
<1>3. \/ Sent(s, f) = [k EXCEPT !.close = 0]
      \/ Sent(s, f) = [k EXCEPT !.due = FALSE]
      \/ Sent(s, f) = [k EXCEPT !.win = win]
      \/ Sent(s, f) = k
  BY <1>1 DEF Sent, Sound, Stream
<1>4. /\ win = {} <=> s.win = {}
      /\ \A x \in win : \E w \in s.win : x.seq = w.seq /\ x.item = w.item
  <2>1. ASSUME NEW w \in s.win PROVE mark(w).seq = w.seq /\ mark(w).item = w.item
    <3>1. w \in Slot
      BY DEF Sound, Stream
    <3>. QED  BY <3>1 DEF Slot
  <2>. HIDE DEF mark
  <2>. QED  BY <2>1
<1>. HIDE DEF k, win
<1>5. Eased(s, Sent(s, f))
  <2>1. CASE Sent(s, f) = [k EXCEPT !.win = win]
    BY <1>1, <1>2, <1>4, <2>1 DEF Eased, SameWindow, Stream
  <2>2. CASE Sent(s, f) = [k EXCEPT !.close = 0] \/ Sent(s, f) = [k EXCEPT !.due = FALSE]
    BY <1>1, <1>2, <2>2 DEF Eased, SameWindow, Stream
  <2>3. CASE Sent(s, f) = k
    BY <1>2, <2>3
  <2>. QED  BY <1>3, <2>1, <2>2, <2>3
<1>. QED  BY <1>5, SentSound

LEMMA FinishDelivers == ASSUME DeliveryInv, LinkInv', NEW e \in End, Finish(e) PROVE DeliveryInv'
<1>1. st'[e] = Sent(st[e], act[e]) /\ act[e] \in Frame /\ UNCHANGED <<wrote, since, last>>
  BY QueueTyped DEF Finish, DeliveryInv, LinkInv
<1>2. Eased(st[e], st'[e]) /\ st'[e].tx = st[e].tx
  BY <1>1, QueueTyped, SentEased DEF DeliveryInv
<1>3. Top(e)' = Top(e)
  BY <1>1, <1>2 DEF Top
<1>4. Shrinks(Chan(e), Chan(e)') /\ Shrinks(Chan(Peer(e)), Chan(Peer(e))')
  BY ChannelsFinished, QueueTyped, SameShrinks DEF DeliveryInv
<1>. QED  BY <1>1, <1>2, <1>3, <1>4, EasedStep, OthersKept DEF DeliveryInv

\* A frame that is refused, lost or dropped.
LEMMA LossDelivers ==
    ASSUME DeliveryInv, LinkInv', NEW e \in End, Refused(e) \/ Lose(e) \/ ReceiveDropped(e)
    PROVE  DeliveryInv'
<1>1. UNCHANGED <<st, wrote, since, last>>
  BY DEF Refused, Lose, ReceiveDropped, Take
<1>2. Eased(st[e], st'[e])
  BY <1>1 DEF Eased, SameWindow
<1>3. Top(e)' = Top(e)
  BY <1>1 DEF Top
<1>4. Shrinks(Chan(e), Chan(e)') /\ Shrinks(Chan(Peer(e)), Chan(Peer(e))')
  BY ChannelsRefused, ChannelsTaken, QueueTyped, SameShrinks DEF DeliveryInv, ReceiveDropped
<1>. QED  BY <1>1, <1>2, <1>3, <1>4, EasedStep

LEMMA CloseDelivers == ASSUME DeliveryInv, LinkInv', NEW e \in End, Close(e) PROVE DeliveryInv'
<1>. DEFINE v == [st[e] EXCEPT !.open = FALSE, !.remote = 0, !.close = st[e].local,
                               !.win = {}, !.tx = 0, !.rx = 0, !.ack = {}]
<1>1. st'[e] = v /\ UNCHANGED <<act, net, wrote, since, last>>
  BY QueueTyped DEF Close, DeliveryInv, Stream
<1>2. /\ ~v.open /\ ReceiverEased(st[e], v) /\ v.next = st[e].next /\ v.win = {} /\ v.tx = 0
  BY QueueTyped DEF DeliveryInv, Stream, ReceiverEased
<1>. HIDE DEF v
<1>3. Sound(v)
  BY <1>1 DEF LinkInv
<1>4. Holds(e, v, last[e], wrote[e], since[e])
  BY <1>2, <1>3, Present, QueueTyped, HoldsClosed DEF DeliveryInv
<1>5. Top(e)' = wrote[e]
  BY <1>1, <1>2, QueueTyped DEF Top, DeliveryInv
<1>6. Shrinks(Chan(e), Chan(e)') /\ Shrinks(Chan(Peer(e)), Chan(Peer(e))')
  BY <1>1, ChannelsKept, PeerIsEnd, QueueTyped, SameShrinks DEF DeliveryInv
<1>. QED  BY <1>1, <1>4, <1>5, <1>6, Concluded, OthersKept DEF DeliveryInv

LEMMA OpenDelivers == ASSUME DeliveryInv, LinkInv', NEW e \in End, Open(e) PROVE DeliveryInv'
<1>. DEFINE c == [st[e] EXCEPT
           !.open = TRUE, !.remote = 0, !.had = FALSE, !.expect = 1, !.any = FALSE,
           !.win = {}, !.tx = 0, !.rx = 0, !.ack = {}, !.close = 0]
<1>1. PICK ses \in NewSessions(e) : st'[e] = Renewed(c, ses)
  BY QueueTyped DEF Open, DeliveryInv
<1>2. UNCHANGED <<act, net, wrote, last>> /\ since'[e] = wrote[e]
  BY QueueTyped DEF Open, DeliveryInv
<1>3. /\ c.open /\ c.remote = 0 /\ ~c.had /\ c.expect = 1 /\ ~c.any /\ c.win = {} /\ c.tx = 0
      /\ c.ack = {} /\ c \in Stream
  <2>1. st[e] \in Stream /\ 0 \in 0..TxMax /\ 0 \in 0..RxMax
    BY LinkStreamAssumption DEF DeliveryInv, LinkInv
  <2>. QED  BY <2>1, NextInSequence DEF Stream
<1>. HIDE DEF c
<1>. DEFINE v == Renewed(c, ses)
<1>4. /\ v.open /\ v.local = ses /\ v.remote = 0 /\ ~v.had /\ v.expect = 1 /\ ~v.any
      /\ v.win = {} /\ v.next = 1 /\ v.tx = 0 /\ v.ack = {}
  BY <1>3 DEF Renewed, Stream
<1>. HIDE DEF v
<1>5. st'[e] = v /\ Sound(v)
  <2>1. st'[e] = v
    BY <1>1 DEF v
  <2>. QED  BY <2>1 DEF LinkInv
<1>6. Holds(e, v, last[e], wrote[e], wrote[e])
  <2>1. SenderRestarted(v)
    BY <1>4 DEF SenderRestarted
  <2>2. Holds(e, st[e], last[e], Top(e), since[e]) /\ wrote[e] \in Int /\ Top(e) <= wrote[e]
    BY Present, QueueTyped DEF DeliveryInv
  <2>. QED  BY <1>4, <1>5, <2>1, <2>2, HoldsRestarted DEF DeliveryInv
<1>7. Top(e)' = wrote[e]
  BY <1>2, <1>4, <1>5, QueueTyped DEF Top, DeliveryInv
<1>8. Shrinks(Chan(e), Chan(e)') /\ Shrinks(Chan(Peer(e)), Chan(Peer(e))')
  BY <1>2, ChannelsKept, PeerIsEnd, QueueTyped, SameShrinks DEF DeliveryInv
<1>. QED  BY <1>2, <1>5, <1>6, <1>7, <1>8, Concluded, OthersKept DEF DeliveryInv
-----------------------------------------------------------------------------
(***************************************************************************)
(* Sending: the frame carries what the stream then holds.                  *)
(***************************************************************************)
\* A frame without data is prepared; it carries the acknowledgement that is pending
\* in the stream as the action leaves it.
LEMMA ControlStep ==
    ASSUME DeliveryInv, LinkInv', NEW e \in End, NEW f \in Frame, Prepare(e, f), ~IsData(f),
           Eased(st[e], st'[e]), st'[e].tx = st[e].tx, f.ack \subseteq st'[e].ack,
           \A x \in End : x # e => st'[x] = st[x]
    PROVE  DeliveryInv'
<1>. DEFINE p == Peer(e)
<1>1. UNCHANGED <<net, wrote, since, last>> /\ p \in End
  BY PeerIsEnd DEF Prepare
<1>2. Holds(e, st'[e], last[e], Top(e), since[e])
  <2>1. Sound(st'[e])
    BY DEF LinkInv
  <2>. QED  BY <2>1, Present, HoldsEased
<1>3. Chan(e)' = Append(Chan(e), f) /\ Chan(p)' = Chan(p)
  BY ChannelsPrepared DEF DeliveryInv
<1>4. Top(e)' = Top(e)
  BY <1>1 DEF Top
<1>5. Direction(st'[e], st[p], Chan(e)', Chan(p)', last[p], Top(e)', since'[e])
  BY <1>1, <1>2, <1>3, <1>4, ControlSent DEF Holds
<1>6. Direction(st[p], st'[e], Chan(p)', Chan(e)', last'[e], Top(p), since[p])
  BY <1>1, <1>2, <1>3, AckSent DEF Holds
<1>7. EndSound(st'[e], last'[e], Top(e)')
  BY <1>1, <1>2, <1>4 DEF Holds
<1>8. p # e /\ p = Peer(e)
  BY TwoEnds
<1>. HIDE DEF p
<1>. QED  BY <1>1, <1>5, <1>6, <1>7, <1>8, Assembled

LEMMA PrepareControlDelivers ==
    ASSUME DeliveryInv, LinkInv', NEW e \in End, PrepareClose(e) \/ PrepareOpen(e) \/ PrepareAck(e)
    PROVE  DeliveryInv'
<1>1. PICK op \in {"open", "close", "ack"}, ses \in Session : Prepare(e, Control(op, ses, st[e].ack))
  BY QueueTyped DEF DeliveryInv, PrepareClose, PrepareOpen, PrepareAck, Connected, Sound, Stream
<1>2. UNCHANGED st
  BY DEF PrepareClose, PrepareOpen, PrepareAck
<1>3. Control(op, ses, st[e].ack) \in Frame
  BY ControlTyped, QueueTyped DEF DeliveryInv, Stream
<1>4. Control(op, ses, st[e].ack).ack = st[e].ack /\ ~IsData(Control(op, ses, st[e].ack))
  BY DEF Control, IsData
<1>5. Eased(st[e], st'[e])
  BY <1>2 DEF Eased, SameWindow
<1>. QED  BY <1>1, <1>2, <1>3, <1>4, <1>5, ControlStep

LEMMA PeerTimeoutDelivers ==
    ASSUME DeliveryInv, LinkInv', NEW e \in End, PeerTimeout(e) PROVE DeliveryInv'
<1>. DEFINE f == Control("open", st[e].local, {})
<1>1. Prepare(e, f) /\ st'[e] = [st[e] EXCEPT !.remote = 0, !.due = TRUE, !.ack = {}]
      /\ \A x \in End : x # e => st'[x] = st[x]
  BY DEF PeerTimeout, DeliveryInv, LinkInv
<1>2. f \in Frame
  <2>1. st[e].local \in Session
    BY QueueTyped DEF PeerTimeout, DeliveryInv, Stream, Sound
  <2>. QED  BY <2>1, ControlTyped DEF DeliveryInv
<1>3. f.ack = {} /\ ~IsData(f)
  BY DEF Control, IsData
<1>. HIDE DEF f
<1>4. Eased(st[e], st'[e]) /\ st'[e].tx = st[e].tx
  BY <1>1, QueueTyped DEF DeliveryInv, Stream, Eased, SameWindow
<1>. QED  BY <1>1, <1>2, <1>3, <1>4, ControlStep

\* The next item of the queue, or the frame in the window again, goes out.
LEMMA PrepareDataDelivers ==
    ASSUME DeliveryInv, LinkInv', NEW e \in End, PrepareData(e) PROVE DeliveryInv'
<1>. DEFINE p == Peer(e)  s == st[e]
<1>1. PICK w \in Window(e) :
        /\ Prepare(e, [op |-> "data", ses |-> st[e].local, seq |-> w.seq,
                       item |-> w.item, ack |-> st[e].ack])
        /\ st' = [st EXCEPT ![e].win = {w},
                            ![e].next = IF st[e].win = {} THEN NextSeq(@) ELSE @,
                            ![e].tx = IF st[e].win = {} THEN @ - 1 ELSE @]
  BY DEF PrepareData
<1>. DEFINE f == [op |-> "data", ses |-> s.local, seq |-> w.seq, item |-> w.item, ack |-> s.ack]
            v == st'[e]
<1>2. /\ s \in Stream /\ Sound(s) /\ s.tx \in Nat /\ s.tx <= wrote[e] /\ wrote[e] \in Nat
      /\ Sound(v) /\ s.remote # 0 /\ s.open /\ s.local \in Session
      /\ Holds(e, s, last[e], Top(e), since[e])
      /\ p \in End /\ p # e
      /\ UNCHANGED <<wrote, since, last>>
  <2>1. s \in Stream /\ Sound(s) /\ s.tx \in Nat /\ s.tx <= wrote[e] /\ wrote[e] \in Nat
    BY QueueTyped DEF DeliveryInv
  <2>2. s.remote # 0 /\ s.open /\ UNCHANGED <<wrote, since, last>>
    BY <1>1 DEF PrepareData, Connected, Prepare
  <2>3. s.local \in Session
    BY <2>1, <2>2 DEF Sound, Stream
  <2>4. Sound(v)
    BY DEF LinkInv
  <2>. QED  BY <2>1, <2>2, <2>3, <2>4, Present, TwoEnds
<1>3. /\ v.win = {w} /\ v.next = (IF s.win = {} THEN NextSeq(s.next) ELSE s.next)
      /\ v.tx = (IF s.win = {} THEN s.tx - 1 ELSE s.tx)
      /\ v.open = s.open /\ v.local = s.local /\ v.remote = s.remote /\ v.had = s.had
      /\ v.any = s.any /\ v.expect = s.expect /\ v.ack = s.ack
      /\ st'[p] = st[p]
  BY <1>1, <1>2 DEF Stream, DeliveryInv, LinkInv
<1>4. f \in Frame /\ IsData(f) /\ f.ses = v.local /\ f.seq = w.seq /\ f.item = w.item /\ f.ack = v.ack
  <2>1. w \in Slot
    BY <1>2, <1>3 DEF Sound, Stream
  <2>2. w.seq \in 0..SeqMax /\ w.item \in 0..ItemMax
    BY <2>1, LinkStreamAssumption DEF Slot, Sequence
  <2>. QED  BY <1>2, <1>3, <2>2 DEF Frame, Stream, IsData
<1>5. Chan(e)' = Append(Chan(e), f) /\ Chan(p)' = Chan(p)
  BY <1>1, <1>4, ChannelsPrepared DEF DeliveryInv
<1>6. Top(e) = wrote[e] - s.tx /\ Top(e)' = wrote[e] - v.tx
  BY <1>2 DEF Top
<1>7. Holds(e, v, last[e], Top(e)', since[e])
  <2>1. CASE s.win = {}
    <3>1. w = [seq |-> s.next, item |-> wrote[e] - s.tx + 1, sent |-> FALSE]
      BY <2>1 DEF Window
    <3>2. w.seq = s.next /\ w.item = Top(e) + 1 /\ Top(e)' = Top(e) + 1
      BY <1>2, <1>3, <1>6, <2>1, <3>1
    <3>. HIDE DEF s, v
    <3>3. v.next = NextSeq(s.next)
      BY <1>3, <2>1
    <3>4. Holds(e, v, last[e], Top(e) + 1, since[e])
      BY <1>2, <1>3, <2>1, <3>2, <3>3, HoldsAdvanced
    <3>. QED  BY <3>2, <3>4
  <2>2. CASE s.win # {}
    <3>1. PICK x \in s.win : w = [x EXCEPT !.sent = FALSE]
      BY <2>2 DEF Window
    <3>2. x \in Slot
      BY <1>2 DEF Stream
    <3>3. w.seq = x.seq /\ w.item = x.item
      BY <3>1, <3>2 DEF Slot
    <3>. HIDE DEF s, v
    <3>4. Eased(s, v)
      BY <1>3, <2>2, <3>3 DEF Eased, SameWindow
    <3>5. Top(e)' = Top(e)
      BY <1>3, <1>6, <2>2
    <3>. QED  BY <1>2, <3>4, <3>5, HoldsEased
  <2>. QED  BY <2>1, <2>2
<1>. HIDE DEF s, f
<1>8. Direction(v, st[p], Chan(e)', Chan(p)', last[p], Top(e)', since[e])
  <2>1. v.open /\ v.had /\ EndSound(v, last[e], Top(e)')
        /\ Direction(v, st[p], Chan(e), Chan(p), last[p], Top(e)', since[e])
    BY <1>2, <1>3, <1>7 DEF Holds, EndSound
  <2>. QED  BY <1>3, <1>4, <1>5, <2>1, DataSent
<1>9. Direction(st[p], v, Chan(p)', Chan(e)', last[e], Top(p), since[p])
  <2>1. Direction(st[p], v, Chan(p), Chan(e), last[e], Top(p), since[p])
    BY <1>7 DEF Holds
  <2>. QED  BY <1>4, <1>5, <2>1, AckSent
<1>10. EndSound(v, last[e], Top(e)') /\ p = Peer(e)
  BY <1>7 DEF Holds
<1>. HIDE DEF p
<1>. QED  BY <1>2, <1>3, <1>8, <1>9, <1>10, Assembled
-----------------------------------------------------------------------------
(***************************************************************************)
(* Receiving: the frame at the front is handled, and then it leaves.       *)
(***************************************************************************)
LEMMA TakenTyped ==
    ASSUME DeliveryInv, NEW e \in End, Take(e)
    PROVE  /\ Arrived(e) \in Frame
           /\ 1 \in DOMAIN Chan(Peer(e)) /\ Arrived(e) = Chan(Peer(e))[1]
           /\ Shrinks(Chan(e), Chan(e)') /\ Shrinks(Chan(Peer(e)), Chan(Peer(e))')
           /\ UNCHANGED <<wrote, since>>
BY TakeTyped, ChannelsTaken, QueueTyped, SameShrinks DEF DeliveryInv

\* What a handler makes of the stream, and the frame leaves the link or does not.
LEMMA ReceivedStep ==
    ASSUME DeliveryInv, LinkInv', NEW e \in End, Receive(e), Take(e), st'[e].tx = st[e].tx,
           Holds(e, st'[e], last'[e], Top(e), since[e])
    PROVE  DeliveryInv'
<1>1. Top(e)' = Top(e) /\ since'[e] = since[e]
  BY TakenTyped DEF Top
<1>. QED  BY <1>1, TakenTyped, Concluded, OthersKept DEF DeliveryInv

LEMMA ReceiveOpenDelivers ==
    ASSUME DeliveryInv, LinkInv', NEW e \in End, ReceiveOpen(e) PROVE DeliveryInv'
<1>. DEFINE s == st[e]  f == Arrived(e)
<1>1. PICK ses \in NewSessions(e) : st'[e] = Acknowledged(Opened(s, f, ses), f)
  BY QueueTyped DEF ReceiveOpen, DeliveryInv
<1>2. /\ Take(e) /\ f \in Frame /\ Sound(s) /\ s.open /\ last' = last /\ ses \in Session
      /\ 1 \in DOMAIN Chan(Peer(e)) /\ f = Chan(Peer(e))[1]
      /\ Holds(e, s, last[e], Top(e), since[e]) /\ f.ses \in Session /\ LinkInv
  BY QueueTyped, TakenTyped, Present, SessionsNonzero DEF ReceiveOpen, DeliveryInv, Frame
<1>. DEFINE o == Opened(s, f, ses)
<1>3. Sound(o) /\ o.tx = s.tx
  BY <1>2, OpenedSound
<1>. HIDE DEF s, f
<1>4. Holds(e, o, last[e], Top(e), since[e]) /\ o.open
  <2>1. CASE f.ses = s.remote
    BY <1>2, <2>1 DEF Opened
  <2>2. CASE f.ses # s.remote /\ (s.remote # 0 \/ s.had)
    <3>. DEFINE q == Renewed(s, ses)
                mark(w) == [w EXCEPT !.seq = 1, !.sent = FALSE]
    <3>1. /\ q.local = ses /\ q.open /\ q \in Stream
          /\ q.win = {mark(w) : w \in s.win}
          /\ q.next = IF s.win = {} THEN 1 ELSE NextSeq(1)
      <4>1. Sound(q)
        BY <1>2, RenewedSound DEF Sound
      <4>. QED  BY <1>2, <4>1 DEF Renewed, Sound, Stream
    <3>2. o = [q EXCEPT !.remote = f.ses, !.had = TRUE, !.expect = 1, !.any = FALSE,
                        !.ack = {}, !.rx = 0, !.due = TRUE]
      BY <2>2 DEF Opened
    <3>. HIDE DEF q, o
    <3>3. /\ o.local = ses /\ o.open /\ o.win = q.win /\ o.next = q.next
          /\ o.remote = f.ses /\ o.had /\ o.expect = 1 /\ ~o.any /\ o.ack = {}
      BY <3>1, <3>2 DEF Stream
    <3>4. /\ \A w \in o.win : w.seq = 1 /\ w.item = Top(e) /\ s.win # {}
          /\ o.win = {} <=> s.win = {}
      <4>1. \A w \in s.win : w \in Slot /\ w.item = Top(e)
        BY <1>2 DEF Sound, Stream, Holds, EndSound
      <4>2. \A w \in s.win : mark(w).seq = 1 /\ mark(w).item = w.item
        BY <4>1 DEF Slot
      <4>. HIDE DEF mark
      <4>. QED  BY <3>1, <3>3, <4>1, <4>2
    <3>5. SenderRestarted(o)
      BY <3>1, <3>3, <3>4 DEF SenderRestarted
    <3>. QED  BY <1>2, <1>3, <3>3, <3>4, <3>5, HoldsRestarted
  <2>3. CASE f.ses # s.remote /\ ~(s.remote # 0 \/ s.had)
    <3>1. o = [s EXCEPT !.remote = f.ses, !.had = TRUE, !.expect = 1, !.any = FALSE,
                        !.ack = {}, !.rx = 0, !.due = TRUE]
      BY <2>3 DEF Opened
    <3>2. /\ o.local = s.local /\ o.open /\ o.win = s.win /\ o.next = s.next
          /\ o.had /\ o.expect = 1 /\ ~o.any /\ o.ack = {}
      BY <1>2, <3>1 DEF Sound, Stream
    <3>. HIDE DEF o
    <3>. QED  BY <1>2, <1>3, <2>3, <3>2, HoldsMet
  <2>. QED  BY <2>1, <2>2, <2>3
<1>5. st'[e] = Acknowledged(o, f)
  BY <1>1
<1>. HIDE DEF o
<1>6. Holds(e, st'[e], last'[e], Top(e), since[e])
  BY <1>2, <1>4, <1>5, HoldsAcknowledged
<1>7. st'[e].tx = st[e].tx
  BY <1>2, <1>3, <1>5, AcknowledgedSound DEF s
<1>. QED  BY <1>2, <1>6, <1>7, ReceivedStep DEF Receive

LEMMA ReceiveDataDelivers ==
    ASSUME DeliveryInv, LinkInv', NEW e \in End, ReceiveData(e) PROVE DeliveryInv'
<1>. DEFINE s == st[e]  f == Arrived(e)
<1>1. /\ Take(e) /\ f \in Frame /\ Sound(s) /\ s.open /\ IsData(f)
      /\ f.ses = s.remote /\ f.seq = s.expect
      /\ 1 \in DOMAIN Chan(Peer(e)) /\ f = Chan(Peer(e))[1]
      /\ Holds(e, s, last[e], Top(e), since[e])
  BY QueueTyped, TakenTyped, Present DEF ReceiveData, FromPeer, DeliveryInv, IsData
<1>2. CASE s.rx < RxMax
  <2>. DEFINE m == [item |-> f.item, ses |-> f.ses, own |-> s.local]
              t == [s EXCEPT !.rx = s.rx + 1, !.expect = NextSeq(s.expect), !.any = TRUE]
              u == Answered(t, f)
  <2>1. st'[e] = Acknowledged(u, f) /\ last'[e] = m
    BY <1>1, <1>2, QueueTyped DEF ReceiveData, Taken, DeliveryInv
  <2>2. m \in Accepted
    BY <1>1 DEF Accepted, Frame, Sound, Stream
  <2>3. /\ t \in Stream /\ t.tx = s.tx /\ t.win = s.win /\ t.open = s.open
        /\ t.local = s.local /\ t.remote = s.remote /\ t.ack = s.ack /\ t.had = s.had
        /\ t.next = s.next /\ t.any /\ t.expect = NextSeq(s.expect)
    <3>1. s.rx + 1 \in 0..RxMax /\ NextSeq(s.expect) \in Sequence
      BY <1>1, <1>2, NextInSequence, LinkStreamAssumption DEF Sound, Stream
    <3>. QED  BY <1>1, <3>1 DEF Sound, Stream
  <2>4. m.item = f.item /\ m.ses = f.ses /\ m.own = s.local
    OBVIOUS
  <2>. HIDE DEF s, f, m, t
  <2>5. Sound(t)
    BY <1>1, <2>3 DEF Sound
  <2>6. Holds(e, t, m, Top(e), since[e])
    BY <1>1, <2>2, <2>3, <2>4, <2>5, HoldsTaken
  <2>7. Holds(e, u, m, Top(e), since[e])
    BY <1>1, <2>3, <2>6, HoldsAnswered
  <2>8. Sound(u) /\ u.tx = s.tx /\ u.open
    <3>1. u.open = t.open
      BY <2>3 DEF Answered, Stream
    <3>. QED  BY <1>1, <2>3, <2>5, <3>1, AnsweredSound
  <2>. HIDE DEF u
  <2>9. Holds(e, st'[e], last'[e], Top(e), since[e])
    BY <1>1, <2>1, <2>7, <2>8, HoldsAcknowledged
  <2>10. st'[e].tx = st[e].tx
    BY <1>1, <2>1, <2>8, AcknowledgedSound DEF s
  <2>. QED  BY <1>1, <2>9, <2>10, ReceivedStep DEF Receive
<1>3. CASE ~(s.rx < RxMax)
  <2>1. st'[e] = Acknowledged(s, f) /\ last'[e] = last[e]
    BY <1>1, <1>3, QueueTyped DEF ReceiveData, DeliveryInv
  <2>. HIDE DEF f
  <2>2. Holds(e, st'[e], last'[e], Top(e), since[e]) /\ st'[e].tx = st[e].tx
    BY <1>1, <2>1, HoldsAcknowledged, AcknowledgedSound
  <2>. QED  BY <1>1, <2>2, ReceivedStep DEF Receive
<1>. QED  BY <1>2, <1>3

LEMMA ReceiveOtherDelivers ==
    ASSUME DeliveryInv, LinkInv', NEW e \in End, ReceiveOther(e) PROVE DeliveryInv'
<1>. DEFINE s == st[e]  f == Arrived(e)  u == Answered(s, f)
<1>1. /\ Take(e) /\ f \in Frame /\ Sound(s) /\ s \in Stream /\ s.open /\ IsData(f)
      /\ f.ses = s.remote /\ 1 \in DOMAIN Chan(Peer(e)) /\ f = Chan(Peer(e))[1]
      /\ Holds(e, s, last[e], Top(e), since[e])
      /\ st'[e] = Acknowledged(u, f) /\ last' = last
  BY QueueTyped, TakenTyped, Present DEF ReceiveOther, FromPeer, DeliveryInv, IsData
<1>. HIDE DEF s, f
<1>2. Holds(e, u, last[e], Top(e), since[e]) /\ Sound(u) /\ u.tx = s.tx
  BY <1>1, HoldsAnswered, AnsweredSound
<1>3. u.open
  BY <1>1 DEF Answered, Stream
<1>. HIDE DEF u
<1>4. Holds(e, st'[e], last'[e], Top(e), since[e])
  BY <1>1, <1>2, <1>3, HoldsAcknowledged
<1>5. st'[e].tx = st[e].tx
  BY <1>1, <1>2, AcknowledgedSound DEF s
<1>. QED  BY <1>1, <1>4, <1>5, ReceivedStep DEF Receive

LEMMA ReceiveAckDelivers ==
    ASSUME DeliveryInv, LinkInv', NEW e \in End, ReceiveAck(e) PROVE DeliveryInv'
<1>1. /\ Take(e) /\ Arrived(e) \in Frame /\ Sound(st[e]) /\ st[e].open
      /\ 1 \in DOMAIN Chan(Peer(e)) /\ Arrived(e) = Chan(Peer(e))[1]
      /\ Holds(e, st[e], last[e], Top(e), since[e])
      /\ st'[e] = Acknowledged(st[e], Arrived(e)) /\ last' = last
  BY QueueTyped, TakenTyped, Present DEF ReceiveAck, FromPeer, DeliveryInv
<1>2. Holds(e, st'[e], last'[e], Top(e), since[e]) /\ st'[e].tx = st[e].tx
  BY <1>1, HoldsAcknowledged, AcknowledgedSound
<1>. QED  BY <1>1, <1>2, ReceivedStep DEF Receive

LEMMA ReceiveCloseDelivers ==
    ASSUME DeliveryInv, LinkInv', NEW e \in End, ReceiveClose(e) PROVE DeliveryInv'
<1>. DEFINE u == Acknowledged(st[e], Arrived(e))
<1>1. /\ Take(e) /\ Arrived(e) \in Frame /\ Sound(st[e]) /\ st[e].open
      /\ 1 \in DOMAIN Chan(Peer(e)) /\ Arrived(e) = Chan(Peer(e))[1]
      /\ Holds(e, st[e], last[e], Top(e), since[e])
      /\ st'[e] = [u EXCEPT !.remote = 0, !.ack = {}, !.rx = 0, !.due = TRUE] /\ last' = last
  BY QueueTyped, TakenTyped, Present DEF ReceiveClose, FromPeer, DeliveryInv
<1>2. Holds(e, u, last[e], Top(e), since[e]) /\ u.tx = st[e].tx /\ u \in Stream
  BY <1>1, HoldsAcknowledged, AcknowledgedSound DEF Sound
<1>. HIDE DEF u
<1>3. Eased(u, st'[e]) /\ st'[e].tx = st[e].tx
  BY <1>1, <1>2 DEF Eased, SameWindow, Stream
<1>4. Sound(st'[e])
  BY DEF LinkInv
<1>5. Holds(e, st'[e], last'[e], Top(e), since[e])
  BY <1>1, <1>2, <1>3, <1>4, HoldsEased
<1>. QED  BY <1>1, <1>3, <1>5, ReceivedStep DEF Receive
-----------------------------------------------------------------------------
(***************************************************************************)
(* The invariant holds at first and is kept by every step.                 *)
(***************************************************************************)
LEMMA InitDelivers == Init => DeliveryInv
<1>. SUFFICES ASSUME Init PROVE DeliveryInv
  OBVIOUS
<1>1. LinkInv
  BY InitTyped
<1>2. ASSUME NEW e \in End
      PROVE  /\ ~st[e].open /\ st[e].remote = 0 /\ ~st[e].had /\ st[e].expect = 1 /\ ~st[e].any
             /\ st[e].next = 1 /\ st[e].win = {} /\ st[e].ack = {} /\ st[e].tx = 0
             /\ last[e].item = 0 /\ wrote[e] = 0 /\ since[e] = 0 /\ Top(e) = 0
             /\ Chan(e) = <<>> /\ Sound(st[e]) /\ last[e] \in Accepted
  BY <1>1, PeerIsEnd DEF Init, Top, Chan, LinkInv, Accepted
<1>3. ASSUME NEW e \in End PROVE EndSound(st[e], last[e], Top(e)) /\ DirectionOf(e)
  <2>. DEFINE s == st[e]  r == st[Peer(e)]  l == last[Peer(e)]
  <2>1. Peer(e) \in End
    BY PeerIsEnd
  <2>2. /\ ~s.open /\ s.remote = 0 /\ ~s.had /\ s.expect = 1 /\ ~s.any /\ s.next = 1
        /\ s.win = {} /\ Sound(s) /\ Sound(r) /\ l \in Accepted /\ l.item = 0 /\ ~r.any
        /\ Chan(e) = <<>> /\ Chan(Peer(e)) = <<>> /\ Top(e) = 0 /\ since[e] = 0
    BY <1>2, <2>1
  <2>3. EndSound(st[e], last[e], Top(e))
    BY <2>2 DEF EndSound
  <2>. HIDE DEF s, r, l
  <2>4. Direction(s, r, <<>>, <<>>, l, 0, 0)
    BY <2>2 DEF Direction, Typed, InOrder, Numbered, Windowed, Acked, Expected, Heard,
                Starting, Knows, Settled
  <2>. QED  BY <2>2, <2>3, <2>4 DEF DirectionOf, s, r, l
<1>. QED  BY <1>1, <1>3 DEF DeliveryInv

LEMMA NextDelivers == DeliveryInv /\ [Next]_linkVars => DeliveryInv'
<1>. SUFFICES ASSUME DeliveryInv, [Next]_linkVars PROVE DeliveryInv'
  OBVIOUS
<1>1. LinkInv'
  BY NextTyped DEF DeliveryInv
<1>2. CASE UNCHANGED linkVars
  BY <1>1, <1>2 DEF linkVars, DeliveryInv, DirectionOf, Chan, Top
<1>3. ASSUME NEW e \in End,
             \/ Open(e) \/ Close(e) \/ Write(e) \/ Read(e)
             \/ PrepareClose(e) \/ PrepareOpen(e) \/ PeerTimeout(e)
             \/ PrepareData(e) \/ PrepareAck(e) \/ Finish(e) \/ Refused(e) \/ TransportStopped(e)
             \/ Receive(e) \/ Lose(e)
      PROVE  DeliveryInv'
  <2>1. CASE Open(e) \/ Close(e) \/ Write(e) \/ Read(e)
    BY <1>1, <2>1, OpenDelivers, CloseDelivers, WriteDelivers, ReadDelivers
  <2>2. CASE PrepareClose(e) \/ PrepareOpen(e) \/ PrepareAck(e) \/ PeerTimeout(e) \/ PrepareData(e)
    BY <1>1, <2>2, PrepareControlDelivers, PeerTimeoutDelivers, PrepareDataDelivers
  <2>3. CASE Finish(e) \/ Refused(e) \/ TransportStopped(e) \/ Lose(e)
    BY <1>1, <2>3, FinishDelivers, LossDelivers, TransportDelivers
  <2>4. CASE Receive(e)
    BY <1>1, <2>4, ReceiveOpenDelivers, ReceiveDataDelivers, ReceiveOtherDelivers,
       ReceiveAckDelivers, ReceiveCloseDelivers, LossDelivers DEF Receive
  <2>. QED  BY <1>3, <2>1, <2>2, <2>3, <2>4
<1>. QED  BY <1>2, <1>3 DEF Next

LEMMA AlwaysDelivers == Spec => []DeliveryInv
BY InitDelivers, NextDelivers, PTL DEF Spec
-----------------------------------------------------------------------------
(***************************************************************************)
(* What it is all for.                                                     *)
(***************************************************************************)
\* An item leaves the window of its sender only when the other end has accepted it,
\* whatever sessions either end has gone through, for any space of sequence numbers:
\* an acknowledgement never counts for a frame it was not made for.
THEOREM AcknowledgedItemsArrived == Spec => []AckedWasAccepted
<1>1. DeliveryInv => AckedWasAccepted
  <2>. SUFFICES ASSUME DeliveryInv, NEW e \in End, st[e].open, LastDone(e) > since[e]
                PROVE  last[Peer(e)].item >= LastDone(e)
    BY DEF AckedWasAccepted
  <2>1. LastDone(e) = Done(st[e], Top(e))
    <3>1. CASE st[e].win = {}
      <4>1. Top(e) \in Int
        BY QueueTyped DEF DeliveryInv
      <4>. QED  BY <3>1, <4>1 DEF LastDone, Done, Top
    <3>2. CASE st[e].win # {}
      <4>1. \A w \in st[e].win : w.item = Top(e)
        BY DEF DeliveryInv, EndSound
      <4>. QED  BY <3>2, <4>1 DEF LastDone, Done
    <3>. QED  BY <3>1, <3>2
  <2>. QED  BY <2>1 DEF DeliveryInv, DirectionOf, Direction, Settled
<1>. QED  BY <1>1, AlwaysDelivers, PTL

\* Two ends that know the current session of each other agree on the frame in a
\* window: it is the one the other end expects, or the one it has accepted last.
THEOREM WindowsAreAligned == Spec => []WindowAligned
<1>1. DeliveryInv => WindowAligned
  <2>. SUFFICES ASSUME DeliveryInv, NEW e \in End, Agree(e), Agree(Peer(e)),
                       NEW w \in st[Peer(e)].win
                PROVE  \/ w.seq = st[e].expect /\ w.item >= last[e].item
                       \/ /\ w.seq = PrevSeq(st[e].expect)
                          /\ last[e] = [item |-> w.item, ses |-> st[e].remote,
                                        own |-> st[e].local]
    BY DEF WindowAligned
  <2>. DEFINE s == st[Peer(e)]  r == st[e]  l == last[e]
  <2>1. /\ Peer(e) \in End /\ Peer(Peer(e)) = e
        /\ Sound(s) /\ Sound(r) /\ l \in Accepted
    BY TwoEnds DEF DeliveryInv, LinkInv, Accepted
  <2>2. /\ Direction(s, r, Chan(Peer(e)), Chan(e), l, Top(Peer(e)), since[Peer(e)])
        /\ EndSound(r, l, Top(e)) /\ EndSound(s, last[Peer(e)], Top(Peer(e)))
    BY <2>1 DEF DeliveryInv, DirectionOf
  <2>3. Heard(s, r) /\ Knows(s, r) /\ r.remote # 0
    BY <2>1, SoundFields DEF Agree, Heard, Knows
  <2>4. w.seq \in Sequence /\ w.item \in Int /\ l.item \in Int
    BY <2>1, SoundFields, LinkStreamAssumption DEF Accepted
  <2>. HIDE DEF s, r, l
  <2>5. w \in s.win
    BY DEF s
  <2>6. CASE r.any
    <3>1. \/ r.expect = w.seq /\ l.item < w.item
          \/ r.expect = NextSeq(w.seq) /\ l.item = w.item
      BY <2>2, <2>3, <2>5, <2>6 DEF Direction, Expected, Aligned
    <3>2. l.ses = r.remote /\ l.own = r.local
      BY <2>2, <2>3, <2>6 DEF EndSound
    <3>3. CASE r.expect = w.seq /\ l.item < w.item
      BY <2>4, <3>3 DEF r, l
    <3>4. CASE r.expect = NextSeq(w.seq) /\ l.item = w.item
      <4>1. PrevSeq(r.expect) = w.seq
        BY <2>4, <3>4, Numbers
      <4>2. l = [item |-> w.item, ses |-> r.remote, own |-> r.local]
        BY <2>1, <3>2, <3>4 DEF Accepted
      <4>. QED  BY <4>1, <4>2 DEF r, l
    <3>. QED  BY <3>1, <3>3, <3>4
  <2>7. CASE ~r.any
    <3>1. r.expect = 1 /\ w.item = Top(Peer(e))
      BY <2>2, <2>5, <2>7 DEF EndSound
    <3>2. w.seq = 1
      BY <2>2, <2>3, <2>5, <2>7 DEF Direction, Starting, AtStart
    <3>3. l.item <= Top(Peer(e))
      BY <2>2 DEF Direction, InOrder
    <3>4. w.seq = r.expect /\ w.item >= l.item
      BY <2>4, <3>1, <3>2, <3>3
    <3>. QED  BY <3>4 DEF r, l
  <2>. QED  BY <2>6, <2>7
<1>. QED  BY <1>1, AlwaysDelivers, PTL

LEMMA AcceptsData ==
    ASSUME DeliveryInv, [Next]_linkVars, NEW e \in End, Accepts(e)
    PROVE  /\ ReceiveData(e) /\ st[e].rx < RxMax
<1>1. st[e].rx \in Int /\ Sound(st[e]) /\ e \in DOMAIN st
  BY LinkStreamAssumption DEF DeliveryInv, LinkInv, Stream
<1>2. st'[e].rx # st[e].rx /\ ~(st'[e].rx <= st[e].rx)
  <2>1. Sound(st'[e])
    BY NextTyped DEF DeliveryInv, LinkInv
  <2>2. st'[e].rx \in Int
    BY <2>1, LinkStreamAssumption DEF Sound, Stream
  <2>. QED  BY <1>1, <2>2 DEF Accepts
<1>3. PICK x \in End :
             \/ Open(x) \/ Close(x) \/ Write(x) \/ Read(x)
             \/ PrepareClose(x) \/ PrepareOpen(x) \/ PeerTimeout(x)
             \/ PrepareData(x) \/ PrepareAck(x) \/ Finish(x) \/ Refused(x) \/ TransportStopped(x)
             \/ Receive(x) \/ Lose(x)
  BY <1>2 DEF Next, linkVars
<1>4. x = e
  BY <1>2, <1>3, OneEnd DEF DeliveryInv
<1>5. Receive(e)
  <2>1. CASE Open(e)
    <3>. DEFINE c == [st[e] EXCEPT
               !.open = TRUE, !.remote = 0, !.had = FALSE, !.expect = 1, !.any = FALSE,
               !.win = {}, !.tx = 0, !.rx = 0, !.ack = {}, !.close = 0]
    <3>1. PICK ses \in NewSessions(e) : st'[e] = Renewed(c, ses)
      BY <1>1, <2>1 DEF Open
    <3>2. Renewed(c, ses).rx = 0
      BY <1>1 DEF Renewed, Sound, Stream
    <3>3. st[e].rx >= 0
      BY <1>1 DEF Sound, Stream
    <3>. QED  BY <1>1, <1>2, <3>1, <3>2, <3>3
  <2>2. CASE Close(e)
    <3>1. st'[e].rx = 0
      BY <1>1, <2>2 DEF Close, Sound, Stream
    <3>2. st[e].rx >= 0
      BY <1>1 DEF Sound, Stream
    <3>. QED  BY <1>1, <1>2, <3>1, <3>2
  <2>3. CASE Read(e)
    <3>1. st'[e].rx = st[e].rx - 1
      BY <1>1, <2>3 DEF Read, Sound, Stream
    <3>. QED  BY <1>1, <1>2, <3>1
  <2>4. CASE Write(e)
    BY <1>1, <1>2, <2>4 DEF Write, Sound, Stream
  <2>5. CASE PrepareData(e)
    <3>1. PICK w \in Window(e) :
            st' = [st EXCEPT ![e].win = {w},
                             ![e].next = IF st[e].win = {} THEN NextSeq(@) ELSE @,
                             ![e].tx = IF st[e].win = {} THEN @ - 1 ELSE @]
      BY <2>5 DEF PrepareData
    <3>. QED  BY <1>1, <1>2, <3>1 DEF Sound, Stream
  <2>6. CASE PeerTimeout(e) \/ TransportStopped(e)
    <3>1. CASE PeerTimeout(e)
      BY <1>1, <1>2, <3>1 DEF PeerTimeout, Sound, Stream
    <3>2. CASE TransportStopped(e)
      BY <1>1, <1>2, <3>2 DEF TransportStopped, Sound, Stream
    <3>. QED  BY <2>6, <3>1, <3>2
  <2>7. CASE Finish(e)
    <3>1. act[e] \in Frame /\ st'[e] = Sent(st[e], act[e])
      BY <1>1, <2>7 DEF Finish, DeliveryInv, LinkInv
    <3>. QED  BY <1>1, <1>2, <3>1, SentKeeps
  <2>8. CASE PrepareClose(e) \/ PrepareOpen(e) \/ PrepareAck(e) \/ Refused(e) \/ Lose(e)
    BY <1>2, <2>8 DEF PrepareClose, PrepareOpen, PrepareAck, Refused, Lose
  <2>. QED  BY <1>3, <1>4, <2>1, <2>2, <2>3, <2>4, <2>5, <2>6, <2>7, <2>8
<1>6. Take(e) /\ Arrived(e) \in Frame
  BY <1>5, TakeTyped DEF DeliveryInv, Receive, ReceiveOpen, ReceiveData, ReceiveOther,
                         ReceiveAck, ReceiveClose, ReceiveDropped, FromPeer
<1>7. ReceiveData(e)
  <2>1. CASE ReceiveOpen(e)
    <3>1. PICK ses \in NewSessions(e) :
            st'[e] = Acknowledged(Opened(st[e], Arrived(e), ses), Arrived(e))
      BY <1>1, <2>1 DEF ReceiveOpen
    <3>. DEFINE o == Opened(st[e], Arrived(e), ses)
    <3>2. Sound(o) /\ (o.rx = 0 \/ o = st[e])
      BY <1>1, <1>6, <2>1, OpenedSound, SessionsNonzero DEF ReceiveOpen
    <3>. HIDE DEF o
    <3>3. st'[e].rx = o.rx
      BY <1>6, <3>1, <3>2, AcknowledgedSound DEF o
    <3>4. st[e].rx >= 0
      BY <1>1 DEF Sound, Stream
    <3>. QED  BY <1>1, <1>2, <3>2, <3>3, <3>4
  <2>2. CASE ReceiveOther(e)
    <3>1. Sound(Answered(st[e], Arrived(e)))
      BY <1>1, <1>6, AnsweredSound
    <3>2. Answered(st[e], Arrived(e)).rx = st[e].rx
      BY <1>1 DEF Answered, Sound, Stream
    <3>3. st'[e] = Acknowledged(Answered(st[e], Arrived(e)), Arrived(e))
      BY <1>1, <2>2 DEF ReceiveOther
    <3>. QED  BY <1>2, <1>6, <3>1, <3>2, <3>3, AcknowledgedSound
  <2>3. CASE ReceiveAck(e)
    <3>1. st'[e] = Acknowledged(st[e], Arrived(e))
      BY <1>1, <2>3 DEF ReceiveAck
    <3>. QED  BY <1>1, <1>2, <1>6, <3>1, AcknowledgedSound
  <2>4. CASE ReceiveClose(e)
    <3>. DEFINE k == Acknowledged(st[e], Arrived(e))
    <3>1. k \in Stream
      BY <1>1, <1>6, AcknowledgedSound DEF Sound
    <3>2. st'[e] = [k EXCEPT !.remote = 0, !.ack = {}, !.rx = 0, !.due = TRUE]
      BY <1>1, <2>4 DEF ReceiveClose
    <3>. HIDE DEF k
    <3>3. st'[e].rx = 0 /\ st[e].rx >= 0
      BY <1>1, <3>1, <3>2 DEF Sound, Stream
    <3>. QED  BY <1>1, <1>2, <3>3
  <2>5. CASE ReceiveDropped(e)
    BY <1>2, <2>5 DEF ReceiveDropped
  <2>. QED  BY <1>5, <2>1, <2>2, <2>3, <2>4, <2>5 DEF Receive
<1>8. st[e].rx < RxMax
  <2>. SUFFICES ASSUME ~(st[e].rx < RxMax) PROVE FALSE
    OBVIOUS
  <2>1. st'[e] = Acknowledged(st[e], Arrived(e))
    BY <1>1, <1>7 DEF ReceiveData
  <2>. QED  BY <1>1, <1>2, <1>6, <2>1, AcknowledgedSound
<1>. QED  BY <1>7, <1>8

\* An accepted item is newer than the last one, or the same one in another epoch,
\* and only items of a port that was closed are passed over.
ItemAccepted(e) ==
    Accepts(e) =>
        /\ \/ last'[e].item > last[e].item
           \/ last'[e].item = last[e].item /\ Epoch(last'[e]) # Epoch(last[e])
        /\ \A i \in last[e].item + 1 .. last'[e].item - 1 : i <= since[Peer(e)]

LEMMA AcceptedInOrder ==
    ASSUME DeliveryInv, [Next]_linkVars, NEW e \in End
    PROVE  ItemAccepted(e)
<1>. SUFFICES ASSUME Accepts(e) PROVE ItemAccepted(e)
  BY DEF ItemAccepted
<1>. DEFINE r == st[e]  l == last[e]  f == Arrived(e)  c == Chan(Peer(e))
            top == Top(Peer(e))  n == since[Peer(e)]
<1>1. ReceiveData(e) /\ r.rx < RxMax
  BY AcceptsData
<1>2. /\ Take(e) /\ r.open /\ IsData(f) /\ f.ses = r.remote /\ f.seq = r.expect
      /\ f \in Frame /\ 1 \in DOMAIN c /\ f = c[1]
      /\ Sound(r) /\ l \in Accepted
  BY <1>1, TakenTyped DEF ReceiveData, FromPeer, IsData, DeliveryInv, LinkInv, Accepted
<1>3. last'[e] = [item |-> f.item, ses |-> f.ses, own |-> r.local]
  BY <1>1 DEF ReceiveData, DeliveryInv, LinkInv
<1>4. /\ Direction(st[Peer(e)], r, c, Chan(e), l, top, n)
      /\ EndSound(r, l, Top(e))
  BY TwoEnds DEF DeliveryInv, DirectionOf
<1>5. n \in Int /\ l.item \in Int /\ f.item \in Int /\ f.ses # 0 /\ r.expect \in Sequence
  BY <1>2, <1>4, SoundFields, SessionsNonzero, LinkStreamAssumption
     DEF Direction, Typed, Accepted, Frame
<1>6. last'[e].item = f.item /\ Epoch(last'[e]) = <<f.ses, r.local>> /\ Epoch(l) = <<l.ses, l.own>>
  BY <1>3 DEF Epoch
<1>. HIDE DEF r, l, f, c, top, n
<1>7. l.item <= f.item /\ (f.item - 1 <= n \/ f.item - 1 <= l.item)
  BY <1>2, <1>4 DEF Direction, InOrder
<1>8. ASSUME f.item = l.item PROVE <<f.ses, r.local>> # <<l.ses, l.own>>
  <2>1. CASE r.any
    <3>1. f.seq = PrevSeq(r.expect)
      BY <1>2, <1>4, <1>8, <2>1 DEF Direction, Numbered
    <3>. QED  BY <1>2, <1>5, <3>1, Numbers
  <2>2. CASE ~r.any
    BY <1>2, <1>4, <1>5, <2>2 DEF EndSound
  <2>. QED  BY <2>1, <2>2
<1>9. \A i \in l.item + 1 .. f.item - 1 : i <= n
  BY <1>5, <1>7
<1>. QED  BY <1>5, <1>6, <1>7, <1>8, <1>9 DEF ItemAccepted, l, n

\* Items are accepted in the order they were written, once per epoch, and none is
\* passed over unless its port was closed: whatever the link loses or repeats, the
\* reader sees the bytes of the writer as they were written.
THEOREM ItemsInOrderOnce == Spec => InOrderOnce
<1>1. DeliveryInv /\ [Next]_linkVars => [\A e \in End : ItemAccepted(e)]_linkVars
  BY AcceptedInOrder
<1>2. Spec => [][\A e \in End : ItemAccepted(e)]_linkVars
  BY <1>1, AlwaysDelivers, PTL DEF Spec
<1>. QED  BY <1>2 DEF InOrderOnce, ItemAccepted
=============================================================================
