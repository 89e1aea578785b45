----------------------------- MODULE JobsProofs -----------------------------
(***************************************************************************)
(* Proofs about the job registry: type correctness, the ownership of       *)
(* lifecycle_busy, the mutual exclusion of a job's lifecycle callbacks and *)
(* the agreement of the waiting state with the pending start record, for   *)
(* any number of jobs, client tasks, records and calls.                    *)
(***************************************************************************)
EXTENDS Jobs, TLAPS

-----------------------------------------------------------------------------
(* The inductive invariant.  BusyOwned is not inductive by itself: that a  *)
(* transition may clear the flag it set rests on the generation it         *)
(* recorded still being current, and that a deferred stop is picked up     *)
(* rests on the callback reference still being held.                       *)

\* A job's tick callback is referenced exactly while the main task runs it.
CallbackRefs ==
    /\ \A j \in Job :
          /\ refs[j] = IF tpc = "callback" /\ tick.job = j THEN 1 ELSE 0
          /\ refs[j] # 0 => cbTask[j] = Main
          /\ stopAfter[j] => /\ tpc = "callback" /\ tick.job = j
                             /\ state[j] = "stopped"
    /\ pc[Main] # "idle" => tpc \in {"idle", "callback"}

\* A transition in flight holds the current generation of its job.
OwnersCurrent ==
    /\ \A t \in Task : pc[t] \in ReservedPc =>
          /\ frame[t].gen = gen[frame[t].job]
          /\ state[frame[t].job] = "stopped"
    /\ tpc \in {"deferred_stopping", "deferred_commit"} =>
          /\ tick.gen = gen[tick.job]
          /\ state[tick.job] = "stopped"
    /\ tpc \in {"retry_starting", "retry_commit"} =>
          /\ tick.gen = gen[tick.job]
          /\ state[tick.job] = "waiting"
          /\ pending[tick.job] = tick.pend

\* Past its poll loop a call relies on there being no tick callback.
OwnersDrained ==
    \A t \in Task : pc[t] \in ReservedPc \ {"start_drain", "stop_drain"}
        => refs[frame[t].job] = 0

\* Only a published start that did not run out of memory has a worker.
NewRecords ==
    \A t \in Task :
        /\ pc[t] = "start_publish" => frame[t].new # NoRec
        /\ pc[t] = "start_starting" => frame[t].new = NoRec
        /\ pc[t] = "start_commit" =>
              (frame[t].new # NoRec => frame[t].ret = "no_mem")

\* The current incarnation of job j has a worker that has not reported yet.
CurrentWorker(j) == <<j, gen[j]>> \in workers \cup reporting

\* A start of job j returned ESP_OK and has not been committed.
Launching(t, j) ==
    pc[t] = "start_commit" /\ frame[t].job = j /\ frame[t].ret = "ok"
TickLaunching(j) ==
    tpc = "retry_commit" /\ tick.job = j /\ tick.ret = "ok"

WorkersStarted ==
    /\ \A w \in workers \cup reporting : w[2] <= gen[w[1]]
    /\ \A j \in Job : CurrentWorker(j) =>
          IF busy[j]
          THEN (\E t \in Task : Launching(t, j)) \/ TickLaunching(j)
          ELSE state[j] # "waiting"

IInv == /\ TypeOK
        /\ BusyOwned
        /\ CallbackRefs
        /\ OwnersCurrent
        /\ OwnersDrained
        /\ NewRecords
        /\ PendingMatchesWaiting
        /\ WorkersStarted

-----------------------------------------------------------------------------
(* How a step may move the ownership of lifecycle_busy.                    *)

\* An API call takes a job that was not busy.
ApiTakes(t, j) ==
    /\ ~busy[j]
    /\ busy' = [busy EXCEPT ![j] = TRUE]
    /\ stopAfter' = stopAfter
    /\ \A u \in Task, k \in Job :
          Reserved(u, k)' <=> Reserved(u, k) \/ (u = t /\ k = j)
    /\ \A k \in Job : TickReserved(k)' <=> TickReserved(k)

\* An API call gives its job back.
ApiGives(t, j) ==
    /\ Reserved(t, j)
    /\ busy' = [busy EXCEPT ![j] = FALSE]
    /\ stopAfter' = stopAfter
    /\ \A u \in Task, k \in Job :
          Reserved(u, k)' <=> Reserved(u, k) /\ ~(u = t /\ k = j)
    /\ \A k \in Job : TickReserved(k)' <=> TickReserved(k)

\* The tick takes a job that was not busy.
TickTakes(j) ==
    /\ ~busy[j]
    /\ busy' = [busy EXCEPT ![j] = TRUE]
    /\ stopAfter' = stopAfter
    /\ \A u \in Task, k \in Job : Reserved(u, k)' <=> Reserved(u, k)
    /\ \A k \in Job : TickReserved(k)' <=> TickReserved(k) \/ k = j

\* The tick gives its job back.
TickGives(j) ==
    /\ TickReserved(j)
    /\ busy' = [busy EXCEPT ![j] = FALSE]
    /\ stopAfter' = stopAfter
    /\ \A u \in Task, k \in Job : Reserved(u, k)' <=> Reserved(u, k)
    /\ \A k \in Job : TickReserved(k)' <=> TickReserved(k) /\ k # j

\* A callback stops its own job: the end of the callback owns the stop.
Defers(j) ==
    /\ ~busy[j]
    /\ busy' = [busy EXCEPT ![j] = TRUE]
    /\ stopAfter' = [stopAfter EXCEPT ![j] = TRUE]
    /\ \A u \in Task, k \in Job : Reserved(u, k)' <=> Reserved(u, k)
    /\ \A k \in Job : TickReserved(k)' <=> TickReserved(k)

\* The callback has ended: the tick owns the stop.
TickPicksUp(j) ==
    /\ stopAfter[j]
    /\ busy' = busy
    /\ stopAfter' = [stopAfter EXCEPT ![j] = FALSE]
    /\ \A u \in Task, k \in Job : Reserved(u, k)' <=> Reserved(u, k)
    /\ \A k \in Job : TickReserved(k)' <=> TickReserved(k) \/ k = j

LEMMA BusyKept ==
    ASSUME BusyOwned, busy' = busy, stopAfter' = stopAfter,
           \A u \in Task, k \in Job : Reserved(u, k)' <=> Reserved(u, k),
           \A k \in Job : TickReserved(k)' <=> TickReserved(k)
    PROVE  BusyOwned'
  BY DEF BusyOwned, OwnedOnce

LEMMA BusyApiTakes ==
    ASSUME BusyOwned, busy \in [Job -> BOOLEAN], stopAfter \in [Job -> BOOLEAN],
           NEW t \in Task, NEW j \in Job, ApiTakes(t, j)
    PROVE  BusyOwned'
<1> SUFFICES ASSUME NEW k \in Job PROVE OwnedOnce(k)'
    BY DEF BusyOwned
<1>1. OwnedOnce(k)
    BY DEF BusyOwned
<1>2. CASE k = j
    BY <1>1, <1>2 DEF OwnedOnce, ApiTakes
<1>3. CASE k # j
    BY <1>1, <1>3 DEF OwnedOnce, ApiTakes
<1> QED BY <1>2, <1>3

LEMMA BusyApiGives ==
    ASSUME BusyOwned, busy \in [Job -> BOOLEAN], stopAfter \in [Job -> BOOLEAN],
           NEW t \in Task, NEW j \in Job, ApiGives(t, j)
    PROVE  BusyOwned'
<1> SUFFICES ASSUME NEW k \in Job PROVE OwnedOnce(k)'
    BY DEF BusyOwned
<1>1. OwnedOnce(k)
    BY DEF BusyOwned
<1>2. CASE k = j
    BY <1>1, <1>2 DEF OwnedOnce, ApiGives
<1>3. CASE k # j
    BY <1>1, <1>3 DEF OwnedOnce, ApiGives
<1> QED BY <1>2, <1>3

LEMMA BusyTickTakes ==
    ASSUME BusyOwned, busy \in [Job -> BOOLEAN], stopAfter \in [Job -> BOOLEAN],
           NEW j \in Job, TickTakes(j)
    PROVE  BusyOwned'
<1> SUFFICES ASSUME NEW k \in Job PROVE OwnedOnce(k)'
    BY DEF BusyOwned
<1>1. OwnedOnce(k)
    BY DEF BusyOwned
<1>2. CASE k = j
    BY <1>1, <1>2 DEF OwnedOnce, TickTakes
<1>3. CASE k # j
    BY <1>1, <1>3 DEF OwnedOnce, TickTakes
<1> QED BY <1>2, <1>3

LEMMA BusyTickGives ==
    ASSUME BusyOwned, busy \in [Job -> BOOLEAN], stopAfter \in [Job -> BOOLEAN],
           NEW j \in Job, TickGives(j)
    PROVE  BusyOwned'
<1> SUFFICES ASSUME NEW k \in Job PROVE OwnedOnce(k)'
    BY DEF BusyOwned
<1>1. OwnedOnce(k)
    BY DEF BusyOwned
<1>2. CASE k = j
    BY <1>1, <1>2 DEF OwnedOnce, TickGives
<1>3. CASE k # j
    BY <1>1, <1>3 DEF OwnedOnce, TickGives
<1> QED BY <1>2, <1>3

LEMMA BusyDefers ==
    ASSUME BusyOwned, busy \in [Job -> BOOLEAN], stopAfter \in [Job -> BOOLEAN],
           NEW j \in Job, Defers(j)
    PROVE  BusyOwned'
<1> SUFFICES ASSUME NEW k \in Job PROVE OwnedOnce(k)'
    BY DEF BusyOwned
<1>1. OwnedOnce(k)
    BY DEF BusyOwned
<1>2. CASE k = j
    BY <1>1, <1>2 DEF OwnedOnce, Defers
<1>3. CASE k # j
    BY <1>1, <1>3 DEF OwnedOnce, Defers
<1> QED BY <1>2, <1>3

LEMMA BusyTickPicksUp ==
    ASSUME BusyOwned, busy \in [Job -> BOOLEAN], stopAfter \in [Job -> BOOLEAN],
           NEW j \in Job, TickPicksUp(j)
    PROVE  BusyOwned'
<1> SUFFICES ASSUME NEW k \in Job PROVE OwnedOnce(k)'
    BY DEF BusyOwned
<1>1. OwnedOnce(k)
    BY DEF BusyOwned
<1>2. CASE k = j
    BY <1>1, <1>2 DEF OwnedOnce, TickPicksUp
<1>3. CASE k # j
    BY <1>1, <1>3 DEF OwnedOnce, TickPicksUp
<1> QED BY <1>2, <1>3

-----------------------------------------------------------------------------
(* How a step may leave the workers.                                       *)

\* No worker appears, no generation or flag moves, and no launch is forgotten.
LEMMA WorkersKept ==
    ASSUME WorkersStarted, gen' = gen, busy' = busy,
           workers' \cup reporting' \subseteq workers \cup reporting,
           \A k \in Job : state'[k] = "waiting" => state[k] = "waiting",
           \A u \in Task, k \in Job : Launching(u, k) => Launching(u, k)',
           \A k \in Job : TickLaunching(k) => TickLaunching(k)'
    PROVE  WorkersStarted'
  BY DEF WorkersStarted, CurrentWorker

\* Job j enters a new incarnation: none of its workers is current.
LEMMA WorkersRenewed ==
    ASSUME WorkersStarted, NEW j \in Job, gen \in [Job -> Nat],
           workers \subseteq Job \X Nat, reporting \subseteq Job \X Nat,
           gen' = [gen EXCEPT ![j] = @ + 1],
           workers' = workers, reporting' = reporting,
           \A k \in Job \ {j} : state'[k] = state[k] /\ busy'[k] = busy[k],
           \A u \in Task, k \in Job : Launching(u, k) => Launching(u, k)',
           \A k \in Job : TickLaunching(k) => TickLaunching(k)'
    PROVE  WorkersStarted'
<1>1. \A w \in workers \cup reporting : w[2] <= gen'[w[1]]
    BY DEF WorkersStarted
<1>2. ~CurrentWorker(j)'
    BY DEF WorkersStarted, CurrentWorker
<1>3. ASSUME NEW k \in Job, k # j, CurrentWorker(k)'
      PROVE  IF busy'[k]
             THEN (\E u \in Task : Launching(u, k)') \/ TickLaunching(k)'
             ELSE state'[k] # "waiting"
  <2>1. CurrentWorker(k)
    BY <1>3 DEF CurrentWorker
  <2> QED BY <1>3, <2>1 DEF WorkersStarted
<1> QED BY <1>1, <1>2, <1>3 DEF WorkersStarted

-----------------------------------------------------------------------------
(* Every action preserves the invariant.                                   *)

LEMMA FirstJob == 1 \in Job
  BY JobsAssumption DEF Job

LEMMA NextJob ==
    ASSUME NEW j \in Job, j < NumJobs
    PROVE  j + 1 \in Job
  BY JobsAssumption DEF Job

LEMMA StartCallStep ==
    ASSUME IInv, NEW t \in Task, NEW j \in Job, StartCall(t, j)
    PROVE  IInv'
<1> USE DEF StartCall, CanCall, Goto, runtime
<1>t. frame[t] \in Frame /\ frame[t].job \in Job /\ tick \in TickFrame /\ tick.job \in Job
    BY DEF IInv, TypeOK, Frame, TickFrame
<1>1. TypeOK'
  <2>1. pc' \in [Task -> ApiPc]
    BY DEF IInv, TypeOK, ApiPc, ReservedPc
  <2>2. frame' \in [Task -> Frame]
    <3>1. PICK r \in Rec \cup {NoRec} : frame' = [frame EXCEPT ![t].job = j, ![t].new = r]
      OBVIOUS
    <3> QED BY <3>1, <1>t DEF IInv, TypeOK, Frame
  <2>3. live' \subseteq Rec /\ calls' \in Nat
    BY DEF IInv, TypeOK
  <2> QED BY <2>1, <2>2, <2>3 DEF IInv, TypeOK, runtime
<1>2. \A u \in Task, k \in Job : Reserved(u, k)' <=> Reserved(u, k)
    BY <1>t DEF IInv, TypeOK, Reserved, ReservedPc, Frame
<1>3. \A k \in Job : TickReserved(k)' <=> TickReserved(k)
    BY DEF TickReserved
<1>4. BusyOwned'
    BY <1>2, <1>3, BusyKept DEF IInv
<1>5. CallbackRefs'
    BY <1>t DEF IInv, TypeOK, CallbackRefs, Task
<1>6. OwnersCurrent'
    BY <1>t DEF IInv, TypeOK, OwnersCurrent, ReservedPc, Frame
<1>7. OwnersDrained'
    BY <1>t DEF IInv, TypeOK, OwnersDrained, ReservedPc, Frame
<1>8. NewRecords'
    BY <1>t DEF IInv, TypeOK, NewRecords, Frame
<1>9. PendingMatchesWaiting'
    BY DEF IInv, PendingMatchesWaiting
<1>10. WorkersStarted'
  <2>1. \A u \in Task, k \in Job : Launching(u, k) => Launching(u, k)'
    BY <1>t DEF IInv, TypeOK, Launching, Frame
  <2>2. \A k \in Job : TickLaunching(k) => TickLaunching(k)'
    BY DEF TickLaunching
  <2> QED BY <2>1, <2>2, WorkersKept DEF IInv
<1> QED BY <1>1, <1>4, <1>5, <1>6, <1>7, <1>8, <1>9, <1>10 DEF IInv

LEMMA StartDrainStep ==
    ASSUME IInv, NEW t \in Task, StartDrain(t)
    PROVE  IInv'
<1> USE DEF StartDrain, Goto, runtime
<1>t. frame[t] \in Frame /\ frame[t].job \in Job /\ tick \in TickFrame /\ tick.job \in Job
    BY DEF IInv, TypeOK, Frame, TickFrame
<1>1. TypeOK'
  <2>1. pc' \in [Task -> ApiPc]
    BY DEF IInv, TypeOK, ApiPc, ReservedPc
  <2> QED BY <2>1 DEF IInv, TypeOK, runtime
<1>2. \A u \in Task, k \in Job : Reserved(u, k)' <=> Reserved(u, k)
    BY <1>t DEF IInv, TypeOK, Reserved, ReservedPc, Frame
<1>3. \A k \in Job : TickReserved(k)' <=> TickReserved(k)
    BY DEF TickReserved
<1>4. BusyOwned'
    BY <1>2, <1>3, BusyKept DEF IInv
<1>5. CallbackRefs'
    BY <1>t DEF IInv, TypeOK, CallbackRefs, Task
<1>6. OwnersCurrent'
    BY <1>t DEF IInv, TypeOK, OwnersCurrent, ReservedPc, Frame
<1>7. OwnersDrained'
    BY <1>t DEF IInv, TypeOK, OwnersDrained, ReservedPc, Frame, Drained
<1>8. NewRecords'
    BY <1>t DEF IInv, TypeOK, NewRecords, Frame
<1>9. PendingMatchesWaiting'
    BY DEF IInv, PendingMatchesWaiting
<1>10. WorkersStarted'
  <2>1. \A u \in Task, k \in Job : Launching(u, k) => Launching(u, k)'
    BY <1>t DEF IInv, TypeOK, Launching, Frame
  <2>2. \A k \in Job : TickLaunching(k) => TickLaunching(k)'
    BY DEF TickLaunching
  <2> QED BY <2>1, <2>2, WorkersKept DEF IInv
<1> QED BY <1>1, <1>4, <1>5, <1>6, <1>7, <1>8, <1>9, <1>10 DEF IInv

LEMMA StartStopReturnStep ==
    ASSUME IInv, NEW t \in Task, StartStopReturn(t)
    PROVE  IInv'
<1> USE DEF StartStopReturn, StopCallback, Goto, runtime
<1>t. frame[t] \in Frame /\ frame[t].job \in Job /\ tick \in TickFrame /\ tick.job \in Job
    BY DEF IInv, TypeOK, Frame, TickFrame
<1>1. TypeOK'
  <2>1. pc' \in [Task -> ApiPc]
    BY DEF IInv, TypeOK, ApiPc, ReservedPc
  <2>2. active' \in [Job -> Nat]
    BY DEF IInv, TypeOK
  <2> QED BY <2>1, <2>2 DEF IInv, TypeOK, runtime
<1>2. \A u \in Task, k \in Job : Reserved(u, k)' <=> Reserved(u, k)
    BY <1>t DEF IInv, TypeOK, Reserved, ReservedPc, Frame
<1>3. \A k \in Job : TickReserved(k)' <=> TickReserved(k)
    BY DEF TickReserved
<1>4. BusyOwned'
    BY <1>2, <1>3, BusyKept DEF IInv
<1>5. CallbackRefs'
    BY <1>t DEF IInv, TypeOK, CallbackRefs, Task
<1>6. OwnersCurrent'
    BY <1>t DEF IInv, TypeOK, OwnersCurrent, ReservedPc, Frame
<1>7. OwnersDrained'
    BY <1>t DEF IInv, TypeOK, OwnersDrained, ReservedPc, Frame
<1>8. NewRecords'
    BY <1>t DEF IInv, TypeOK, NewRecords, Frame
<1>9. PendingMatchesWaiting'
    BY DEF IInv, PendingMatchesWaiting
<1>10. WorkersStarted'
  <2>1. \A u \in Task, k \in Job : Launching(u, k) => Launching(u, k)'
    BY <1>t DEF IInv, TypeOK, Launching, Frame
  <2>2. \A k \in Job : TickLaunching(k) => TickLaunching(k)'
    BY DEF TickLaunching
  <2> QED BY <2>1, <2>2, WorkersKept DEF IInv
<1> QED BY <1>1, <1>4, <1>5, <1>6, <1>7, <1>8, <1>9, <1>10 DEF IInv

LEMMA StartDropOldStep ==
    ASSUME IInv, NEW t \in Task, StartDropOld(t)
    PROVE  IInv'
<1> USE DEF StartDropOld, FreePending, Goto, runtime
<1>t. frame[t] \in Frame /\ frame[t].job \in Job /\ tick \in TickFrame /\ tick.job \in Job
    BY DEF IInv, TypeOK, Frame, TickFrame
<1>1. TypeOK'
  <2>1. pc' \in [Task -> ApiPc]
    BY DEF IInv, TypeOK, ApiPc, ReservedPc
  <2>2. frame' \in [Task -> Frame]
    BY <1>t DEF IInv, TypeOK, Frame
  <2>3. live' \subseteq Rec /\ waiting' \in Nat
    BY DEF IInv, TypeOK
  <2> QED BY <2>1, <2>2, <2>3 DEF IInv, TypeOK, runtime
<1>2. \A u \in Task, k \in Job : Reserved(u, k)' <=> Reserved(u, k)
    BY <1>t DEF IInv, TypeOK, Reserved, ReservedPc, Frame
<1>3. \A k \in Job : TickReserved(k)' <=> TickReserved(k)
    BY DEF TickReserved
<1>4. BusyOwned'
    BY <1>2, <1>3, BusyKept DEF IInv
<1>5. CallbackRefs'
    BY <1>t DEF IInv, TypeOK, CallbackRefs, Task
<1>6. OwnersCurrent'
    BY <1>t DEF IInv, TypeOK, OwnersCurrent, ReservedPc, Frame
<1>7. OwnersDrained'
    BY <1>t DEF IInv, TypeOK, OwnersDrained, ReservedPc, Frame
<1>8. NewRecords'
    BY <1>t DEF IInv, TypeOK, NewRecords, Frame
<1>9. PendingMatchesWaiting'
    BY DEF IInv, PendingMatchesWaiting
<1>10. WorkersStarted'
  <2>1. \A u \in Task, k \in Job : Launching(u, k) => Launching(u, k)'
    BY <1>t DEF IInv, TypeOK, Launching, Frame
  <2>2. \A k \in Job : TickLaunching(k) => TickLaunching(k)'
    BY DEF TickLaunching
  <2> QED BY <2>1, <2>2, WorkersKept DEF IInv
<1> QED BY <1>1, <1>4, <1>5, <1>6, <1>7, <1>8, <1>9, <1>10 DEF IInv

LEMMA StartNoteStep ==
    ASSUME IInv, NEW t \in Task, StartNote(t)
    PROVE  IInv'
<1> USE DEF StartNote, Goto, runtime
<1>t. frame[t] \in Frame /\ frame[t].job \in Job /\ tick \in TickFrame /\ tick.job \in Job
    BY DEF IInv, TypeOK, Frame, TickFrame
<1>1. TypeOK'
  <2>1. pc' \in [Task -> ApiPc]
    BY DEF IInv, TypeOK, ApiPc, ReservedPc
  <2>2. waiting' \in Nat
    BY DEF IInv, TypeOK
  <2> QED BY <2>1, <2>2 DEF IInv, TypeOK, runtime
<1>2. \A u \in Task, k \in Job : Reserved(u, k)' <=> Reserved(u, k)
    BY <1>t DEF IInv, TypeOK, Reserved, ReservedPc, Frame
<1>3. \A k \in Job : TickReserved(k)' <=> TickReserved(k)
    BY DEF TickReserved
<1>4. BusyOwned'
    BY <1>2, <1>3, BusyKept DEF IInv
<1>5. CallbackRefs'
    BY <1>t DEF IInv, TypeOK, CallbackRefs, Task
<1>6. OwnersCurrent'
    BY <1>t DEF IInv, TypeOK, OwnersCurrent, ReservedPc, Frame
<1>7. OwnersDrained'
    BY <1>t DEF IInv, TypeOK, OwnersDrained, ReservedPc, Frame
<1>8. NewRecords'
    BY <1>t DEF IInv, TypeOK, NewRecords, Frame
<1>9. PendingMatchesWaiting'
    BY DEF IInv, PendingMatchesWaiting
<1>10. WorkersStarted'
  <2>1. \A u \in Task, k \in Job : Launching(u, k) => Launching(u, k)'
    BY <1>t DEF IInv, TypeOK, Launching, Frame
  <2>2. \A k \in Job : TickLaunching(k) => TickLaunching(k)'
    BY DEF TickLaunching
  <2> QED BY <2>1, <2>2, WorkersKept DEF IInv
<1> QED BY <1>1, <1>4, <1>5, <1>6, <1>7, <1>8, <1>9, <1>10 DEF IInv

LEMMA StopDropPendingStep ==
    ASSUME IInv, NEW t \in Task, StopDropPending(t)
    PROVE  IInv'
<1> USE DEF StopDropPending, FreePending, Goto, runtime
<1>t. frame[t] \in Frame /\ frame[t].job \in Job /\ tick \in TickFrame /\ tick.job \in Job
    BY DEF IInv, TypeOK, Frame, TickFrame
<1>1. TypeOK'
  <2>1. pc' \in [Task -> ApiPc]
    BY DEF IInv, TypeOK, ApiPc, ReservedPc
  <2>2. frame' \in [Task -> Frame]
    BY <1>t DEF IInv, TypeOK, Frame
  <2>3. live' \subseteq Rec /\ waiting' \in Nat
    BY DEF IInv, TypeOK
  <2> QED BY <2>1, <2>2, <2>3 DEF IInv, TypeOK, runtime
<1>2. \A u \in Task, k \in Job : Reserved(u, k)' <=> Reserved(u, k)
    BY <1>t DEF IInv, TypeOK, Reserved, ReservedPc, Frame
<1>3. \A k \in Job : TickReserved(k)' <=> TickReserved(k)
    BY DEF TickReserved
<1>4. BusyOwned'
    BY <1>2, <1>3, BusyKept DEF IInv
<1>5. CallbackRefs'
    BY <1>t DEF IInv, TypeOK, CallbackRefs, Task
<1>6. OwnersCurrent'
    BY <1>t DEF IInv, TypeOK, OwnersCurrent, ReservedPc, Frame
<1>7. OwnersDrained'
    BY <1>t DEF IInv, TypeOK, OwnersDrained, ReservedPc, Frame
<1>8. NewRecords'
    BY <1>t DEF IInv, TypeOK, NewRecords, Frame
<1>9. PendingMatchesWaiting'
    BY DEF IInv, PendingMatchesWaiting
<1>10. WorkersStarted'
  <2>1. \A u \in Task, k \in Job : Launching(u, k) => Launching(u, k)'
    BY <1>t DEF IInv, TypeOK, Launching, Frame
  <2>2. \A k \in Job : TickLaunching(k) => TickLaunching(k)'
    BY DEF TickLaunching
  <2> QED BY <2>1, <2>2, WorkersKept DEF IInv
<1> QED BY <1>1, <1>4, <1>5, <1>6, <1>7, <1>8, <1>9, <1>10 DEF IInv

LEMMA StopDrainStep ==
    ASSUME IInv, NEW t \in Task, StopDrain(t)
    PROVE  IInv'
<1> USE DEF StopDrain, Goto, runtime
<1>t. frame[t] \in Frame /\ frame[t].job \in Job /\ tick \in TickFrame /\ tick.job \in Job
    BY DEF IInv, TypeOK, Frame, TickFrame
<1>1. TypeOK'
  <2>1. pc' \in [Task -> ApiPc]
    BY DEF IInv, TypeOK, ApiPc, ReservedPc
  <2> QED BY <2>1 DEF IInv, TypeOK, runtime
<1>2. \A u \in Task, k \in Job : Reserved(u, k)' <=> Reserved(u, k)
    BY <1>t DEF IInv, TypeOK, Reserved, ReservedPc, Frame
<1>3. \A k \in Job : TickReserved(k)' <=> TickReserved(k)
    BY DEF TickReserved
<1>4. BusyOwned'
    BY <1>2, <1>3, BusyKept DEF IInv
<1>5. CallbackRefs'
    BY <1>t DEF IInv, TypeOK, CallbackRefs, Task
<1>6. OwnersCurrent'
    BY <1>t DEF IInv, TypeOK, OwnersCurrent, ReservedPc, Frame
<1>7. OwnersDrained'
    BY <1>t DEF IInv, TypeOK, OwnersDrained, ReservedPc, Frame, Drained
<1>8. NewRecords'
    BY <1>t DEF IInv, TypeOK, NewRecords, Frame
<1>9. PendingMatchesWaiting'
    BY DEF IInv, PendingMatchesWaiting
<1>10. WorkersStarted'
  <2>1. \A u \in Task, k \in Job : Launching(u, k) => Launching(u, k)'
    BY <1>t DEF IInv, TypeOK, Launching, Frame
  <2>2. \A k \in Job : TickLaunching(k) => TickLaunching(k)'
    BY DEF TickLaunching
  <2> QED BY <2>1, <2>2, WorkersKept DEF IInv
<1> QED BY <1>1, <1>4, <1>5, <1>6, <1>7, <1>8, <1>9, <1>10 DEF IInv

LEMMA StopReturnStep ==
    ASSUME IInv, NEW t \in Task, StopReturn(t)
    PROVE  IInv'
<1> USE DEF StopReturn, StopCallback, Goto, runtime
<1>t. frame[t] \in Frame /\ frame[t].job \in Job /\ tick \in TickFrame /\ tick.job \in Job
    BY DEF IInv, TypeOK, Frame, TickFrame
<1>1. TypeOK'
  <2>1. pc' \in [Task -> ApiPc]
    BY DEF IInv, TypeOK, ApiPc, ReservedPc
  <2>2. active' \in [Job -> Nat]
    BY DEF IInv, TypeOK
  <2> QED BY <2>1, <2>2 DEF IInv, TypeOK, runtime
<1>2. \A u \in Task, k \in Job : Reserved(u, k)' <=> Reserved(u, k)
    BY <1>t DEF IInv, TypeOK, Reserved, ReservedPc, Frame
<1>3. \A k \in Job : TickReserved(k)' <=> TickReserved(k)
    BY DEF TickReserved
<1>4. BusyOwned'
    BY <1>2, <1>3, BusyKept DEF IInv
<1>5. CallbackRefs'
    BY <1>t DEF IInv, TypeOK, CallbackRefs, Task
<1>6. OwnersCurrent'
    BY <1>t DEF IInv, TypeOK, OwnersCurrent, ReservedPc, Frame
<1>7. OwnersDrained'
    BY <1>t DEF IInv, TypeOK, OwnersDrained, ReservedPc, Frame
<1>8. NewRecords'
    BY <1>t DEF IInv, TypeOK, NewRecords, Frame
<1>9. PendingMatchesWaiting'
    BY DEF IInv, PendingMatchesWaiting
<1>10. WorkersStarted'
  <2>1. \A u \in Task, k \in Job : Launching(u, k) => Launching(u, k)'
    BY <1>t DEF IInv, TypeOK, Launching, Frame
  <2>2. \A k \in Job : TickLaunching(k) => TickLaunching(k)'
    BY DEF TickLaunching
  <2> QED BY <2>1, <2>2, WorkersKept DEF IInv
<1> QED BY <1>1, <1>4, <1>5, <1>6, <1>7, <1>8, <1>9, <1>10 DEF IInv

LEMMA TickBeginStep ==
    ASSUME IInv, TickBegin
    PROVE  IInv'
<1> USE DEF TickBegin, runtime, InTick
<1>t. tick \in TickFrame /\ tick.job \in Job
    BY DEF IInv, TypeOK, TickFrame
<1>1. TypeOK'
  <2>1. tpc' \in TickPc
    BY DEF IInv, TypeOK, TickPc, TickReservedPc
  <2>2. tick' \in TickFrame
    BY <1>t, FirstJob, NextJob DEF IInv, TypeOK, TickFrame
  <2> QED BY <2>1, <2>2 DEF IInv, TypeOK, runtime
<1>2. \A u \in Task, k \in Job : Reserved(u, k)' <=> Reserved(u, k)
    BY DEF Reserved
<1>3. \A k \in Job : TickReserved(k)' <=> TickReserved(k)
    BY <1>t DEF TickReserved, TickReservedPc, TickFrame
<1>4. BusyOwned'
    BY <1>2, <1>3, BusyKept DEF IInv
<1>5. CallbackRefs'
    BY <1>t DEF IInv, TypeOK, CallbackRefs, Task, TickFrame
<1>6. OwnersCurrent'
    BY <1>t DEF IInv, TypeOK, OwnersCurrent, TickFrame, PendingMatchesWaiting
<1>7. OwnersDrained'
    BY <1>t DEF IInv, TypeOK, OwnersDrained, Frame
<1>8. NewRecords'
    BY DEF IInv, NewRecords
<1>9. PendingMatchesWaiting'
    BY DEF IInv, PendingMatchesWaiting
<1>10. WorkersStarted'
  <2>1. \A u \in Task, k \in Job : Launching(u, k) => Launching(u, k)'
    BY DEF Launching
  <2>2. \A k \in Job : TickLaunching(k) => TickLaunching(k)'
    BY DEF TickLaunching
  <2> QED BY <2>1, <2>2, WorkersKept DEF IInv
<1> QED BY <1>1, <1>4, <1>5, <1>6, <1>7, <1>8, <1>9, <1>10 DEF IInv

LEMMA RetrySnapshotStep ==
    ASSUME IInv, RetrySnapshot
    PROVE  IInv'
<1> USE DEF RetrySnapshot, Retryable, runtime, InTick
<1>t. tick \in TickFrame /\ tick.job \in Job
    BY DEF IInv, TypeOK, TickFrame
<1>1. TypeOK'
  <2>1. tpc' \in TickPc
    BY DEF IInv, TypeOK, TickPc, TickReservedPc
  <2>2. tick' \in TickFrame
    BY <1>t DEF IInv, TypeOK, TickFrame, Job
  <2> QED BY <2>1, <2>2 DEF IInv, TypeOK, runtime
<1>2. \A u \in Task, k \in Job : Reserved(u, k)' <=> Reserved(u, k)
    BY DEF Reserved
<1>3. \A k \in Job : TickReserved(k)' <=> TickReserved(k)
    BY <1>t DEF TickReserved, TickReservedPc, TickFrame
<1>4. BusyOwned'
    BY <1>2, <1>3, BusyKept DEF IInv
<1>5. CallbackRefs'
    BY <1>t DEF IInv, TypeOK, CallbackRefs, Task, TickFrame
<1>6. OwnersCurrent'
    BY <1>t DEF IInv, TypeOK, OwnersCurrent, TickFrame, PendingMatchesWaiting
<1>7. OwnersDrained'
    BY <1>t DEF IInv, TypeOK, OwnersDrained, Frame
<1>8. NewRecords'
    BY DEF IInv, NewRecords
<1>9. PendingMatchesWaiting'
    BY DEF IInv, PendingMatchesWaiting
<1>10. WorkersStarted'
  <2>1. \A u \in Task, k \in Job : Launching(u, k) => Launching(u, k)'
    BY DEF Launching
  <2>2. \A k \in Job : TickLaunching(k) => TickLaunching(k)'
    BY DEF TickLaunching
  <2> QED BY <2>1, <2>2, WorkersKept DEF IInv
<1> QED BY <1>1, <1>4, <1>5, <1>6, <1>7, <1>8, <1>9, <1>10 DEF IInv

LEMMA RetrySkipStep ==
    ASSUME IInv, RetrySkip
    PROVE  IInv'
<1> USE DEF RetrySkip, runtime, InTick
<1>t. tick \in TickFrame /\ tick.job \in Job
    BY DEF IInv, TypeOK, TickFrame
<1>1. TypeOK'
  <2>1. tpc' \in TickPc
    BY DEF IInv, TypeOK, TickPc, TickReservedPc
  <2> QED BY <2>1 DEF IInv, TypeOK, runtime
<1>2. \A u \in Task, k \in Job : Reserved(u, k)' <=> Reserved(u, k)
    BY DEF Reserved
<1>3. \A k \in Job : TickReserved(k)' <=> TickReserved(k)
    BY <1>t DEF TickReserved, TickReservedPc, TickFrame
<1>4. BusyOwned'
    BY <1>2, <1>3, BusyKept DEF IInv
<1>5. CallbackRefs'
    BY <1>t DEF IInv, TypeOK, CallbackRefs, Task, TickFrame
<1>6. OwnersCurrent'
    BY <1>t DEF IInv, TypeOK, OwnersCurrent, TickFrame, PendingMatchesWaiting
<1>7. OwnersDrained'
    BY <1>t DEF IInv, TypeOK, OwnersDrained, Frame
<1>8. NewRecords'
    BY DEF IInv, NewRecords
<1>9. PendingMatchesWaiting'
    BY DEF IInv, PendingMatchesWaiting
<1>10. WorkersStarted'
  <2>1. \A u \in Task, k \in Job : Launching(u, k) => Launching(u, k)'
    BY DEF Launching
  <2>2. \A k \in Job : TickLaunching(k) => TickLaunching(k)'
    BY DEF TickLaunching
  <2> QED BY <2>1, <2>2, WorkersKept DEF IInv
<1> QED BY <1>1, <1>4, <1>5, <1>6, <1>7, <1>8, <1>9, <1>10 DEF IInv

LEMMA RetryDropStep ==
    ASSUME IInv, RetryDrop
    PROVE  IInv'
<1> USE DEF RetryDrop, FreePending, runtime, InTick
<1>t. tick \in TickFrame /\ tick.job \in Job
    BY DEF IInv, TypeOK, TickFrame
<1>1. TypeOK'
  <2>1. tpc' \in TickPc
    BY DEF IInv, TypeOK, TickPc, TickReservedPc
  <2>2. tick' \in TickFrame
    BY <1>t DEF IInv, TypeOK, TickFrame, Job
  <2>3. live' \subseteq Rec /\ waiting' \in Nat
    BY DEF IInv, TypeOK
  <2> QED BY <2>1, <2>2, <2>3 DEF IInv, TypeOK, runtime
<1>2. \A u \in Task, k \in Job : Reserved(u, k)' <=> Reserved(u, k)
    BY DEF Reserved
<1>3. \A k \in Job : TickReserved(k)' <=> TickReserved(k)
    BY <1>t DEF TickReserved, TickReservedPc, TickFrame
<1>4. BusyOwned'
    BY <1>2, <1>3, BusyKept DEF IInv
<1>5. CallbackRefs'
    BY <1>t DEF IInv, TypeOK, CallbackRefs, Task, TickFrame
<1>6. OwnersCurrent'
    BY <1>t DEF IInv, TypeOK, OwnersCurrent, TickFrame, PendingMatchesWaiting
<1>7. OwnersDrained'
    BY <1>t DEF IInv, TypeOK, OwnersDrained, Frame
<1>8. NewRecords'
    BY DEF IInv, NewRecords
<1>9. PendingMatchesWaiting'
    BY DEF IInv, PendingMatchesWaiting
<1>10. WorkersStarted'
  <2>1. \A u \in Task, k \in Job : Launching(u, k) => Launching(u, k)'
    BY DEF Launching
  <2>2. \A k \in Job : TickLaunching(k) => TickLaunching(k)'
    BY DEF TickLaunching
  <2> QED BY <2>1, <2>2, WorkersKept DEF IInv
<1> QED BY <1>1, <1>4, <1>5, <1>6, <1>7, <1>8, <1>9, <1>10 DEF IInv

LEMMA EventEnterStep ==
    ASSUME IInv, EventEnter
    PROVE  IInv'
<1> USE DEF EventEnter, InTick
<1>t. tick \in TickFrame /\ tick.job \in Job
    BY DEF IInv, TypeOK, TickFrame
<1>1. TypeOK'
  <2>1. tpc' \in TickPc
    BY DEF IInv, TypeOK, TickPc, TickReservedPc
  <2>2. refs' \in [Job -> Nat] /\ cbTask' \in [Job -> Task \cup {"none"}]
    BY <1>t DEF IInv, TypeOK, Task
  <2> QED BY <2>1, <2>2 DEF IInv, TypeOK, runtime
<1>2. \A u \in Task, k \in Job : Reserved(u, k)' <=> Reserved(u, k)
    BY DEF Reserved
<1>3. \A k \in Job : TickReserved(k)' <=> TickReserved(k)
    BY <1>t DEF TickReserved, TickReservedPc, TickFrame
<1>4. BusyOwned'
    BY <1>2, <1>3, BusyKept DEF IInv
<1>5. CallbackRefs'
    BY <1>t DEF IInv, TypeOK, CallbackRefs, Task, TickFrame
<1>6. OwnersCurrent'
    BY <1>t DEF IInv, TypeOK, OwnersCurrent, TickFrame, PendingMatchesWaiting
<1>7. OwnersDrained'
  <2>1. ASSUME NEW u \in Task, pc[u] \in ReservedPc
        PROVE  frame[u].job # tick.job
    BY <1>t, <2>1 DEF IInv, BusyOwned, OwnedOnce, Reserved
  <2> QED BY <2>1, <1>t DEF IInv, TypeOK, OwnersDrained, Frame
<1>8. NewRecords'
    BY DEF IInv, NewRecords
<1>9. PendingMatchesWaiting'
    BY DEF IInv, PendingMatchesWaiting
<1>10. WorkersStarted'
  <2>1. \A u \in Task, k \in Job : Launching(u, k) => Launching(u, k)'
    BY DEF Launching
  <2>2. \A k \in Job : TickLaunching(k) => TickLaunching(k)'
    BY DEF TickLaunching
  <2> QED BY <2>1, <2>2, WorkersKept DEF IInv
<1> QED BY <1>1, <1>4, <1>5, <1>6, <1>7, <1>8, <1>9, <1>10 DEF IInv

LEMMA EventSkipStep ==
    ASSUME IInv, EventSkip
    PROVE  IInv'
<1> USE DEF EventSkip, NextIndex, runtime, InTick
<1>t. tick \in TickFrame /\ tick.job \in Job
    BY DEF IInv, TypeOK, TickFrame
<1>1. TypeOK'
  <2>1. tpc' \in TickPc
    BY DEF IInv, TypeOK, TickPc, TickReservedPc
  <2>2. tick' \in TickFrame
    BY <1>t, FirstJob, NextJob DEF IInv, TypeOK, TickFrame
  <2> QED BY <2>1, <2>2 DEF IInv, TypeOK, runtime
<1>2. \A u \in Task, k \in Job : Reserved(u, k)' <=> Reserved(u, k)
    BY DEF Reserved
<1>3. \A k \in Job : TickReserved(k)' <=> TickReserved(k)
    BY <1>t DEF TickReserved, TickReservedPc, TickFrame
<1>4. BusyOwned'
    BY <1>2, <1>3, BusyKept DEF IInv
<1>5. CallbackRefs'
    BY <1>t DEF IInv, TypeOK, CallbackRefs, Task, TickFrame
<1>6. OwnersCurrent'
    BY <1>t DEF IInv, TypeOK, OwnersCurrent, TickFrame, PendingMatchesWaiting
<1>7. OwnersDrained'
    BY <1>t DEF IInv, TypeOK, OwnersDrained, Frame
<1>8. NewRecords'
    BY DEF IInv, NewRecords
<1>9. PendingMatchesWaiting'
    BY DEF IInv, PendingMatchesWaiting
<1>10. WorkersStarted'
  <2>1. \A u \in Task, k \in Job : Launching(u, k) => Launching(u, k)'
    BY DEF Launching
  <2>2. \A k \in Job : TickLaunching(k) => TickLaunching(k)'
    BY DEF TickLaunching
  <2> QED BY <2>1, <2>2, WorkersKept DEF IInv
<1> QED BY <1>1, <1>4, <1>5, <1>6, <1>7, <1>8, <1>9, <1>10 DEF IInv

LEMMA DeferredReturnStep ==
    ASSUME IInv, DeferredReturn
    PROVE  IInv'
<1> USE DEF DeferredReturn, StopCallback, runtime, InTick
<1>t. tick \in TickFrame /\ tick.job \in Job
    BY DEF IInv, TypeOK, TickFrame
<1>1. TypeOK'
  <2>1. tpc' \in TickPc
    BY DEF IInv, TypeOK, TickPc, TickReservedPc
  <2>2. active' \in [Job -> Nat]
    BY <1>t DEF IInv, TypeOK
  <2> QED BY <2>1, <2>2 DEF IInv, TypeOK, runtime
<1>2. \A u \in Task, k \in Job : Reserved(u, k)' <=> Reserved(u, k)
    BY DEF Reserved
<1>3. \A k \in Job : TickReserved(k)' <=> TickReserved(k)
    BY <1>t DEF TickReserved, TickReservedPc, TickFrame
<1>4. BusyOwned'
    BY <1>2, <1>3, BusyKept DEF IInv
<1>5. CallbackRefs'
    BY <1>t DEF IInv, TypeOK, CallbackRefs, Task, TickFrame
<1>6. OwnersCurrent'
    BY <1>t DEF IInv, TypeOK, OwnersCurrent, TickFrame, PendingMatchesWaiting
<1>7. OwnersDrained'
    BY <1>t DEF IInv, TypeOK, OwnersDrained, Frame
<1>8. NewRecords'
    BY DEF IInv, NewRecords
<1>9. PendingMatchesWaiting'
    BY DEF IInv, PendingMatchesWaiting
<1>10. WorkersStarted'
  <2>1. \A u \in Task, k \in Job : Launching(u, k) => Launching(u, k)'
    BY DEF Launching
  <2>2. \A k \in Job : TickLaunching(k) => TickLaunching(k)'
    BY DEF TickLaunching
  <2> QED BY <2>1, <2>2, WorkersKept DEF IInv
<1> QED BY <1>1, <1>4, <1>5, <1>6, <1>7, <1>8, <1>9, <1>10 DEF IInv

LEMMA StartReturnStep ==
    ASSUME IInv, NEW t \in Task, NEW ret \in StartResult, StartReturn(t, ret)
    PROVE  IInv'
<1> USE DEF StartReturn, StartCallback, Goto
<1>t. frame[t] \in Frame /\ frame[t].job \in Job /\ tick \in TickFrame /\ tick.job \in Job
    BY DEF IInv, TypeOK, Frame, TickFrame
<1>1. TypeOK'
  <2>1. pc' \in [Task -> ApiPc]
    BY DEF IInv, TypeOK, ApiPc, ReservedPc
  <2>2. frame' \in [Task -> Frame]
    <3>1. PICK r \in Rec \cup {NoRec} :
              /\ live' = live \cup ({r} \ {NoRec})
              /\ frame' = [frame EXCEPT ![t].ret = ret, ![t].new = r]
      OBVIOUS
    <3> QED BY <3>1, <1>t DEF IInv, TypeOK, Frame
  <2>3. workers' \subseteq Job \X Nat /\ active' \in [Job -> Nat]
         /\ noted' \in [Job -> BOOLEAN]
    BY <1>t DEF IInv, TypeOK
  <2>4. live' \subseteq Rec
    BY DEF IInv, TypeOK
  <2> QED BY <2>1, <2>2, <2>3, <2>4 DEF IInv, TypeOK, runtime
<1>2. \A u \in Task, k \in Job : Reserved(u, k)' <=> Reserved(u, k)
    BY <1>t DEF IInv, TypeOK, Reserved, ReservedPc, Frame
<1>3. \A k \in Job : TickReserved(k)' <=> TickReserved(k)
    BY DEF TickReserved
<1>4. BusyOwned'
    BY <1>2, <1>3, BusyKept DEF IInv
<1>5. CallbackRefs'
    BY <1>t DEF IInv, TypeOK, CallbackRefs, Task
<1>6. OwnersCurrent'
    BY <1>t DEF IInv, TypeOK, OwnersCurrent, ReservedPc, Frame
<1>7. OwnersDrained'
    BY <1>t DEF IInv, TypeOK, OwnersDrained, ReservedPc, Frame
<1>8. NewRecords'
    BY <1>t DEF IInv, TypeOK, NewRecords, Frame
<1>9. PendingMatchesWaiting'
    BY DEF IInv, PendingMatchesWaiting
<1>10. WorkersStarted'
  <2>j. PICK j \in Job : j = frame[t].job
    BY <1>t
  <2>1. busy[j] /\ ~TickLaunching(j) /\ \A u \in Task : ~Launching(u, j)
    BY <1>t, <2>j DEF IInv, BusyOwned, OwnedOnce, Reserved, ReservedPc, TickReserved,
                TickReservedPc, Launching, TickLaunching
  <2>2. ~CurrentWorker(j)
    BY <2>1, <1>t, <2>j DEF IInv, WorkersStarted
  <2>3. CurrentWorker(j)' => Launching(t, j)'
    BY <2>2, <1>t, <2>j DEF IInv, TypeOK, CurrentWorker, Launching, Frame
  <2>4. \A u \in Task, k \in Job : Launching(u, k) => Launching(u, k)'
    BY <1>t, <2>j DEF IInv, TypeOK, Launching, Frame
  <2>5. \A k \in Job : TickLaunching(k) => TickLaunching(k)'
    BY DEF TickLaunching
  <2>6. \A k \in Job \ {j} : CurrentWorker(k)' => CurrentWorker(k)
    BY <1>t, <2>j DEF IInv, TypeOK, CurrentWorker
  <2>7. \A w \in workers' \cup reporting' : w[2] <= gen'[w[1]]
    BY <1>t, <2>j DEF IInv, TypeOK, WorkersStarted
  <2>8. ASSUME NEW k \in Job, CurrentWorker(k)'
        PROVE  IF busy'[k]
               THEN (\E u \in Task : Launching(u, k)') \/ TickLaunching(k)'
               ELSE state'[k] # "waiting"
    <3>1. CASE k = j
      BY <2>1, <2>3, <2>8, <3>1
    <3>2. CASE k # j
      <4>1. CurrentWorker(k)
        BY <2>6, <2>8, <3>2
      <4> QED BY <4>1, <2>4, <2>5 DEF IInv, WorkersStarted
    <3> QED BY <3>1, <3>2
  <2> QED BY <2>7, <2>8 DEF WorkersStarted
<1> QED BY <1>1, <1>4, <1>5, <1>6, <1>7, <1>8, <1>9, <1>10 DEF IInv

LEMMA RetryReturnStep ==
    ASSUME IInv, NEW ret \in StartResult, RetryReturn(ret)
    PROVE  IInv'
<1> USE DEF RetryReturn, StartCallback, InTick
<1>t. tick \in TickFrame /\ tick.job \in Job
    BY DEF IInv, TypeOK, TickFrame
<1>1. TypeOK'
  <2>1. tpc' \in TickPc
    BY DEF IInv, TypeOK, TickPc, TickReservedPc
  <2>2. tick' \in TickFrame
    BY <1>t DEF IInv, TypeOK, TickFrame, Job
  <2>3. workers' \subseteq Job \X Nat /\ active' \in [Job -> Nat]
         /\ noted' \in [Job -> BOOLEAN]
    BY <1>t DEF IInv, TypeOK
  <2> QED BY <2>1, <2>2, <2>3 DEF IInv, TypeOK, runtime
<1>2. \A u \in Task, k \in Job : Reserved(u, k)' <=> Reserved(u, k)
    BY DEF Reserved
<1>3. \A k \in Job : TickReserved(k)' <=> TickReserved(k)
    BY <1>t DEF TickReserved, TickReservedPc, TickFrame
<1>4. BusyOwned'
    BY <1>2, <1>3, BusyKept DEF IInv
<1>5. CallbackRefs'
    BY <1>t DEF IInv, TypeOK, CallbackRefs, Task, TickFrame
<1>6. OwnersCurrent'
    BY <1>t DEF IInv, TypeOK, OwnersCurrent, TickFrame, PendingMatchesWaiting
<1>7. OwnersDrained'
    BY <1>t DEF IInv, TypeOK, OwnersDrained, Frame
<1>8. NewRecords'
    BY DEF IInv, NewRecords
<1>9. PendingMatchesWaiting'
    BY DEF IInv, PendingMatchesWaiting
<1>10. WorkersStarted'
  <2>j. PICK j \in Job : j = tick.job
    BY <1>t
  <2>1. busy[j] /\ ~TickLaunching(j) /\ \A u \in Task : ~Launching(u, j)
    BY <1>t, <2>j DEF IInv, BusyOwned, OwnedOnce, Reserved, ReservedPc, TickReserved,
                TickReservedPc, Launching, TickLaunching
  <2>2. ~CurrentWorker(j)
    BY <2>1, <1>t, <2>j DEF IInv, WorkersStarted
  <2>3. CurrentWorker(j)' => TickLaunching(j)'
    BY <2>2, <1>t, <2>j DEF IInv, TypeOK, CurrentWorker, TickLaunching, TickFrame
  <2>4. \A u \in Task, k \in Job : Launching(u, k) => Launching(u, k)'
    BY DEF Launching
  <2>5. \A k \in Job : TickLaunching(k) => TickLaunching(k)'
    BY DEF TickLaunching
  <2>6. \A k \in Job \ {j} : CurrentWorker(k)' => CurrentWorker(k)
    BY <1>t, <2>j DEF IInv, TypeOK, CurrentWorker
  <2>7. \A w \in workers' \cup reporting' : w[2] <= gen'[w[1]]
    BY <1>t, <2>j DEF IInv, TypeOK, WorkersStarted
  <2> QED BY <2>1, <2>3, <2>4, <2>5, <2>6, <2>7 DEF IInv, WorkersStarted
<1> QED BY <1>1, <1>4, <1>5, <1>6, <1>7, <1>8, <1>9, <1>10 DEF IInv


LEMMA StartReserveStep ==
    ASSUME IInv, NEW t \in Task, StartReserve(t)
    PROVE  IInv'
<1>t. PICK j \in Job : /\ j = frame[t].job
                     /\ frame[t] \in Frame /\ pc[t] = "start_reserve"
                     /\ tick \in TickFrame /\ tick.job \in Job
    BY DEF IInv, TypeOK, Frame, TickFrame, StartReserve
<1>r. CASE StartRefused(j, t)
  <2>1. /\ live' = live \ {frame[t].new}
        /\ frame' = [frame EXCEPT ![t].new = NoRec]
        /\ pc' = [pc EXCEPT ![t] = "idle"]
        /\ UNCHANGED <<runtime, active, tpc, tick, waiting, workers, reporting,
                       calls>>
    BY <1>r, <1>t DEF StartReserve, Goto
  <2>2. TypeOK'
    <3>1. frame' \in [Task -> Frame]
      BY <2>1, <1>t DEF IInv, TypeOK, Frame
    <3>2. pc' \in [Task -> ApiPc]
      BY <2>1 DEF IInv, TypeOK, ApiPc
    <3> QED BY <2>1, <3>1, <3>2 DEF IInv, TypeOK, runtime
  <2>3. \A u \in Task, k \in Job : Reserved(u, k)' <=> Reserved(u, k)
    BY <2>1, <1>t DEF IInv, TypeOK, Reserved, ReservedPc, Frame
  <2>4. \A k \in Job : TickReserved(k)' <=> TickReserved(k)
    BY <2>1 DEF TickReserved
  <2>5. BusyOwned'
    BY <2>1, <2>3, <2>4, BusyKept DEF IInv, runtime
  <2>6. CallbackRefs'
    BY <2>1, <1>t DEF IInv, TypeOK, CallbackRefs, Task, runtime
  <2>7. OwnersCurrent' /\ OwnersDrained' /\ NewRecords'
    BY <2>1, <1>t DEF IInv, TypeOK, OwnersCurrent, OwnersDrained, NewRecords,
                      ReservedPc, Frame, runtime
  <2>8. PendingMatchesWaiting'
    BY <2>1 DEF IInv, PendingMatchesWaiting, runtime
  <2>9. WorkersStarted'
    <3>1. \A u \in Task, k \in Job : Launching(u, k) => Launching(u, k)'
      BY <2>1, <1>t DEF IInv, TypeOK, Launching, Frame
    <3>2. \A k \in Job : TickLaunching(k) => TickLaunching(k)'
      BY <2>1 DEF TickLaunching
    <3> QED BY <2>1, <3>1, <3>2, WorkersKept DEF IInv, runtime
  <2> QED BY <2>2, <2>5, <2>6, <2>7, <2>8, <2>9 DEF IInv
<1>a. CASE ~StartRefused(j, t)
  <2>1. /\ busy' = [busy EXCEPT ![j] = TRUE]
        /\ gen' = [gen EXCEPT ![j] = @ + 1]
        /\ frame' = [frame EXCEPT ![t].stop = (state[j] = "running"),
                                  ![t].old = pending[j],
                                  ![t].gen = gen[j] + 1]
        /\ pending' = [pending EXCEPT ![j] = NoRec]
        /\ state' = [state EXCEPT ![j] = "stopped"]
        /\ noted' = [noted EXCEPT ![j] = FALSE]
        /\ pc' = [pc EXCEPT ![t] = "start_drain"]
        /\ UNCHANGED <<refs, cbTask, stopAfter, live, active, tpc, tick,
                       waiting, workers, reporting, calls>>
        /\ ~busy[j]
    BY <1>a, <1>t DEF StartReserve, StartRefused, Goto
  <2>2. TypeOK'
    <3>1. pending[j] \in Rec \cup {NoRec} /\ gen[j] + 1 \in Nat
      BY <1>t DEF IInv, TypeOK
    <3>2. (state[j] = "running") \in BOOLEAN
      OBVIOUS
    <3>3. frame' \in [Task -> Frame]
      BY <2>1, <1>t, <3>1, <3>2 DEF IInv, TypeOK, Frame
    <3>4. pc' \in [Task -> ApiPc]
      BY <2>1 DEF IInv, TypeOK, ApiPc, ReservedPc
    <3> QED BY <2>1, <3>3, <3>4, <1>t DEF IInv, TypeOK, JobState
  <2>3. \A u \in Task, k \in Job :
            Reserved(u, k)' <=> Reserved(u, k) \/ (u = t /\ k = j)
    BY <2>1, <1>t DEF IInv, TypeOK, Reserved, ReservedPc, Frame
  <2>4. \A k \in Job : TickReserved(k)' <=> TickReserved(k)
    BY <2>1 DEF TickReserved
  <2>5. BusyOwned'
    <3>1. ApiTakes(t, j)
      BY <2>1, <2>3, <2>4 DEF ApiTakes
    <3> QED BY <3>1, BusyApiTakes DEF IInv, TypeOK
  <2>6. CallbackRefs'
    BY <2>1, <1>t DEF IInv, TypeOK, CallbackRefs, Task
  <2>7. OwnersCurrent'
    <3>1. \A u \in Task : pc[u] \in ReservedPc => frame[u].job # j
      BY <2>1, <1>t DEF IInv, BusyOwned, OwnedOnce, Reserved
    <3>2. tpc \in TickReservedPc => tick.job # j
      BY <2>1, <1>t DEF IInv, BusyOwned, OwnedOnce, TickReserved
    <3> QED BY <3>1, <3>2, <2>1, <1>t
            DEF IInv, TypeOK, OwnersCurrent, TickReservedPc, ReservedPc, Frame
  <2>8. OwnersDrained' /\ NewRecords'
    BY <2>1, <1>t DEF IInv, TypeOK, OwnersDrained, NewRecords, ReservedPc, Frame
  <2>9. PendingMatchesWaiting'
    BY <2>1, <1>t DEF IInv, TypeOK, PendingMatchesWaiting
  <2>10. WorkersStarted'
    BY <2>1, <1>t, WorkersRenewed DEF IInv, TypeOK, Launching, TickLaunching, Frame
  <2> QED BY <2>2, <2>5, <2>6, <2>7, <2>8, <2>9, <2>10 DEF IInv
<1> QED BY <1>r, <1>a


LEMMA StartPublishStep ==
    ASSUME IInv, NEW t \in Task, StartPublish(t)
    PROVE  IInv'
<1>t. PICK j \in Job : /\ j = frame[t].job
                     /\ frame[t] \in Frame /\ pc[t] = "start_publish"
                     /\ tick \in TickFrame /\ tick.job \in Job
    BY DEF IInv, TypeOK, Frame, TickFrame, StartPublish
<1>o. Reserved(t, j) /\ busy[j] /\ gen[j] = frame[t].gen /\ state[j] = "stopped"
    BY <1>t DEF IInv, BusyOwned, OwnedOnce, Reserved, ReservedPc, OwnersCurrent
<1>1. /\ pending' = [pending EXCEPT ![j] = frame[t].new]
      /\ state' = [state EXCEPT ![j] = "waiting"]
      /\ busy' = [busy EXCEPT ![j] = FALSE]
      /\ pc' = [pc EXCEPT ![t] = "start_note"]
      /\ frame' = [frame EXCEPT ![t].new = NoRec]
      /\ UNCHANGED <<gen, refs, cbTask, stopAfter, noted, active, tpc, tick,
                     live, waiting, workers, reporting, calls>>
    BY <1>t, <1>o DEF StartPublish, StillOwns, Goto
<1>2. TypeOK'
  <2>1. frame' \in [Task -> Frame]
    BY <1>1, <1>t DEF IInv, TypeOK, Frame
  <2>2. pc' \in [Task -> ApiPc]
    BY <1>1 DEF IInv, TypeOK, ApiPc
  <2>3. frame[t].new \in Rec \cup {NoRec}
    BY <1>t DEF Frame
  <2> QED BY <1>1, <1>t, <2>1, <2>2, <2>3 DEF IInv, TypeOK, JobState
<1>3. \A u \in Task, k \in Job :
          Reserved(u, k)' <=> Reserved(u, k) /\ ~(u = t /\ k = j)
    BY <1>1, <1>t DEF IInv, TypeOK, Reserved, ReservedPc, Frame
<1>4. \A k \in Job : TickReserved(k)' <=> TickReserved(k)
    BY <1>1 DEF TickReserved
<1>5. BusyOwned'
  <2>1. ApiGives(t, j)
    BY <1>o, <1>1, <1>3, <1>4 DEF ApiGives
  <2> QED BY <2>1, BusyApiGives DEF IInv, TypeOK
<1>n. ~stopAfter[j] /\ ~TickReserved(j)
    BY <1>o DEF IInv, BusyOwned, OwnedOnce
<1>6. CallbackRefs'
    BY <1>1, <1>n, <1>t DEF IInv, TypeOK, CallbackRefs, Task
<1>7. OwnersCurrent'
  <2>1. \A u \in Task \ {t} : pc[u] \in ReservedPc => frame[u].job # j
    BY <1>o DEF IInv, BusyOwned, OwnedOnce, Reserved
  <2>2. tpc \in TickReservedPc => tick.job # j
    BY <1>n DEF TickReserved
  <2> QED BY <2>1, <2>2, <1>1, <1>t
          DEF IInv, TypeOK, OwnersCurrent, TickReservedPc, ReservedPc, Frame
<1>8. OwnersDrained' /\ NewRecords'
    BY <1>1, <1>t DEF IInv, TypeOK, OwnersDrained, NewRecords, ReservedPc, Frame
<1>9. PendingMatchesWaiting'
    BY <1>1, <1>t DEF IInv, TypeOK, PendingMatchesWaiting, NewRecords
<1>10. WorkersStarted'
  <2>1. \A u \in Task \ {t}, k \in Job : Launching(u, k) => Launching(u, k)'
    BY <1>1, <1>t DEF IInv, TypeOK, Launching, Frame
  <2>2. \A k \in Job : TickLaunching(k) => TickLaunching(k)'
    BY <1>1 DEF TickLaunching
  <2>3. \A k \in Job : CurrentWorker(k)' => CurrentWorker(k)
    BY <1>1 DEF CurrentWorker
  <2>4. CurrentWorker(j) => state'[j] # "waiting"
    BY <1>t, <1>o, <1>n DEF IInv, WorkersStarted, BusyOwned, OwnedOnce, Reserved, ReservedPc,
              Launching, TickReserved, TickReservedPc, TickLaunching
  <2>5. ASSUME NEW k \in Job, CurrentWorker(k)'
        PROVE  IF busy'[k]
               THEN (\E u \in Task : Launching(u, k)') \/ TickLaunching(k)'
               ELSE state'[k] # "waiting"
    <3>1. CASE k = j
      BY <3>1, <2>3, <2>4, <2>5, <1>1 DEF IInv, TypeOK
    <3>2. CASE k # j
      <4>1. ~Launching(t, k)
        BY <3>2, <1>t DEF Launching
      <4>2. busy'[k] = busy[k] /\ state'[k] = state[k]
        BY <3>2, <1>1 DEF IInv, TypeOK
      <4> QED BY <4>1, <4>2, <2>1, <2>2, <2>3, <2>5 DEF IInv, WorkersStarted
    <3> QED BY <3>1, <3>2
  <2>6. \A w \in workers' \cup reporting' : w[2] <= gen'[w[1]]
    BY <1>1 DEF IInv, WorkersStarted
  <2> QED BY <2>5, <2>6 DEF WorkersStarted
<1> QED BY <1>2, <1>5, <1>6, <1>7, <1>8, <1>9, <1>10 DEF IInv


LEMMA StartCommitStep ==
    ASSUME IInv, NEW t \in Task, StartCommit(t)
    PROVE  IInv'
<1>t. PICK j \in Job : /\ j = frame[t].job
                     /\ frame[t] \in Frame /\ pc[t] = "start_commit"
                     /\ tick \in TickFrame /\ tick.job \in Job
    BY DEF IInv, TypeOK, Frame, TickFrame, StartCommit
<1>o. Reserved(t, j) /\ busy[j] /\ gen[j] = frame[t].gen /\ state[j] = "stopped"
    BY <1>t DEF IInv, BusyOwned, OwnedOnce, Reserved, ReservedPc, OwnersCurrent
<1>1. /\ pending' = [pending EXCEPT ![j] =
                        IF frame[t].new # NoRec THEN frame[t].new ELSE @]
      /\ state' = [state EXCEPT ![j] =
                      IF frame[t].new # NoRec THEN "waiting"
                      ELSE IF frame[t].ret = "ok" THEN "running" ELSE "failed"]
      /\ busy' = [busy EXCEPT ![j] = FALSE]
      /\ noted' \in [Job -> BOOLEAN]
      /\ pc' = [pc EXCEPT ![t] = IF frame[t].new # NoRec THEN "start_note" ELSE "idle"]
      /\ frame' = [frame EXCEPT ![t].new = NoRec]
      /\ UNCHANGED <<gen, refs, cbTask, stopAfter, active, tpc, tick,
                     live, waiting, workers, reporting, calls>>
  <2>1. StillOwns(j, frame[t].gen) /\ pending \in [Job -> Rec \cup {NoRec}]
        /\ noted \in [Job -> BOOLEAN]
    BY <1>o DEF StillOwns, IInv, TypeOK
  <2>2. noted' \in [Job -> BOOLEAN]
    BY <2>1, <1>t DEF StartCommit, ClearNotesIf
  <2>3. CASE frame[t].new = NoRec
    BY <2>1, <2>2, <2>3, <1>t DEF StartCommit, Goto
  <2>4. CASE frame[t].new # NoRec
    BY <2>1, <2>2, <2>4, <1>t DEF StartCommit, Goto
  <2> QED BY <2>3, <2>4
<1>2. TypeOK'
  <2>1. frame' \in [Task -> Frame]
    BY <1>1, <1>t DEF IInv, TypeOK, Frame
  <2>2. pc' \in [Task -> ApiPc]
    BY <1>1 DEF IInv, TypeOK, ApiPc
  <2>3. frame[t].new \in Rec \cup {NoRec}
    BY <1>t DEF Frame
  <2> QED BY <1>1, <1>t, <2>1, <2>2, <2>3 DEF IInv, TypeOK, JobState
<1>3. \A u \in Task, k \in Job :
          Reserved(u, k)' <=> Reserved(u, k) /\ ~(u = t /\ k = j)
    BY <1>1, <1>t DEF IInv, TypeOK, Reserved, ReservedPc, Frame
<1>4. \A k \in Job : TickReserved(k)' <=> TickReserved(k)
    BY <1>1 DEF TickReserved
<1>5. BusyOwned'
  <2>1. ApiGives(t, j)
    BY <1>o, <1>1, <1>3, <1>4 DEF ApiGives
  <2> QED BY <2>1, BusyApiGives DEF IInv, TypeOK
<1>n. ~stopAfter[j] /\ ~TickReserved(j)
    BY <1>o DEF IInv, BusyOwned, OwnedOnce
<1>6. CallbackRefs'
    BY <1>1, <1>n, <1>t DEF IInv, TypeOK, CallbackRefs, Task
<1>7. OwnersCurrent'
  <2>1. \A u \in Task \ {t} : pc[u] \in ReservedPc => frame[u].job # j
    BY <1>o DEF IInv, BusyOwned, OwnedOnce, Reserved
  <2>2. tpc \in TickReservedPc => tick.job # j
    BY <1>n DEF TickReserved
  <2> QED BY <2>1, <2>2, <1>1, <1>t
          DEF IInv, TypeOK, OwnersCurrent, TickReservedPc, ReservedPc, Frame
<1>8. OwnersDrained' /\ NewRecords'
    BY <1>1, <1>t DEF IInv, TypeOK, OwnersDrained, NewRecords, ReservedPc, Frame
<1>9. PendingMatchesWaiting'
    BY <1>1, <1>t, <1>o DEF IInv, TypeOK, PendingMatchesWaiting
<1>10. WorkersStarted'
  <2>1. \A u \in Task \ {t}, k \in Job : Launching(u, k) => Launching(u, k)'
    BY <1>1, <1>t DEF IInv, TypeOK, Launching, Frame
  <2>2. \A k \in Job : TickLaunching(k) => TickLaunching(k)'
    BY <1>1 DEF TickLaunching
  <2>3. \A k \in Job : CurrentWorker(k)' => CurrentWorker(k)
    BY <1>1 DEF CurrentWorker
  <2>4. CurrentWorker(j) => state'[j] # "waiting"
    <3>1. CASE frame[t].new = NoRec
      BY <3>1, <1>1, <1>t DEF IInv, TypeOK
    <3>2. CASE frame[t].new # NoRec
      <4>1. frame[t].ret # "ok"
        BY <3>2, <1>t DEF IInv, NewRecords
      <4>2. \A u \in Task : ~Launching(u, j)
        BY <4>1, <1>o DEF IInv, BusyOwned, OwnedOnce, Reserved, ReservedPc, Launching
      <4>3. ~TickLaunching(j)
        BY <1>n DEF TickReserved, TickReservedPc, TickLaunching
      <4> QED BY <4>2, <4>3, <1>o DEF IInv, WorkersStarted
    <3> QED BY <3>1, <3>2
  <2>5. ASSUME NEW k \in Job, CurrentWorker(k)'
        PROVE  IF busy'[k]
               THEN (\E u \in Task : Launching(u, k)') \/ TickLaunching(k)'
               ELSE state'[k] # "waiting"
    <3>1. CASE k = j
      BY <3>1, <2>3, <2>4, <2>5, <1>1 DEF IInv, TypeOK
    <3>2. CASE k # j
      <4>1. ~Launching(t, k)
        BY <3>2, <1>t DEF Launching
      <4>2. busy'[k] = busy[k] /\ state'[k] = state[k]
        BY <3>2, <1>1 DEF IInv, TypeOK
      <4> QED BY <4>1, <4>2, <2>1, <2>2, <2>3, <2>5 DEF IInv, WorkersStarted
    <3> QED BY <3>1, <3>2
  <2>6. \A w \in workers' \cup reporting' : w[2] <= gen'[w[1]]
    BY <1>1 DEF IInv, WorkersStarted
  <2> QED BY <2>5, <2>6 DEF WorkersStarted
<1> QED BY <1>2, <1>5, <1>6, <1>7, <1>8, <1>9, <1>10 DEF IInv


LEMMA StopCommitStep ==
    ASSUME IInv, NEW t \in Task, StopCommit(t)
    PROVE  IInv'
<1>t. PICK j \in Job : /\ j = frame[t].job
                     /\ frame[t] \in Frame /\ pc[t] = "stop_commit"
                     /\ tick \in TickFrame /\ tick.job \in Job
    BY DEF IInv, TypeOK, Frame, TickFrame, StopCommit
<1>o. Reserved(t, j) /\ busy[j] /\ gen[j] = frame[t].gen /\ state[j] = "stopped"
    BY <1>t DEF IInv, BusyOwned, OwnedOnce, Reserved, ReservedPc, OwnersCurrent
<1>1. /\ busy' = [busy EXCEPT ![j] = FALSE]
      /\ pc' = [pc EXCEPT ![t] = "idle"]
      /\ UNCHANGED <<state, gen, refs, cbTask, stopAfter, pending, noted, active,
                     frame, tpc, tick, live, waiting, workers, reporting, calls>>
    BY <1>t, <1>o DEF StopCommit, CompleteStop, StillOwns, Goto
<1>2. TypeOK'
  <2>1. pc' \in [Task -> ApiPc]
    BY <1>1 DEF IInv, TypeOK, ApiPc
  <2> QED BY <1>1, <1>t, <2>1 DEF IInv, TypeOK
<1>3. \A u \in Task, k \in Job :
          Reserved(u, k)' <=> Reserved(u, k) /\ ~(u = t /\ k = j)
    BY <1>1, <1>t DEF IInv, TypeOK, Reserved, ReservedPc, Frame
<1>4. \A k \in Job : TickReserved(k)' <=> TickReserved(k)
    BY <1>1 DEF TickReserved
<1>5. BusyOwned'
  <2>1. ApiGives(t, j)
    BY <1>o, <1>1, <1>3, <1>4 DEF ApiGives
  <2> QED BY <2>1, BusyApiGives DEF IInv, TypeOK
<1>n. ~stopAfter[j] /\ ~TickReserved(j)
    BY <1>o DEF IInv, BusyOwned, OwnedOnce
<1>6. CallbackRefs'
    BY <1>1, <1>n, <1>t DEF IInv, TypeOK, CallbackRefs, Task
<1>7. OwnersCurrent'
  <2>1. \A u \in Task \ {t} : pc[u] \in ReservedPc => frame[u].job # j
    BY <1>o DEF IInv, BusyOwned, OwnedOnce, Reserved
  <2>2. tpc \in TickReservedPc => tick.job # j
    BY <1>n DEF TickReserved
  <2> QED BY <2>1, <2>2, <1>1, <1>t
          DEF IInv, TypeOK, OwnersCurrent, TickReservedPc, ReservedPc, Frame
<1>8. OwnersDrained' /\ NewRecords'
    BY <1>1, <1>t DEF IInv, TypeOK, OwnersDrained, NewRecords, ReservedPc, Frame
<1>9. PendingMatchesWaiting'
    BY <1>1 DEF IInv, PendingMatchesWaiting
<1>10. WorkersStarted'
  <2>1. \A u \in Task \ {t}, k \in Job : Launching(u, k) => Launching(u, k)'
    BY <1>1, <1>t DEF IInv, TypeOK, Launching, Frame
  <2>2. \A k \in Job : TickLaunching(k) => TickLaunching(k)'
    BY <1>1 DEF TickLaunching
  <2>3. \A k \in Job : CurrentWorker(k)' => CurrentWorker(k)
    BY <1>1 DEF CurrentWorker
  <2>4. CurrentWorker(j) => state'[j] # "waiting"
    BY <1>1, <1>o
  <2>5. ASSUME NEW k \in Job, CurrentWorker(k)'
        PROVE  IF busy'[k]
               THEN (\E u \in Task : Launching(u, k)') \/ TickLaunching(k)'
               ELSE state'[k] # "waiting"
    <3>1. CASE k = j
      BY <3>1, <2>3, <2>4, <2>5, <1>1 DEF IInv, TypeOK
    <3>2. CASE k # j
      <4>1. ~Launching(t, k)
        BY <3>2, <1>t DEF Launching
      <4>2. busy'[k] = busy[k] /\ state'[k] = state[k]
        BY <3>2, <1>1 DEF IInv, TypeOK
      <4> QED BY <4>1, <4>2, <2>1, <2>2, <2>3, <2>5 DEF IInv, WorkersStarted
    <3> QED BY <3>1, <3>2
  <2>6. \A w \in workers' \cup reporting' : w[2] <= gen'[w[1]]
    BY <1>1 DEF IInv, WorkersStarted
  <2> QED BY <2>5, <2>6 DEF WorkersStarted
<1> QED BY <1>2, <1>5, <1>6, <1>7, <1>8, <1>9, <1>10 DEF IInv


LEMMA NextIndexTyped ==
    ASSUME tick \in TickFrame, NextIndex
    PROVE  tick' \in TickFrame /\ tpc' \in TickPc
<1>1. CASE tick.job < NumJobs
  <2>1. tick' = [tick EXCEPT !.job = @ + 1, !.pend = NoRec] /\ tpc' = "retry"
    BY <1>1 DEF NextIndex
  <2>2. tick.job + 1 \in Job
    BY <1>1, NextJob DEF TickFrame
  <2> QED BY <2>1, <2>2 DEF TickFrame, TickPc
<1>2. CASE ~(tick.job < NumJobs)
    BY <1>2 DEF NextIndex, TickFrame, TickPc
<1> QED BY <1>1, <1>2


LEMMA StopReserveStep ==
    ASSUME IInv, NEW t \in Task, NEW j \in Job, StopReserve(t, j)
    PROVE  IInv'
<1>t. /\ frame[t] \in Frame /\ pc[t] = "idle" /\ ~busy[j]
      /\ t = Main => tpc \in {"idle", "callback"}
      /\ tick \in TickFrame /\ tick.job \in Job
    BY DEF IInv, TypeOK, Frame, TickFrame, StopReserve, CanCall
<1>b. /\ \A u \in Task : pc[u] \in ReservedPc => frame[u].job # j
      /\ tpc \in TickReservedPc => tick.job # j
      /\ stopAfter[j] = FALSE
    BY <1>t DEF IInv, TypeOK, BusyOwned, OwnedOnce, Reserved, TickReserved
<1>w. CASE state[j] # "running"
  <2>1. /\ calls' = calls + 1
        /\ state' = [state EXCEPT ![j] = "stopped"]
        /\ noted' = [noted EXCEPT ![j] = FALSE]
        /\ pending' = [pending EXCEPT ![j] = NoRec]
        /\ frame' = [frame EXCEPT ![t].old = pending[j]]
        /\ pc' = [pc EXCEPT ![t] = "stop_drop"]
        /\ UNCHANGED <<gen, refs, cbTask, stopAfter, busy, active,
                       tpc, tick, live, waiting, workers, reporting>>
    BY <1>w, <1>t, <1>b DEF StopReserve, Goto, IInv, TypeOK
  <2>2. TypeOK'
    <3>1. pending[j] \in Rec \cup {NoRec} /\ gen[j] + 1 \in Nat
      BY DEF IInv, TypeOK
    <3>2. frame' \in [Task -> Frame]
      BY <2>1, <1>t, <3>1 DEF IInv, TypeOK, Frame
    <3>3. pc' \in [Task -> ApiPc]
      BY <2>1 DEF IInv, TypeOK, ApiPc, ReservedPc
    <3> QED BY <2>1, <3>2, <3>3 DEF IInv, TypeOK, JobState
  <2>3. \A k \in Job : TickReserved(k)' <=> TickReserved(k)
    BY <2>1 DEF TickReserved
  <2>4. \A u \in Task, k \in Job : Reserved(u, k)' <=> Reserved(u, k)
    BY <2>1, <1>t DEF IInv, TypeOK, Reserved, ReservedPc, Frame
  <2>5. BusyOwned'
    BY <2>1, <2>3, <2>4, BusyKept DEF IInv
  <2>6. CallbackRefs'
    BY <2>1, <1>t, <1>b DEF IInv, TypeOK, CallbackRefs, Task, OwnCallback
  <2>7. OwnersCurrent'
    BY <2>1, <1>t, <1>b DEF IInv, TypeOK, OwnersCurrent, TickReservedPc, ReservedPc, Frame
  <2>8. OwnersDrained' /\ NewRecords'
    BY <2>1, <1>t DEF IInv, TypeOK, OwnersDrained, NewRecords, ReservedPc, Frame
  <2>9. PendingMatchesWaiting'
    BY <2>1, <1>w DEF IInv, TypeOK, PendingMatchesWaiting
  <2>10. WorkersStarted'
    <3>1. \A u \in Task, k \in Job : Launching(u, k) => Launching(u, k)'
      BY <2>1, <1>t DEF IInv, TypeOK, Launching, Frame
    <3>2. \A k \in Job : TickLaunching(k) => TickLaunching(k)'
      BY <2>1 DEF TickLaunching
    <3>3. \A k \in Job : state'[k] = "waiting" => state[k] = "waiting"
      BY <2>1 DEF IInv, TypeOK
    <3> QED BY <2>1, <3>1, <3>2, <3>3, WorkersKept DEF IInv
  <2> QED BY <2>2, <2>5, <2>6, <2>7, <2>8, <2>9, <2>10 DEF IInv
<1>c. CASE state[j] = "running" /\ OwnCallback(j, t)
  <2>1. /\ calls' = calls + 1
        /\ state' = [state EXCEPT ![j] = "stopped"]
        /\ noted' = [noted EXCEPT ![j] = FALSE]
        /\ busy' = [busy EXCEPT ![j] = TRUE]
        /\ stopAfter' = [stopAfter EXCEPT ![j] = TRUE]
        /\ gen' = [gen EXCEPT ![j] = @ + 1]
        /\ frame' = [frame EXCEPT ![t].job = j, ![t].gen = gen[j] + 1]
        /\ pc' = [pc EXCEPT ![t] = "idle"]
        /\ UNCHANGED <<refs, cbTask, pending, active, tpc, tick,
                       live, waiting, workers, reporting>>
    BY <1>c, <1>t, <1>b DEF StopReserve, Goto, IInv, TypeOK
  <2>2. TypeOK'
    <3>1. pending[j] \in Rec \cup {NoRec} /\ gen[j] + 1 \in Nat
      BY DEF IInv, TypeOK
    <3>2. frame' \in [Task -> Frame]
      BY <2>1, <1>t, <3>1 DEF IInv, TypeOK, Frame
    <3>3. pc' \in [Task -> ApiPc]
      BY <2>1 DEF IInv, TypeOK, ApiPc, ReservedPc
    <3> QED BY <2>1, <3>2, <3>3 DEF IInv, TypeOK, JobState
  <2>3. \A k \in Job : TickReserved(k)' <=> TickReserved(k)
    BY <2>1 DEF TickReserved
  <2>4. \A u \in Task, k \in Job : Reserved(u, k)' <=> Reserved(u, k)
    BY <2>1, <1>t DEF IInv, TypeOK, Reserved, ReservedPc, Frame
  <2>5. BusyOwned'
    <3>1. Defers(j)
      BY <2>1, <2>3, <2>4, <1>t DEF Defers
    <3> QED BY <3>1, BusyDefers DEF IInv, TypeOK
  <2>6. CallbackRefs'
    BY <2>1, <1>t, <1>b, <1>c DEF IInv, TypeOK, CallbackRefs, Task, OwnCallback
  <2>7. OwnersCurrent'
    BY <2>1, <1>t, <1>b DEF IInv, TypeOK, OwnersCurrent, TickReservedPc, ReservedPc, Frame
  <2>8. OwnersDrained' /\ NewRecords'
    BY <2>1, <1>t DEF IInv, TypeOK, OwnersDrained, NewRecords, ReservedPc, Frame
  <2>9. PendingMatchesWaiting'
    BY <2>1, <1>c DEF IInv, TypeOK, PendingMatchesWaiting
  <2>10. WorkersStarted'
    BY <2>1, <1>t, WorkersRenewed DEF IInv, TypeOK, Launching, TickLaunching, Frame
  <2> QED BY <2>2, <2>5, <2>6, <2>7, <2>8, <2>9, <2>10 DEF IInv
<1>s. CASE state[j] = "running" /\ ~OwnCallback(j, t)
  <2>0. [stopAfter EXCEPT ![j] = OwnCallback(j, t)] = stopAfter
    <3>1. OwnCallback(j, t) = stopAfter[j]
      BY <1>s, <1>b DEF OwnCallback
    <3> QED BY <3>1 DEF IInv, TypeOK
  <2>1. /\ calls' = calls + 1
        /\ state' = [state EXCEPT ![j] = "stopped"]
        /\ noted' = [noted EXCEPT ![j] = FALSE]
        /\ busy' = [busy EXCEPT ![j] = TRUE]
        /\ gen' = [gen EXCEPT ![j] = @ + 1]
        /\ frame' = [frame EXCEPT ![t].job = j, ![t].gen = gen[j] + 1]
        /\ pc' = [pc EXCEPT ![t] = "stop_drain"]
        /\ UNCHANGED <<refs, cbTask, stopAfter, pending, active,
                       tpc, tick, live, waiting, workers, reporting>>
    BY <2>0, <1>s, <1>t DEF StopReserve, Goto
  <2>2. TypeOK'
    <3>1. pending[j] \in Rec \cup {NoRec} /\ gen[j] + 1 \in Nat
      BY DEF IInv, TypeOK
    <3>2. frame' \in [Task -> Frame]
      BY <2>1, <1>t, <3>1 DEF IInv, TypeOK, Frame
    <3>3. pc' \in [Task -> ApiPc]
      BY <2>1 DEF IInv, TypeOK, ApiPc, ReservedPc
    <3> QED BY <2>1, <3>2, <3>3 DEF IInv, TypeOK, JobState
  <2>3. \A k \in Job : TickReserved(k)' <=> TickReserved(k)
    BY <2>1 DEF TickReserved
  <2>4. \A u \in Task, k \in Job :
            Reserved(u, k)' <=> Reserved(u, k) \/ (u = t /\ k = j)
    BY <2>1, <1>t DEF IInv, TypeOK, Reserved, ReservedPc, Frame
  <2>5. BusyOwned'
    <3>1. ApiTakes(t, j)
      BY <2>1, <2>3, <2>4, <1>t DEF ApiTakes
    <3> QED BY <3>1, BusyApiTakes DEF IInv, TypeOK
  <2>6. CallbackRefs'
    BY <2>1, <1>t, <1>b DEF IInv, TypeOK, CallbackRefs, Task, OwnCallback
  <2>7. OwnersCurrent'
    BY <2>1, <1>t, <1>b DEF IInv, TypeOK, OwnersCurrent, TickReservedPc, ReservedPc, Frame
  <2>8. OwnersDrained' /\ NewRecords'
    BY <2>1, <1>t DEF IInv, TypeOK, OwnersDrained, NewRecords, ReservedPc, Frame
  <2>9. PendingMatchesWaiting'
    BY <2>1, <1>s DEF IInv, TypeOK, PendingMatchesWaiting
  <2>10. WorkersStarted'
    BY <2>1, <1>t, WorkersRenewed DEF IInv, TypeOK, Launching, TickLaunching, Frame
  <2> QED BY <2>2, <2>5, <2>6, <2>7, <2>8, <2>9, <2>10 DEF IInv
<1> QED BY <1>w, <1>c, <1>s


LEMMA RetryClaimStep ==
    ASSUME IInv, RetryClaim
    PROVE  IInv'
<1>t. PICK j \in Job : j = tick.job /\ tick \in TickFrame /\ tpc = "retry_claim"
                     /\ pc[Main] = "idle"
    BY DEF IInv, TypeOK, TickFrame, RetryClaim, InTick
<1>1. /\ tpc' \in {"retry_starting", "event"}
      /\ ClaimHolds(j) => busy' = [busy EXCEPT ![j] = TRUE] /\ tpc' = "retry_starting"
      /\ ~ClaimHolds(j) => busy' = busy /\ tpc' = "event"
      /\ UNCHANGED <<state, gen, refs, cbTask, stopAfter, pending,
                     noted, active, pc, frame, tick, live,
                     waiting, workers, reporting, calls>>
    BY <1>t DEF RetryClaim
<1>2. TypeOK'
  <2>1. tpc' \in TickPc
    BY <1>1 DEF TickPc, TickReservedPc
  <2>2. busy' \in [Job -> BOOLEAN]
    BY <1>1 DEF IInv, TypeOK
  <2> QED BY <1>1, <2>1, <2>2 DEF IInv, TypeOK
<1>3. \A u \in Task, k \in Job : Reserved(u, k)' <=> Reserved(u, k)
    BY <1>1 DEF Reserved
<1>4. BusyOwned'
  <2>1. CASE ClaimHolds(j)
    <3>1. TickTakes(j)
      BY <1>1, <1>3, <1>t, <2>1 DEF TickTakes, ClaimHolds, TickReserved, TickReservedPc
    <3> QED BY <3>1, BusyTickTakes DEF IInv, TypeOK
  <2>2. CASE ~ClaimHolds(j)
    <3>1. \A k \in Job : TickReserved(k)' <=> TickReserved(k)
      BY <1>1, <1>t, <2>2 DEF TickReserved, TickReservedPc
    <3> QED BY <1>1, <1>3, <2>2, <3>1, BusyKept DEF IInv
  <2> QED BY <2>1, <2>2
<1>5. CallbackRefs'
    BY <1>1, <1>t DEF IInv, CallbackRefs
<1>6. OwnersCurrent'
    BY <1>1, <1>t DEF IInv, OwnersCurrent, ClaimHolds
<1>7. OwnersDrained' /\ NewRecords' /\ PendingMatchesWaiting'
    BY <1>1 DEF IInv, OwnersDrained, NewRecords, PendingMatchesWaiting
<1>8. WorkersStarted'
  <2>1. CASE ClaimHolds(j)
    <3>1. ~CurrentWorker(j)
      BY <2>1, <1>t DEF ClaimHolds, IInv, WorkersStarted
    <3> QED BY <1>1, <1>t, <2>1, <3>1
            DEF IInv, TypeOK, WorkersStarted, CurrentWorker, Launching, TickLaunching
  <2>2. CASE ~ClaimHolds(j)
    BY <1>1, <1>t, <2>2 DEF IInv, WorkersStarted, CurrentWorker, Launching, TickLaunching
  <2> QED BY <2>1, <2>2
<1> QED BY <1>2, <1>4, <1>5, <1>6, <1>7, <1>8 DEF IInv


LEMMA RetryCommitStep ==
    ASSUME IInv, RetryCommit
    PROVE  IInv'
<1>t. PICK j \in Job : j = tick.job /\ tick \in TickFrame /\ tpc = "retry_commit"
                     /\ pc[Main] = "idle"
    BY DEF IInv, TypeOK, TickFrame, RetryCommit, InTick
<1>o. /\ TickReserved(j) /\ busy[j] /\ ~stopAfter[j]
      /\ gen[j] = tick.gen /\ state[j] = "waiting" /\ pending[j] = tick.pend
      /\ \A u \in Task : pc[u] \in ReservedPc => frame[u].job # j
    BY <1>t DEF IInv, BusyOwned, OwnedOnce, Reserved, TickReserved, TickReservedPc,
                OwnersCurrent
<1>c. CommitHolds(j)
    BY <1>o DEF CommitHolds
<1>1. /\ busy' = [busy EXCEPT ![j] = FALSE]
      /\ tick.ret = "no_mem" => /\ tpc' = "event"
                                /\ UNCHANGED <<state, pending, noted>>
      /\ tick.ret # "no_mem" =>
            /\ tpc' = "retry_drop"
            /\ pending' = [pending EXCEPT ![j] = NoRec]
            /\ state' = [state EXCEPT ![j] =
                            IF tick.ret = "ok" THEN "running" ELSE "failed"]
            /\ noted' = [noted EXCEPT ![j] = @ /\ ~(tick.ret # "ok")]
      /\ UNCHANGED <<gen, refs, cbTask, stopAfter, active, pc,
                     frame, tick, live, waiting, workers,
                     reporting, calls>>
    BY <1>c, <1>t DEF RetryCommit, ClearNotesIf
<1>2. TypeOK'
  <2>1. /\ tpc' \in TickPc /\ busy' \in [Job -> BOOLEAN]
        /\ pending' \in [Job -> Rec \cup {NoRec}]
    BY <1>1 DEF IInv, TypeOK, TickPc, TickReservedPc
  <2>2. state' \in [Job -> JobState] /\ noted' \in [Job -> BOOLEAN]
    BY <1>1 DEF IInv, TypeOK, JobState
  <2> QED BY <1>1, <2>1, <2>2 DEF IInv, TypeOK
<1>3. \A u \in Task, k \in Job : Reserved(u, k)' <=> Reserved(u, k)
    BY <1>1 DEF Reserved
<1>4. BusyOwned'
  <2>1. tpc' \notin TickReservedPc
    BY <1>1 DEF TickReservedPc
  <2>2. TickGives(j)
    BY <1>1, <1>3, <1>o, <1>t, <2>1 DEF TickGives, TickReserved
  <2> QED BY <2>2, BusyTickGives DEF IInv, TypeOK
<1>5. CallbackRefs'
    BY <1>1, <1>o, <1>t DEF IInv, TypeOK, CallbackRefs
<1>6. OwnersCurrent'
    BY <1>1, <1>o, <1>t DEF IInv, TypeOK, OwnersCurrent, Frame
<1>7. OwnersDrained' /\ NewRecords'
    BY <1>1 DEF IInv, OwnersDrained, NewRecords
<1>8. PendingMatchesWaiting'
    BY <1>1, <1>t DEF IInv, TypeOK, PendingMatchesWaiting
<1>9. WorkersStarted'
  <2>1. \A u \in Task : ~Launching(u, j)
    BY <1>o DEF Launching, ReservedPc
  <2>2. CurrentWorker(j) => tick.ret = "ok"
    BY <1>o, <2>1 DEF IInv, WorkersStarted, TickLaunching
  <2>3. \A k \in Job \ {j} : ~TickLaunching(k)
    BY <1>t DEF TickLaunching
  <2>4. \A k \in Job : (CurrentWorker(k)' <=> CurrentWorker(k))
    BY <1>1 DEF CurrentWorker
  <2>5. \A u \in Task, k \in Job : Launching(u, k)' <=> Launching(u, k)
    BY <1>1 DEF Launching
  <2>6. CurrentWorker(j) => ~busy'[j] /\ state'[j] # "waiting"
    BY <2>2, <1>1 DEF IInv, TypeOK
  <2>7. \A k \in Job \ {j} : busy'[k] = busy[k] /\ state'[k] = state[k]
    BY <1>1 DEF IInv, TypeOK
  <2> QED BY <1>1, <2>3, <2>4, <2>5, <2>6, <2>7 DEF IInv, WorkersStarted
<1> QED BY <1>2, <1>4, <1>5, <1>6, <1>7, <1>8, <1>9 DEF IInv


LEMMA EventReturnStep ==
    ASSUME IInv, EventReturn
    PROVE  IInv'
<1>t. PICK j \in Job : j = tick.job /\ tick \in TickFrame /\ tpc = "callback"
                     /\ pc[Main] = "idle"
    BY DEF IInv, TypeOK, TickFrame, EventReturn, InTick
<1>r. refs[j] = 1 /\ \A k \in Job \ {j} : refs[k] = 0 /\ ~stopAfter[k]
    BY <1>t DEF IInv, CallbackRefs
<1>d. DeferredStopDue(j) <=> stopAfter[j]
    BY <1>t, <1>r DEF DeferredStopDue, IInv, BusyOwned, OwnedOnce, CallbackRefs
<1>1. /\ refs' = [refs EXCEPT ![j] = 0]
      /\ cbTask' = [cbTask EXCEPT ![j] = "none"]
      /\ stopAfter' = [stopAfter EXCEPT ![j] = FALSE]
      /\ UNCHANGED <<state, gen, busy, pending, noted, active, pc,
                     frame, live, waiting, workers, reporting,
                     calls>>
  <2>1. refs[j] - 1 = 0
    BY <1>r
  <2>2. (stopAfter[j] /\ ~DeferredStopDue(j)) = FALSE
    BY <1>d
  <2> QED BY <2>1, <2>2, <1>t, <1>r DEF EventReturn
<1>2. /\ stopAfter[j] => tick' = [tick EXCEPT !.gen = gen[j]] /\ tpc' = "deferred_stopping"
      /\ ~stopAfter[j] => NextIndex
    BY <1>d, <1>t DEF EventReturn
<1>3. TypeOK'
  <2>1. CASE stopAfter[j]
    <3>1. tick' \in TickFrame /\ tpc' \in TickPc
      BY <2>1, <1>2, <1>t DEF IInv, TypeOK, TickFrame, TickPc, TickReservedPc
    <3> QED BY <3>1, <1>1 DEF IInv, TypeOK
  <2>2. CASE ~stopAfter[j]
    <3>1. tick' \in TickFrame /\ tpc' \in TickPc
      BY <2>2, <1>2, <1>t, NextIndexTyped
    <3> QED BY <3>1, <1>1 DEF IInv, TypeOK
  <2> QED BY <2>1, <2>2
<1>4. \A u \in Task, k \in Job : Reserved(u, k)' <=> Reserved(u, k)
    BY <1>1 DEF Reserved
<1>p. CASE stopAfter[j]
  <2>1. tick'.job = j /\ tick'.gen = gen[j] /\ tpc' = "deferred_stopping"
    BY <1>p, <1>2, <1>t DEF TickFrame
  <2>2. BusyOwned'
    <3>1. TickPicksUp(j)
      BY <1>1, <1>4, <1>t, <1>p, <2>1 DEF TickPicksUp, TickReserved, TickReservedPc
    <3> QED BY <3>1, BusyTickPicksUp DEF IInv, TypeOK
  <2>3. CallbackRefs'
    BY <2>1, <1>1, <1>r, <1>t DEF IInv, TypeOK, CallbackRefs
  <2>4. OwnersCurrent'
    BY <2>1, <1>1, <1>p, <1>t DEF IInv, OwnersCurrent, CallbackRefs
  <2>5. WorkersStarted'
    <3>1. \A k \in Job : ~TickLaunching(k)
      BY <1>t DEF TickLaunching
    <3>2. \A u \in Task, k \in Job : Launching(u, k) => Launching(u, k)'
      BY <1>1 DEF Launching
    <3> QED BY <1>1, <3>1, <3>2, WorkersKept DEF IInv
  <2> QED BY <1>1, <1>3, <2>2, <2>3, <2>4, <2>5, <1>r
          DEF IInv, TypeOK, OwnersDrained, NewRecords, PendingMatchesWaiting, Frame
<1>n. CASE ~stopAfter[j]
  <2>1. tpc' \in {"retry", "idle"}
    BY <1>n, <1>2 DEF NextIndex
  <2>s. stopAfter' = stopAfter
    BY <1>n, <1>1 DEF IInv, TypeOK
  <2>2. BusyOwned'
    <3>1. \A k \in Job : TickReserved(k)' <=> TickReserved(k)
      BY <2>1, <1>t DEF TickReserved, TickReservedPc
    <3> QED BY <1>1, <1>4, <2>s, <3>1, BusyKept DEF IInv
  <2>3. CallbackRefs'
    BY <2>1, <2>s, <1>1, <1>r, <1>n, <1>t DEF IInv, TypeOK, CallbackRefs
  <2>4. OwnersCurrent'
    BY <2>1, <1>1 DEF IInv, OwnersCurrent
  <2>5. WorkersStarted'
    <3>1. \A k \in Job : ~TickLaunching(k)
      BY <1>t DEF TickLaunching
    <3>2. \A u \in Task, k \in Job : Launching(u, k) => Launching(u, k)'
      BY <1>1 DEF Launching
    <3> QED BY <1>1, <3>1, <3>2, WorkersKept DEF IInv
  <2> QED BY <1>1, <1>3, <2>2, <2>3, <2>4, <2>5, <1>r
          DEF IInv, TypeOK, OwnersDrained, NewRecords, PendingMatchesWaiting, Frame
<1> QED BY <1>p, <1>n


LEMMA DeferredCommitStep ==
    ASSUME IInv, DeferredCommit
    PROVE  IInv'
<1>t. PICK j \in Job : j = tick.job /\ tick \in TickFrame /\ tpc = "deferred_commit"
                     /\ pc[Main] = "idle"
    BY DEF IInv, TypeOK, TickFrame, DeferredCommit, InTick
<1>o. /\ TickReserved(j) /\ busy[j] = TRUE /\ ~stopAfter[j] /\ gen[j] = tick.gen
      /\ state[j] = "stopped"
      /\ \A u \in Task : pc[u] \in ReservedPc => frame[u].job # j
    BY <1>t DEF IInv, TypeOK, BusyOwned, OwnedOnce, Reserved, TickReserved,
                TickReservedPc, OwnersCurrent
<1>1. /\ busy' = [busy EXCEPT ![j] = FALSE]
      /\ NextIndex
      /\ UNCHANGED <<state, gen, refs, cbTask, stopAfter, pending,
                     noted, active, pc, frame, live, waiting,
                     workers, reporting, calls>>
    BY <1>o, <1>t DEF DeferredCommit, CompleteStop, StillOwns
<1>2. tpc' \in {"retry", "idle"}
    BY <1>1 DEF NextIndex
<1>3. TypeOK'
  <2>1. tick' \in TickFrame /\ tpc' \in TickPc
    BY <1>1, <1>t, NextIndexTyped
  <2>2. busy' \in [Job -> BOOLEAN]
    BY <1>1 DEF IInv, TypeOK
  <2> QED BY <1>1, <2>1, <2>2 DEF IInv, TypeOK
<1>4. \A u \in Task, k \in Job : Reserved(u, k)' <=> Reserved(u, k)
    BY <1>1 DEF Reserved
<1>5. BusyOwned'
  <2>1. TickGives(j)
    BY <1>1, <1>2, <1>4, <1>o, <1>t DEF TickGives, TickReserved, TickReservedPc
  <2> QED BY <2>1, BusyTickGives DEF IInv, TypeOK
<1>6. CallbackRefs'
    BY <1>1, <1>2, <1>o, <1>t DEF IInv, TypeOK, CallbackRefs
<1>7. OwnersCurrent'
    BY <1>1, <1>2 DEF IInv, OwnersCurrent
<1>8. OwnersDrained' /\ NewRecords' /\ PendingMatchesWaiting'
    BY <1>1 DEF IInv, OwnersDrained, NewRecords, PendingMatchesWaiting
<1>9. WorkersStarted'
  <2>1. \A k \in Job : ~TickLaunching(k)
    BY <1>t DEF TickLaunching
  <2>2. \A u \in Task, k \in Job : Launching(u, k) => Launching(u, k)'
    BY <1>1 DEF Launching
  <2>3. \A k \in Job \ {j} : busy'[k] = busy[k]
    BY <1>1 DEF IInv, TypeOK
  <2>4. busy'[j] = FALSE /\ state'[j] # "waiting"
    BY <1>1, <1>o DEF IInv, TypeOK
  <2>5. \A k \in Job : CurrentWorker(k)' <=> CurrentWorker(k)
    BY <1>1 DEF CurrentWorker
  <2> QED BY <1>1, <2>1, <2>2, <2>3, <2>4, <2>5 DEF IInv, WorkersStarted
<1> QED BY <1>3, <1>5, <1>6, <1>7, <1>8, <1>9 DEF IInv


LEMMA WorkerCleanupStep ==
    ASSUME IInv, NEW j \in Job, NEW g \in Nat, WorkerCleanup(j, g)
    PROVE  IInv'
<1> USE DEF WorkerCleanup, runtime
<1>1. TypeOK'
  <2>1. workers' \subseteq Job \X Nat /\ reporting' \subseteq Job \X Nat
    BY DEF IInv, TypeOK
  <2>2. active' \in [Job -> Nat]
    BY DEF IInv, TypeOK
  <2> QED BY <2>1, <2>2 DEF IInv, TypeOK
<1>2. \A u \in Task, k \in Job : Reserved(u, k)' <=> Reserved(u, k)
    BY DEF Reserved
<1>3. \A k \in Job : TickReserved(k)' <=> TickReserved(k)
    BY DEF TickReserved
<1>4. BusyOwned'
    BY <1>2, <1>3, BusyKept DEF IInv
<1>5. CallbackRefs'
    BY DEF IInv, CallbackRefs
<1>6. OwnersCurrent'
    BY DEF IInv, OwnersCurrent
<1>7. OwnersDrained' /\ NewRecords'
    BY DEF IInv, OwnersDrained, NewRecords
<1>8. PendingMatchesWaiting'
    BY DEF IInv, PendingMatchesWaiting
<1>9. WorkersStarted'
    <2>1. workers' \cup reporting' \subseteq workers \cup reporting
    OBVIOUS
  <2>2. \A u \in Task, k \in Job : Launching(u, k) => Launching(u, k)'
    BY DEF Launching
  <2>3. \A k \in Job : TickLaunching(k) => TickLaunching(k)'
    BY DEF TickLaunching
  <2> QED BY <2>1, <2>2, <2>3, WorkersKept DEF IInv
<1> QED BY <1>1, <1>4, <1>5, <1>6, <1>7, <1>8, <1>9 DEF IInv


LEMMA WorkerReportStep ==
    ASSUME IInv, NEW j \in Job, NEW g \in Nat, WorkerReport(j, g)
    PROVE  IInv'
<1> USE DEF WorkerReport, runtime
<1>1. TypeOK'
  <2>1. reporting' \subseteq Job \X Nat
    BY DEF IInv, TypeOK
  <2>2. state' \in [Job -> JobState] /\ noted' \in [Job -> BOOLEAN]
    BY DEF IInv, TypeOK, JobState
  <2> QED BY <2>1, <2>2 DEF IInv, TypeOK
<1>2. \A u \in Task, k \in Job : Reserved(u, k)' <=> Reserved(u, k)
    BY DEF Reserved
<1>3. \A k \in Job : TickReserved(k)' <=> TickReserved(k)
    BY DEF TickReserved
<1>4. BusyOwned'
    BY <1>2, <1>3, BusyKept DEF IInv
<1>5. CallbackRefs'
    BY DEF IInv, TypeOK, CallbackRefs
<1>6. OwnersCurrent'
    <2>1. ReportAccepted(j, g) => ~busy[j]
    BY DEF ReportAccepted
  <2>2. ~busy[j] => /\ \A u \in Task : pc[u] \in ReservedPc => frame[u].job # j
                    /\ tpc \in TickReservedPc => tick.job # j
    BY DEF IInv, BusyOwned, OwnedOnce, Reserved, TickReserved
  <2>3. CASE ReportAccepted(j, g)
    <3>1. \A k \in Job \ {j} : state'[k] = state[k]
      BY DEF IInv, TypeOK
    <3>2. tick.job \in Job /\ \A u \in Task : frame[u].job \in Job
      BY DEF IInv, TypeOK, TickFrame, Frame
    <3> QED BY <2>1, <2>2, <2>3, <3>1, <3>2 DEF IInv, OwnersCurrent, TickReservedPc
  <2>4. CASE ~ReportAccepted(j, g)
    BY <2>4 DEF IInv, OwnersCurrent
  <2> QED BY <2>3, <2>4
<1>7. OwnersDrained' /\ NewRecords'
    BY DEF IInv, OwnersDrained, NewRecords
<1>8. PendingMatchesWaiting'
    <2>1. CASE ReportAccepted(j, g)
    <3>1. CurrentWorker(j) /\ ~busy[j]
      BY <2>1 DEF ReportAccepted, CurrentWorker
    <3>2. state[j] # "waiting"
      BY <3>1 DEF IInv, WorkersStarted
    <3> QED BY <3>2, <2>1 DEF IInv, TypeOK, PendingMatchesWaiting
  <2>2. CASE ~ReportAccepted(j, g)
    BY <2>2 DEF IInv, PendingMatchesWaiting
  <2> QED BY <2>1, <2>2
<1>9. WorkersStarted'
    <2>1. workers' \cup reporting' \subseteq workers \cup reporting
    OBVIOUS
  <2>2. \A u \in Task, k \in Job : Launching(u, k) => Launching(u, k)'
    BY DEF Launching
  <2>3. \A k \in Job : TickLaunching(k) => TickLaunching(k)'
    BY DEF TickLaunching
  <2>4. \A k \in Job : state'[k] = "waiting" => state[k] = "waiting"
    BY DEF IInv, TypeOK
  <2> QED BY <2>1, <2>2, <2>3, <2>4, WorkersKept DEF IInv
<1> QED BY <1>1, <1>4, <1>5, <1>6, <1>7, <1>8, <1>9 DEF IInv


-----------------------------------------------------------------------------
LEMMA StutterStep ==
    ASSUME IInv, UNCHANGED vars
    PROVE  IInv'
<1> USE DEF vars
<1>1. TypeOK'
    BY DEF IInv, TypeOK
<1>2. BusyOwned'
    BY DEF IInv, BusyOwned, OwnedOnce, Reserved, TickReserved
<1>3. CallbackRefs' /\ OwnersCurrent' /\ OwnersDrained'
    BY DEF IInv, CallbackRefs, OwnersCurrent, OwnersDrained
<1>4. NewRecords' /\ PendingMatchesWaiting'
    BY DEF IInv, NewRecords, PendingMatchesWaiting
<1>5. WorkersStarted'
    BY DEF IInv, WorkersStarted, CurrentWorker, Launching, TickLaunching
<1> QED BY <1>1, <1>2, <1>3, <1>4, <1>5 DEF IInv

\* Nothing runs at boot.
LEMMA InitIInv == Init => IInv
<1> SUFFICES ASSUME Init PROVE IInv
    OBVIOUS
<1> USE DEF Init
<1>1. TypeOK
  <2>1. frame \in [Task -> Frame] /\ tick \in TickFrame
    BY FirstJob DEF Frame, TickFrame, StartResult
  <2>2. pc \in [Task -> ApiPc] /\ tpc \in TickPc
    BY DEF ApiPc, TickPc
  <2> QED BY <2>1, <2>2 DEF TypeOK, JobState
<1>2. BusyOwned
    BY DEF BusyOwned, OwnedOnce, Reserved, TickReserved, ReservedPc, TickReservedPc
<1>3. CallbackRefs /\ OwnersCurrent /\ OwnersDrained
    BY DEF CallbackRefs, OwnersCurrent, OwnersDrained, ReservedPc, Task
<1>4. NewRecords /\ PendingMatchesWaiting
    BY DEF NewRecords, PendingMatchesWaiting
<1>5. WorkersStarted
    BY DEF WorkersStarted, CurrentWorker
<1> QED BY <1>1, <1>2, <1>3, <1>4, <1>5 DEF IInv

LEMMA NextIInv ==
    ASSUME IInv, [Next]_vars
    PROVE  IInv'
<1>1. ASSUME NEW t \in Task, StartSteps(t)
      PROVE  IInv'
    BY <1>1, StartReserveStep, StartDrainStep, StartStopReturnStep,
       StartDropOldStep, StartPublishStep, StartReturnStep, StartCommitStep,
       StartNoteStep DEF StartSteps
<1>2. ASSUME NEW t \in Task, StopSteps(t)
      PROVE  IInv'
    BY <1>2, StopDropPendingStep, StopDrainStep, StopReturnStep, StopCommitStep
       DEF StopSteps
<1>3. ASSUME NEW t \in Task, NEW j \in Job, StartCall(t, j) \/ StopReserve(t, j)
      PROVE  IInv'
    BY <1>3, StartCallStep, StopReserveStep
<1>4. ASSUME TickSteps
      PROVE  IInv'
    BY <1>4, TickBeginStep, RetrySnapshotStep, RetrySkipStep, RetryClaimStep,
       RetryReturnStep, RetryCommitStep, RetryDropStep, EventEnterStep,
       EventSkipStep, EventReturnStep, DeferredReturnStep, DeferredCommitStep
       DEF TickSteps
<1>5. ASSUME NEW w \in workers \cup reporting, WorkerSteps(w)
      PROVE  IInv'
  <2>1. w[1] \in Job /\ w[2] \in Nat
    BY DEF IInv, TypeOK
  <2> QED BY <1>5, <2>1, WorkerCleanupStep, WorkerReportStep DEF WorkerSteps
<1>6. CASE UNCHANGED vars
    BY <1>6, StutterStep
<1> QED BY <1>1, <1>2, <1>3, <1>4, <1>5, <1>6 DEF Next

-----------------------------------------------------------------------------
(* The theorems.                                                           *)

\* The inductive invariant holds in every reachable state.
THEOREM IInvHolds == Spec => []IInv
    BY InitIInv, NextIInv, PTL DEF Spec

\* Every variable of the registry keeps its type, whatever the interleaving.
THEOREM TypeCorrect == Spec => []TypeOK
<1>1. IInv => TypeOK
    BY DEF IInv
<1> QED BY <1>1, IInvHolds, PTL

\* lifecycle_busy has exactly one owner while it is set and none while it is
\* clear, for any number of jobs and tasks.
THEOREM OneOwner == Spec => []BusyOwned
<1>1. IInv => BusyOwned
    BY DEF IInv
<1> QED BY <1>1, IInvHolds, PTL

\* Two lifecycle callbacks of a job never overlap.
THEOREM CallbacksExclusive == Spec => []LifecycleExclusive
<1>1. ASSUME IInv PROVE LifecycleExclusive
  <2> SUFFICES ASSUME NEW j \in Job, NEW t \in Task, NEW u \in Task,
                      ApiInCallback(t, j)
               PROVE  (ApiInCallback(u, j) => t = u) /\ ~TickInCallback(j)
    BY DEF LifecycleExclusive
  <2>1. Reserved(t, j) /\ refs[j] = 0
    BY <1>1 DEF IInv, ApiInCallback, Reserved, ReservedPc, OwnersDrained
  <2>2. ASSUME ApiInCallback(u, j) PROVE t = u
    BY <1>1, <2>1, <2>2 DEF IInv, BusyOwned, OwnedOnce, ApiInCallback, Reserved, ReservedPc
  <2>3. ~TickReserved(j)
    BY <1>1, <2>1 DEF IInv, BusyOwned, OwnedOnce
  <2>4. ~(tpc = "callback" /\ tick.job = j)
    BY <1>1, <2>1 DEF IInv, CallbackRefs
  <2> QED BY <2>2, <2>3, <2>4 DEF TickInCallback, TickReserved, TickReservedPc
<1> QED BY <1>1, IInvHolds, PTL

\* A job is reported as waiting exactly while the registry keeps its request.
THEOREM WaitingHasRequest == Spec => []PendingMatchesWaiting
<1>1. IInv => PendingMatchesWaiting
    BY DEF IInv
<1> QED BY <1>1, IInvHolds, PTL

=============================================================================
