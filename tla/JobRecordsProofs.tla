-------------------------- MODULE JobRecordsProofs --------------------------
(***************************************************************************)
(* Proofs about what the job registry keeps for a job: the module that is  *)
(* active, the resources noted, the pending start records and the counter  *)
(* of waiting launches, for any number of jobs, client tasks, records and  *)
(* calls.  They rest on JobsProofs: the one owner of a transition.         *)
(***************************************************************************)
EXTENDS JobsProofs, FiniteSetTheorems

-----------------------------------------------------------------------------
(* Whether a module is active and what its job lists.  NoForgottenJob and  *)
(* StoppedListsNothing are not inductive: that a transition may end with   *)
(* the job reported stopped, failed or waiting rests on the module having  *)
(* been stopped, or never started, on the way there, and that a completion *)
(* may be accepted rests on the worker having taken its module down.       *)

\* The steps at which a transition has no module active.
InactiveAt(t) ==
    \/ pc[t] \in {"start_drop", "start_publish", "start_starting", "stop_commit"}
    \/ pc[t] = "start_drain" /\ ~frame[t].stop
    \/ pc[t] = "start_commit" /\ frame[t].ret # "ok"
TickInactive ==
    \/ tpc \in {"retry_starting", "deferred_commit"}
    \/ tpc = "retry_commit" /\ tick.ret # "ok"

TransitionsInactive ==
    /\ \A t \in Task : InactiveAt(t) => active[frame[t].job] = 0
    /\ TickInactive => active[tick.job] = 0

\* The module of a job whose current worker has not reported is the current
\* incarnation, and has been taken down once the worker is about to report.
WorkersActive ==
    \A j \in Job : /\ CurrentWorker(j) => active[j] \in {0, gen[j]}
                   /\ <<j, gen[j]>> \in reporting => active[j] = 0

\* Nothing is noted for a job that is being stopped.
StopsListNothing ==
    /\ \A t \in Task : pc[t] \in {"stop_drain", "stop_stopping", "stop_commit"}
                           => ~noted[frame[t].job]
    /\ \A j \in Job : stopAfter[j] => ~noted[j]
    /\ tpc \in {"deferred_stopping", "deferred_commit"} => ~noted[tick.job]

ModuleInv == /\ NoForgottenJob
             /\ TransitionsInactive
             /\ WorkersActive
             /\ StoppedListsNothing
             /\ StopsListNothing

-----------------------------------------------------------------------------
(* Where the pending start records are.                                    *)

\* The places that can hold a record: the job's runtime, the local variables
\* of a call, and the tick's local variable between its commit and its free.
Place == ({"pending"} \X Job) \cup ({"new", "old"} \X Task) \cup {<<"tick", Main>>}

Held == [x \in Place |->
            CASE x[1] = "pending" -> pending[x[2]]
              [] x[1] = "new" -> frame[x[2]].new
              [] x[1] = "old" -> frame[x[2]].old
              [] x[1] = "tick" -> IF tpc = "retry_drop" THEN tick.pend ELSE NoRec]

\* A record is in one place, and the places hold exactly the records allocated.
OneHolder ==
    /\ \A x, y \in Place : Held[x] = Held[y] /\ Held[x] # NoRec => x = y
    /\ \A r \in Rec : r \in live <=> \E x \in Place : Held[x] = r

\* When a call can hold a record of its own, and one it took from the job.
NewAt == {"start_reserve", "start_drain", "start_stopping", "start_drop",
          "start_publish", "start_commit"}
OldAt == {"start_drain", "start_stopping", "start_drop", "stop_drop"}

CallsHold ==
    /\ \A t \in Task : /\ frame[t].new # NoRec => pc[t] \in NewAt
                       /\ frame[t].old # NoRec => pc[t] \in OldAt
    /\ tpc = "retry_drop" => tick.pend # NoRec

\* The records of launches that were published, and the publications whose
\* count is still to be added.
Launches == live \ {frame[t].new : t \in Task}
Noting == {t \in Task : pc[t] = "start_note"}

WaitersCovered ==
    /\ IsFiniteSet(live)
    /\ IsFiniteSet(Noting)
    /\ Cardinality(Launches) <= waiting + Cardinality(Noting)

RecordInv == OneHolder /\ CallsHold /\ WaitersCovered

-----------------------------------------------------------------------------
(* Every action preserves ModuleInv.                                       *)

\* The owner of a transition has its job to itself.
Exclusive ==
    /\ \A t \in Task : pc[t] \in ReservedPc =>
          /\ frame[t].job \in Job
          /\ busy[frame[t].job]
          /\ ~stopAfter[frame[t].job]
          /\ tpc \in TickReservedPc => tick.job # frame[t].job
          /\ \A u \in Task : pc[u] \in ReservedPc /\ u # t => frame[u].job # frame[t].job
    /\ tpc \in TickReservedPc => busy[tick.job] /\ ~stopAfter[tick.job]
    /\ \A j \in Job : stopAfter[j] => busy[j]

\* What BusyOwned says to the owner of a transition.
LEMMA IInvExclusive == IInv => Exclusive
  BY DEF IInv, TypeOK, Frame, TickFrame, BusyOwned, OwnedOnce, Reserved, TickReserved, Exclusive

\* The types of the calls' frames and of the tick's.
LEMMA FramesTyped ==
    IInv => /\ tick \in TickFrame /\ tick.job \in Job
            /\ \A u \in Task : frame[u] \in Frame /\ frame[u].job \in Job
  BY DEF IInv, TypeOK, Frame, TickFrame

\* The steps of a call that only pass the job on.
LEMMA CallMovesModule ==
    ASSUME IInv, ModuleInv, NEW t \in Task,
           StartDrain(t) \/ StartDropOld(t) \/ StartNote(t) \/
           StopDropPending(t) \/ StopDrain(t)
    PROVE  ModuleInv'
<1>. USE DEF ModuleInv, StartDrain, StartDropOld, StartNote, StopDropPending, StopDrain, Goto, runtime
<1>1. tick \in TickFrame /\ tick.job \in Job /\ \A u \in Task : frame[u] \in Frame /\ frame[u].job \in Job
  BY FramesTyped
<1>2. Exclusive
  BY IInvExclusive
<1>3. NoForgottenJob'
  BY DEF NoForgottenJob
<1>4. TransitionsInactive'
  BY <1>1 DEF IInv, TypeOK, TransitionsInactive, InactiveAt, TickInactive, Frame
<1>5. WorkersActive'
  BY DEF WorkersActive, CurrentWorker
<1>6. StoppedListsNothing'
  BY DEF StoppedListsNothing
<1>7. StopsListNothing'
  BY DEF IInv, TypeOK, StopsListNothing
<1>. QED  BY <1>3, <1>4, <1>5, <1>6, <1>7

\* The steps of the tick that only look at the registry or free a record.
LEMMA TickMovesModule ==
    ASSUME IInv, ModuleInv, \/ TickBegin \/ RetrySnapshot \/ RetrySkip
                             \/ RetryDrop \/ EventEnter \/ EventSkip
    PROVE  ModuleInv'
<1>. USE DEF ModuleInv, TickBegin, RetrySnapshot, RetrySkip, RetryDrop, EventEnter, EventSkip, InTick, NextIndex, runtime
<1>1. tick \in TickFrame /\ tick.job \in Job /\ \A u \in Task : frame[u] \in Frame /\ frame[u].job \in Job
  BY FramesTyped
<1>2. Exclusive
  BY IInvExclusive
<1>3. NoForgottenJob'
  BY DEF NoForgottenJob
<1>4. TransitionsInactive'
  BY DEF TransitionsInactive, InactiveAt, TickInactive
<1>5. WorkersActive'
  BY DEF WorkersActive, CurrentWorker
<1>6. StoppedListsNothing'
  BY DEF StoppedListsNothing
<1>7. StopsListNothing'
  BY DEF StopsListNothing
<1>. QED  BY <1>3, <1>4, <1>5, <1>6, <1>7

\* A call arrives: its frame names a job, and the job is not touched.
LEMMA StartCallModule ==
    ASSUME IInv, ModuleInv, NEW t \in Task, NEW j \in Job, StartCall(t, j)
    PROVE  ModuleInv'
<1>. USE DEF ModuleInv, StartCall, CanCall, Goto, runtime
<1>1. tick \in TickFrame /\ tick.job \in Job /\ \A u \in Task : frame[u] \in Frame /\ frame[u].job \in Job
  BY FramesTyped
<1>2. Exclusive
  BY IInvExclusive
<1>3. NoForgottenJob'
  BY DEF NoForgottenJob
<1>4. TransitionsInactive'
  BY DEF IInv, TypeOK, TransitionsInactive, InactiveAt, TickInactive
<1>5. WorkersActive'
  BY DEF WorkersActive, CurrentWorker
<1>6. StoppedListsNothing'
  BY DEF StoppedListsNothing
<1>7. StopsListNothing'
  BY DEF IInv, TypeOK, StopsListNothing
<1>. QED  BY <1>3, <1>4, <1>5, <1>6, <1>7

\* A start takes its job; a module that runs is remembered in the frame.
LEMMA StartReserveModule ==
    ASSUME IInv, ModuleInv, NEW t \in Task, StartReserve(t)
    PROVE  ModuleInv'
<1>. USE DEF ModuleInv, StartReserve, Goto, StartRefused, runtime
<1>1. tick \in TickFrame /\ tick.job \in Job /\ \A u \in Task : frame[u] \in Frame /\ frame[u].job \in Job
  BY FramesTyped
<1>2. Exclusive
  BY IInvExclusive
<1>3. NoForgottenJob'
  <2>1. CASE StartRefused(frame[t].job, t)
    BY <2>1 DEF NoForgottenJob
  <2>2. CASE ~StartRefused(frame[t].job, t)
    BY DEF IInv, TypeOK, NoForgottenJob
  <2>. QED  BY <2>1, <2>2
<1>4. TransitionsInactive'
  <2>1. CASE StartRefused(frame[t].job, t)
    BY <2>1 DEF IInv, TypeOK, TransitionsInactive, InactiveAt, TickInactive
  <2>2. CASE ~StartRefused(frame[t].job, t)
    <3>1. ASSUME NEW u \in Task, InactiveAt(u)' PROVE active[frame'[u].job] = 0
      <4>1. CASE u = t
        <5>1. pc'[t] = "start_drain" /\ frame'[t].job = frame[t].job
          BY <2>2 DEF IInv, TypeOK, Frame
        <5>2. frame'[t].stop = (state[frame[t].job] = "running")
          BY <2>2 DEF IInv, TypeOK, Frame
        <5>3. state[frame[t].job] # "running"
          BY <3>1, <4>1, <5>1, <5>2 DEF InactiveAt
        <5>. QED  BY <1>1, <2>2, <4>1, <5>1, <5>3 DEF NoForgottenJob
      <4>2. CASE u # t
        BY <3>1, <4>2 DEF IInv, TypeOK, InactiveAt, TransitionsInactive
      <4>. QED  BY <4>1, <4>2
    <3>. QED  BY <2>2, <3>1 DEF TransitionsInactive, TickInactive
  <2>. QED  BY <2>1, <2>2
<1>5. WorkersActive'
  BY DEF IInv, TypeOK, WorkersActive, CurrentWorker, WorkersStarted
<1>6. StoppedListsNothing'
  BY DEF IInv, TypeOK, StoppedListsNothing
<1>7. StopsListNothing'
  <2>1. CASE StartRefused(frame[t].job, t)
    BY <2>1 DEF IInv, TypeOK, StopsListNothing
  <2>2. CASE ~StartRefused(frame[t].job, t)
    <3>1. \A j \in Job : noted'[j] => noted[j]
      BY DEF IInv, TypeOK
    <3>2. ASSUME NEW u \in Task, pc'[u] \in {"stop_drain", "stop_stopping", "stop_commit"}
          PROVE  ~noted'[frame'[u].job]
      <4>1. u # t /\ pc[u] = pc'[u] /\ frame'[u] = frame[u]
        BY <3>2 DEF IInv, TypeOK
      <4>. QED  BY <1>1, <3>1, <3>2, <4>1 DEF StopsListNothing
    <3>. QED  BY <1>1, <2>2, <3>1, <3>2 DEF StopsListNothing
  <2>. QED  BY <2>1, <2>2
<1>. QED  BY <1>3, <1>4, <1>5, <1>6, <1>7

\* The module that ran is stopped before the new start.
LEMMA StartStopReturnModule ==
    ASSUME IInv, ModuleInv, NEW t \in Task, StartStopReturn(t)
    PROVE  ModuleInv'
<1>. USE DEF ModuleInv, StartStopReturn, Goto, StopCallback, runtime
<1>1. tick \in TickFrame /\ tick.job \in Job /\ \A u \in Task : frame[u] \in Frame /\ frame[u].job \in Job
  BY FramesTyped
<1>2. Exclusive
  BY IInvExclusive
<1>3. NoForgottenJob'
  BY DEF NoForgottenJob
<1>4. TransitionsInactive'
  BY <1>1 DEF IInv, TypeOK, TransitionsInactive, InactiveAt, TickInactive
<1>5. WorkersActive'
  BY DEF WorkersActive, CurrentWorker
<1>6. StoppedListsNothing'
  BY DEF StoppedListsNothing
<1>7. StopsListNothing'
  BY DEF StopsListNothing
<1>. QED  BY <1>3, <1>4, <1>5, <1>6, <1>7

\* A published start leaves a job whose module does not run.
LEMMA StartPublishModule ==
    ASSUME IInv, ModuleInv, NEW t \in Task, StartPublish(t)
    PROVE  ModuleInv'
<1>. USE DEF ModuleInv, StartPublish, Goto, StillOwns, runtime
<1>1. tick \in TickFrame /\ tick.job \in Job /\ \A u \in Task : frame[u] \in Frame /\ frame[u].job \in Job
  BY FramesTyped
<1>2. Exclusive
  BY IInvExclusive
<1>3. NoForgottenJob'
  <2>1. CASE StillOwns(frame[t].job, frame[t].gen)
    <3>1. active[frame[t].job] = 0
      BY DEF TransitionsInactive, InactiveAt
    <3>. QED  BY <1>1, <2>1, <3>1 DEF IInv, TypeOK, NoForgottenJob
  <2>2. CASE ~StillOwns(frame[t].job, frame[t].gen)
    BY <2>2 DEF NoForgottenJob
  <2>. QED  BY <2>1, <2>2
<1>4. TransitionsInactive'
  BY DEF IInv, TypeOK, TransitionsInactive, InactiveAt, TickInactive
<1>5. WorkersActive'
  BY DEF WorkersActive, CurrentWorker
<1>6. StoppedListsNothing'
  BY DEF IInv, TypeOK, StoppedListsNothing
<1>7. StopsListNothing'
  BY DEF IInv, TypeOK, StopsListNothing
<1>. QED  BY <1>3, <1>4, <1>5, <1>6, <1>7

\* The start callback of a call.
LEMMA StartReturnModule ==
    ASSUME IInv, ModuleInv, NEW t \in Task, NEW ret \in StartResult, StartReturn(t, ret)
    PROVE  ModuleInv'
<1>. USE DEF ModuleInv, StartReturn, Goto, StartCallback, runtime
<1>1. tick \in TickFrame /\ tick.job \in Job /\ \A u \in Task : frame[u] \in Frame /\ frame[u].job \in Job
  BY FramesTyped
<1>2. Exclusive
  BY IInvExclusive
<1>3. NoForgottenJob'
  BY <1>2 DEF NoForgottenJob, Exclusive, ReservedPc
<1>4. TransitionsInactive'
  BY <1>2 DEF IInv, TypeOK, TransitionsInactive, InactiveAt, TickInactive, Exclusive, ReservedPc, TickReservedPc
<1>5. WorkersActive'
  BY <1>2 DEF IInv, TypeOK, WorkersActive, CurrentWorker, WorkersStarted, Launching, TickLaunching, Exclusive, ReservedPc, TickReservedPc
<1>6. StoppedListsNothing'
  BY <1>2 DEF StoppedListsNothing, Exclusive, ReservedPc
<1>7. StopsListNothing'
  BY <1>2 DEF IInv, TypeOK, StopsListNothing, Exclusive, ReservedPc, TickReservedPc
<1>. QED  BY <1>3, <1>4, <1>5, <1>6, <1>7

\* Only a start that succeeded leaves an active module, reported running.
LEMMA StartCommitModule ==
    ASSUME IInv, ModuleInv, NEW t \in Task, StartCommit(t)
    PROVE  ModuleInv'
<1>. USE DEF ModuleInv, StartCommit, Goto, StillOwns, ClearNotesIf, runtime
<1>1. tick \in TickFrame /\ tick.job \in Job /\ \A u \in Task : frame[u] \in Frame /\ frame[u].job \in Job
  BY FramesTyped
<1>2. Exclusive
  BY IInvExclusive
<1>3. NoForgottenJob'
  BY DEF IInv, TypeOK, NoForgottenJob, TransitionsInactive, InactiveAt, NewRecords
<1>4. TransitionsInactive'
  BY DEF IInv, TypeOK, TransitionsInactive, InactiveAt, TickInactive
<1>5. WorkersActive'
  BY DEF WorkersActive, CurrentWorker
<1>6. StoppedListsNothing'
  BY DEF IInv, TypeOK, StoppedListsNothing
<1>7. StopsListNothing'
  BY <1>1 DEF IInv, TypeOK, StopsListNothing, StoppedListsNothing
<1>. QED  BY <1>3, <1>4, <1>5, <1>6, <1>7

\* A stop takes a running job, or drops what a job that does not run has.
LEMMA StopReserveModule ==
    ASSUME IInv, ModuleInv, NEW t \in Task, NEW j \in Job, StopReserve(t, j)
    PROVE  ModuleInv'
<1>. USE DEF ModuleInv, StopReserve, CanCall, Goto, OwnCallback, runtime
<1>1. tick \in TickFrame /\ tick.job \in Job /\ \A u \in Task : frame[u] \in Frame /\ frame[u].job \in Job
  BY FramesTyped
<1>2. Exclusive
  BY IInvExclusive
<1>3. NoForgottenJob'
  BY DEF IInv, TypeOK, NoForgottenJob
<1>4. TransitionsInactive'
  BY DEF IInv, TypeOK, TransitionsInactive, InactiveAt, TickInactive, Exclusive, ReservedPc
<1>5. WorkersActive'
  BY DEF IInv, TypeOK, WorkersActive, CurrentWorker, WorkersStarted
<1>6. StoppedListsNothing'
  BY DEF IInv, TypeOK, StoppedListsNothing
<1>7. StopsListNothing'
  <2>1. \A k \in Job : noted'[k] => noted[k] /\ k # j
    BY DEF IInv, TypeOK
  <2>2. ASSUME NEW u \in Task, pc'[u] \in {"stop_drain", "stop_stopping", "stop_commit"}
        PROVE  ~noted'[frame'[u].job]
    <3>1. CASE u = t
      <4>1. state[j] = "running"
        BY <2>2, <3>1 DEF IInv, TypeOK
      <4>2. frame'[t].job = j
        BY <4>1 DEF IInv, TypeOK, Frame
      <4>. QED  BY <2>1, <3>1, <4>2
    <3>2. CASE u # t
      BY <2>2, <3>2 DEF IInv, TypeOK, StopsListNothing
    <3>. QED  BY <3>1, <3>2
  <2>. QED  BY <1>1, <2>1, <2>2 DEF IInv, TypeOK, StopsListNothing
<1>. QED  BY <1>3, <1>4, <1>5, <1>6, <1>7

\* The stop callback of a call.
LEMMA StopReturnModule ==
    ASSUME IInv, ModuleInv, NEW t \in Task, StopReturn(t)
    PROVE  ModuleInv'
<1>. USE DEF ModuleInv, StopReturn, Goto, StopCallback, runtime
<1>1. tick \in TickFrame /\ tick.job \in Job /\ \A u \in Task : frame[u] \in Frame /\ frame[u].job \in Job
  BY FramesTyped
<1>2. Exclusive
  BY IInvExclusive
<1>3. NoForgottenJob'
  BY DEF NoForgottenJob
<1>4. TransitionsInactive'
  BY <1>1 DEF IInv, TypeOK, TransitionsInactive, InactiveAt, TickInactive
<1>5. WorkersActive'
  BY DEF WorkersActive, CurrentWorker
<1>6. StoppedListsNothing'
  BY DEF StoppedListsNothing
<1>7. StopsListNothing'
  BY DEF StopsListNothing
<1>. QED  BY <1>3, <1>4, <1>5, <1>6, <1>7

\* A stop ends with the module down and nothing noted.
LEMMA StopCommitModule ==
    ASSUME IInv, ModuleInv, NEW t \in Task, StopCommit(t)
    PROVE  ModuleInv'
<1>. USE DEF ModuleInv, StopCommit, Goto, CompleteStop, StillOwns, runtime
<1>1. tick \in TickFrame /\ tick.job \in Job /\ \A u \in Task : frame[u] \in Frame /\ frame[u].job \in Job
  BY FramesTyped
<1>2. Exclusive
  BY IInvExclusive
<1>3. NoForgottenJob'
  BY DEF NoForgottenJob, TransitionsInactive, InactiveAt
<1>4. TransitionsInactive'
  BY DEF TransitionsInactive, InactiveAt, TickInactive
<1>5. WorkersActive'
  BY DEF WorkersActive, CurrentWorker
<1>6. StoppedListsNothing'
  BY DEF StoppedListsNothing, StopsListNothing
<1>7. StopsListNothing'
  BY DEF StopsListNothing
<1>. QED  BY <1>3, <1>4, <1>5, <1>6, <1>7

\* A retry takes a waiting job.
LEMMA RetryClaimModule ==
    ASSUME IInv, ModuleInv, RetryClaim
    PROVE  ModuleInv'
<1>. USE DEF ModuleInv, RetryClaim, InTick, ClaimHolds, runtime
<1>1. tick \in TickFrame /\ tick.job \in Job /\ \A u \in Task : frame[u] \in Frame /\ frame[u].job \in Job
  BY FramesTyped
<1>2. Exclusive
  BY IInvExclusive
<1>3. NoForgottenJob'
  BY DEF IInv, TypeOK, NoForgottenJob
<1>4. TransitionsInactive'
  BY <1>1 DEF NoForgottenJob, TransitionsInactive, InactiveAt, TickInactive
<1>5. WorkersActive'
  BY DEF WorkersActive, CurrentWorker
<1>6. StoppedListsNothing'
  BY DEF IInv, TypeOK, StoppedListsNothing
<1>7. StopsListNothing'
  BY DEF StopsListNothing
<1>. QED  BY <1>3, <1>4, <1>5, <1>6, <1>7

\* The start callback of a retry.
LEMMA RetryReturnModule ==
    ASSUME IInv, ModuleInv, NEW ret \in StartResult, RetryReturn(ret)
    PROVE  ModuleInv'
<1>. USE DEF ModuleInv, RetryReturn, InTick, StartCallback, runtime
<1>1. tick \in TickFrame /\ tick.job \in Job /\ \A u \in Task : frame[u] \in Frame /\ frame[u].job \in Job
  BY FramesTyped
<1>2. Exclusive
  BY IInvExclusive
<1>3. NoForgottenJob'
  BY <1>2 DEF NoForgottenJob, Exclusive, TickReservedPc
<1>4. TransitionsInactive'
  BY <1>2 DEF TransitionsInactive, InactiveAt, TickInactive, Exclusive, ReservedPc, TickReservedPc
<1>5. WorkersActive'
  BY <1>2 DEF IInv, TypeOK, WorkersActive, CurrentWorker, WorkersStarted, Launching, TickLaunching, Exclusive, ReservedPc, TickReservedPc
<1>6. StoppedListsNothing'
  BY <1>2 DEF StoppedListsNothing, Exclusive, TickReservedPc
<1>7. StopsListNothing'
  BY <1>2 DEF StopsListNothing, Exclusive, ReservedPc, TickReservedPc
<1>. QED  BY <1>3, <1>4, <1>5, <1>6, <1>7

\* Only a retry that succeeded leaves an active module, reported running.
LEMMA RetryCommitModule ==
    ASSUME IInv, ModuleInv, RetryCommit
    PROVE  ModuleInv'
<1>. USE DEF ModuleInv, RetryCommit, InTick, CommitHolds, ClearNotesIf, runtime
<1>1. tick \in TickFrame /\ tick.job \in Job /\ \A u \in Task : frame[u] \in Frame /\ frame[u].job \in Job
  BY FramesTyped
<1>2. Exclusive
  BY IInvExclusive
<1>3. NoForgottenJob'
  BY DEF IInv, TypeOK, NoForgottenJob, TransitionsInactive, TickInactive
<1>4. TransitionsInactive'
  BY DEF TransitionsInactive, InactiveAt, TickInactive
<1>5. WorkersActive'
  BY DEF WorkersActive, CurrentWorker
<1>6. StoppedListsNothing'
  BY DEF IInv, TypeOK, StoppedListsNothing
<1>7. StopsListNothing'
  BY <1>1 DEF IInv, TypeOK, StopsListNothing
<1>. QED  BY <1>3, <1>4, <1>5, <1>6, <1>7

\* The tick callback ends; the tick takes over a stop asked for inside it.
LEMMA EventReturnModule ==
    ASSUME IInv, ModuleInv, EventReturn
    PROVE  ModuleInv'
<1>. USE DEF ModuleInv, EventReturn, InTick, NextIndex, DeferredStopDue, runtime
<1>1. tick \in TickFrame /\ tick.job \in Job /\ \A u \in Task : frame[u] \in Frame /\ frame[u].job \in Job
  BY FramesTyped
<1>2. Exclusive
  BY IInvExclusive
<1>3. NoForgottenJob'
  BY DEF NoForgottenJob
<1>4. TransitionsInactive'
  BY DEF TransitionsInactive, InactiveAt, TickInactive
<1>5. WorkersActive'
  BY DEF WorkersActive, CurrentWorker
<1>6. StoppedListsNothing'
  BY DEF StoppedListsNothing
<1>7. StopsListNothing'
  BY DEF IInv, TypeOK, StopsListNothing, TickFrame
<1>. QED  BY <1>3, <1>4, <1>5, <1>6, <1>7

\* The stop callback of a deferred stop.
LEMMA DeferredReturnModule ==
    ASSUME IInv, ModuleInv, DeferredReturn
    PROVE  ModuleInv'
<1>. USE DEF ModuleInv, DeferredReturn, InTick, StopCallback, runtime
<1>1. tick \in TickFrame /\ tick.job \in Job /\ \A u \in Task : frame[u] \in Frame /\ frame[u].job \in Job
  BY FramesTyped
<1>2. Exclusive
  BY IInvExclusive
<1>3. NoForgottenJob'
  BY DEF NoForgottenJob
<1>4. TransitionsInactive'
  BY <1>1 DEF IInv, TypeOK, TransitionsInactive, InactiveAt
<1>5. WorkersActive'
  BY DEF WorkersActive, CurrentWorker
<1>6. StoppedListsNothing'
  BY DEF StoppedListsNothing
<1>7. StopsListNothing'
  BY DEF StopsListNothing
<1>. QED  BY <1>3, <1>4, <1>5, <1>6, <1>7

\* A deferred stop ends with the module down and nothing noted.
LEMMA DeferredCommitModule ==
    ASSUME IInv, ModuleInv, DeferredCommit
    PROVE  ModuleInv'
<1>. USE DEF ModuleInv, DeferredCommit, InTick, CompleteStop, StillOwns, NextIndex, runtime
<1>1. tick \in TickFrame /\ tick.job \in Job /\ \A u \in Task : frame[u] \in Frame /\ frame[u].job \in Job
  BY FramesTyped
<1>2. Exclusive
  BY IInvExclusive
<1>3. NoForgottenJob'
  BY DEF NoForgottenJob, TransitionsInactive, TickInactive
<1>4. TransitionsInactive'
  BY DEF TransitionsInactive, InactiveAt, TickInactive
<1>5. WorkersActive'
  BY DEF WorkersActive, CurrentWorker
<1>6. StoppedListsNothing'
  BY DEF StoppedListsNothing, StopsListNothing
<1>7. StopsListNothing'
  BY DEF StopsListNothing
<1>. QED  BY <1>3, <1>4, <1>5, <1>6, <1>7

\* A worker takes its module down.
LEMMA WorkerCleanupModule ==
    ASSUME IInv, ModuleInv, NEW j \in Job, NEW g \in Nat, WorkerCleanup(j, g)
    PROVE  ModuleInv'
<1>. USE DEF ModuleInv, WorkerCleanup, runtime
<1>1. tick \in TickFrame /\ tick.job \in Job /\ \A u \in Task : frame[u] \in Frame /\ frame[u].job \in Job
  BY FramesTyped
<1>2. Exclusive
  BY IInvExclusive
<1>3. NoForgottenJob'
  BY DEF NoForgottenJob
<1>4. TransitionsInactive'
  BY DEF TransitionsInactive, InactiveAt, TickInactive
<1>5. WorkersActive'
  BY DEF IInv, TypeOK, WorkersActive, CurrentWorker
<1>6. StoppedListsNothing'
  BY DEF StoppedListsNothing
<1>7. StopsListNothing'
  BY DEF StopsListNothing
<1>. QED  BY <1>3, <1>4, <1>5, <1>6, <1>7

\* A completion is accepted of a worker that has taken its module down.
LEMMA WorkerReportModule ==
    ASSUME IInv, ModuleInv, NEW j \in Job, NEW g \in Nat, WorkerReport(j, g)
    PROVE  ModuleInv'
<1>. USE DEF ModuleInv, WorkerReport, ReportAccepted, runtime
<1>1. tick \in TickFrame /\ tick.job \in Job /\ \A u \in Task : frame[u] \in Frame /\ frame[u].job \in Job
  BY FramesTyped
<1>2. Exclusive
  BY IInvExclusive
<1>3. NoForgottenJob'
  <2>1. ReportAccepted(j, g) => active[j] = 0
    BY DEF WorkersActive
  <2>. QED  BY <2>1 DEF IInv, TypeOK, NoForgottenJob
<1>4. TransitionsInactive'
  BY DEF TransitionsInactive, InactiveAt, TickInactive
<1>5. WorkersActive'
  BY DEF WorkersActive, CurrentWorker
<1>6. StoppedListsNothing'
  BY DEF IInv, TypeOK, StoppedListsNothing
<1>7. StopsListNothing'
  BY DEF IInv, TypeOK, StopsListNothing
<1>. QED  BY <1>3, <1>4, <1>5, <1>6, <1>7

-----------------------------------------------------------------------------
(* The ways a step moves records between places.                           *)

TickHeld == IF tpc = "retry_drop" THEN tick.pend ELSE NoRec

\* The places, one kind at a time.
LEMMA PlaceCases ==
    \A x \in Place : \/ \E j \in Job : x = <<"pending", j>>
                     \/ \E t \in Task : x = <<"new", t>>
                     \/ \E t \in Task : x = <<"old", t>>
                     \/ x = <<"tick", Main>>
  BY DEF Place

\* What each place holds.
HeldByKind ==
    /\ \A j \in Job : <<"pending", j>> \in Place /\ Held[<<"pending", j>>] = pending[j]
    /\ \A t \in Task : <<"new", t>> \in Place /\ Held[<<"new", t>>] = frame[t].new
    /\ \A t \in Task : <<"old", t>> \in Place /\ Held[<<"old", t>>] = frame[t].old
    /\ <<"tick", Main>> \in Place /\ Held[<<"tick", Main>>] = TickHeld
    /\ Held = [x \in Place |-> Held[x]]

LEMMA HeldValues == HeldByKind
<1>1. \A j \in Job : <<"pending", j>> \in Place
  BY DEF Place
<1>2. \A t \in Task : <<"new", t>> \in Place /\ <<"old", t>> \in Place
  BY DEF Place
<1>3. <<"tick", Main>> \in Place
  BY DEF Place
<1>4. Held = [x \in Place |-> Held[x]]
  <2>. DEFINE H(x) == CASE x[1] = "pending" -> pending[x[2]]
                        [] x[1] = "new" -> frame[x[2]].new
                        [] x[1] = "old" -> frame[x[2]].old
                        [] x[1] = "tick" -> TickHeld
  <2>1. Held = [x \in Place |-> H(x)]
    BY DEF Held, TickHeld
  <2>. HIDE DEF H
  <2>. QED  BY <2>1
<1>. QED  BY <1>1, <1>2, <1>3, <1>4 DEF HeldByKind, Held, TickHeld

LEMMA HeldValuesNext == HeldByKind'
<1>1. HeldByKind
  BY HeldValues
<1>. QED  BY <1>1, PTL

\* The calls and the tick keep their own records.
NewKept == \A t \in Task : frame'[t].new = frame[t].new
OldKept == \A t \in Task : frame'[t].old = frame[t].old
TickKept == TickHeld' = TickHeld

\* A call allocates its record, or gives it up.
NewSet(t, r) ==
    \A u \in Task : frame'[u].new = IF u = t THEN r ELSE frame[u].new
OldSet(t, r) ==
    \A u \in Task : frame'[u].old = IF u = t THEN r ELSE frame[u].old

LEMMA NothingMoved ==
    ASSUME pending' = pending, NewKept, OldKept, TickKept
    PROVE  Held' = Held
<1>1. ASSUME NEW x \in Place
      PROVE  Held'[x] = Held[x]
  <2>1. CASE \E j \in Job : x = <<"pending", j>>
    BY <2>1, HeldValues, HeldValuesNext DEF HeldByKind, NewKept, OldKept, TickKept
  <2>2. ASSUME NEW u \in Task, x = <<"new", u>>
        PROVE  Held'[x] = Held[x]
    <3>1. Held[x] = frame[u].new /\ Held'[x] = frame'[u].new
      BY <2>2, HeldValues, HeldValuesNext DEF HeldByKind
    <3>. QED  BY <2>2, <3>1 DEF NewKept, OldKept, TickKept
  <2>3. ASSUME NEW u \in Task, x = <<"old", u>>
        PROVE  Held'[x] = Held[x]
    <3>1. Held[x] = frame[u].old /\ Held'[x] = frame'[u].old
      BY <2>3, HeldValues, HeldValuesNext DEF HeldByKind
    <3>. QED  BY <2>3, <3>1 DEF NewKept, OldKept, TickKept
  <2>4. CASE x = <<"tick", Main>>
    BY <2>4, HeldValues, HeldValuesNext DEF HeldByKind, NewKept, OldKept, TickKept
  <2>. QED  BY <2>1, <2>2, <2>3, <2>4, PlaceCases
<1>. QED  BY <1>1, HeldValues, HeldValuesNext DEF HeldByKind

LEMMA NewMoved ==
    ASSUME NEW t \in Task, NEW r, pending' = pending, NewSet(t, r), OldKept, TickKept
    PROVE  Held' = [Held EXCEPT ![<<"new", t>>] = r]
<1>1. ASSUME NEW x \in Place
      PROVE  Held'[x] = IF x = <<"new", t>> THEN r ELSE Held[x]
  <2>1. CASE \E j \in Job : x = <<"pending", j>>
    BY <2>1, HeldValues, HeldValuesNext DEF HeldByKind, NewSet, OldKept, TickKept
  <2>2. ASSUME NEW u \in Task, x = <<"new", u>>
        PROVE  Held'[x] = IF x = <<"new", t>> THEN r ELSE Held[x]
    <3>1. Held[x] = frame[u].new /\ Held'[x] = frame'[u].new
      BY <2>2, HeldValues, HeldValuesNext DEF HeldByKind
    <3>. QED  BY <2>2, <3>1 DEF NewSet, OldKept, TickKept
  <2>3. ASSUME NEW u \in Task, x = <<"old", u>>
        PROVE  Held'[x] = IF x = <<"new", t>> THEN r ELSE Held[x]
    <3>1. Held[x] = frame[u].old /\ Held'[x] = frame'[u].old
      BY <2>3, HeldValues, HeldValuesNext DEF HeldByKind
    <3>. QED  BY <2>3, <3>1 DEF NewSet, OldKept, TickKept
  <2>4. CASE x = <<"tick", Main>>
    BY <2>4, HeldValues, HeldValuesNext DEF HeldByKind, NewSet, OldKept, TickKept
  <2>. QED  BY <2>1, <2>2, <2>3, <2>4, PlaceCases
<1>. QED  BY <1>1, HeldValues, HeldValuesNext DEF HeldByKind

LEMMA OldMoved ==
    ASSUME NEW t \in Task, NEW r, pending' = pending, NewKept, OldSet(t, r), TickKept
    PROVE  Held' = [Held EXCEPT ![<<"old", t>>] = r]
<1>1. ASSUME NEW x \in Place
      PROVE  Held'[x] = IF x = <<"old", t>> THEN r ELSE Held[x]
  <2>1. CASE \E j \in Job : x = <<"pending", j>>
    BY <2>1, HeldValues, HeldValuesNext DEF HeldByKind, NewKept, OldSet, TickKept
  <2>2. ASSUME NEW u \in Task, x = <<"new", u>>
        PROVE  Held'[x] = IF x = <<"old", t>> THEN r ELSE Held[x]
    <3>1. Held[x] = frame[u].new /\ Held'[x] = frame'[u].new
      BY <2>2, HeldValues, HeldValuesNext DEF HeldByKind
    <3>. QED  BY <2>2, <3>1 DEF NewKept, OldSet, TickKept
  <2>3. ASSUME NEW u \in Task, x = <<"old", u>>
        PROVE  Held'[x] = IF x = <<"old", t>> THEN r ELSE Held[x]
    <3>1. Held[x] = frame[u].old /\ Held'[x] = frame'[u].old
      BY <2>3, HeldValues, HeldValuesNext DEF HeldByKind
    <3>. QED  BY <2>3, <3>1 DEF NewKept, OldSet, TickKept
  <2>4. CASE x = <<"tick", Main>>
    BY <2>4, HeldValues, HeldValuesNext DEF HeldByKind, NewKept, OldSet, TickKept
  <2>. QED  BY <2>1, <2>2, <2>3, <2>4, PlaceCases
<1>. QED  BY <1>1, HeldValues, HeldValuesNext DEF HeldByKind

LEMMA TickMoved ==
    ASSUME pending' = pending, NewKept, OldKept
    PROVE  Held' = [Held EXCEPT ![<<"tick", Main>>] = TickHeld']
<1>1. ASSUME NEW x \in Place
      PROVE  Held'[x] = IF x = <<"tick", Main>> THEN TickHeld' ELSE Held[x]
  <2>1. CASE \E j \in Job : x = <<"pending", j>>
    BY <2>1, HeldValues, HeldValuesNext DEF HeldByKind, NewKept, OldKept
  <2>2. ASSUME NEW u \in Task, x = <<"new", u>>
        PROVE  Held'[x] = IF x = <<"tick", Main>> THEN TickHeld' ELSE Held[x]
    <3>1. Held[x] = frame[u].new /\ Held'[x] = frame'[u].new
      BY <2>2, HeldValues, HeldValuesNext DEF HeldByKind
    <3>. QED  BY <2>2, <3>1 DEF NewKept, OldKept
  <2>3. ASSUME NEW u \in Task, x = <<"old", u>>
        PROVE  Held'[x] = IF x = <<"tick", Main>> THEN TickHeld' ELSE Held[x]
    <3>1. Held[x] = frame[u].old /\ Held'[x] = frame'[u].old
      BY <2>3, HeldValues, HeldValuesNext DEF HeldByKind
    <3>. QED  BY <2>3, <3>1 DEF NewKept, OldKept
  <2>4. CASE x = <<"tick", Main>>
    BY <2>4, HeldValues, HeldValuesNext DEF HeldByKind, NewKept, OldKept
  <2>. QED  BY <2>1, <2>2, <2>3, <2>4, PlaceCases
<1>. QED  BY <1>1, HeldValues, HeldValuesNext DEF HeldByKind

\* The job's record changes.
PendingSet(j, r) ==
    \A k \in Job : pending'[k] = IF k = j THEN r ELSE pending[k]

\* A call takes the record a job had.
LEMMA PendingToOld ==
    ASSUME NEW t \in Task, NEW j \in Job,
           PendingSet(j, NoRec), NewKept, OldSet(t, pending[j]), TickKept
    PROVE  Held' = [Held EXCEPT ![<<"pending", j>>] = NoRec, ![<<"old", t>>] = pending[j]]
<1>1. ASSUME NEW x \in Place
      PROVE  Held'[x] = IF x = <<"old", t>> THEN pending[j]
                            ELSE IF x = <<"pending", j>> THEN NoRec ELSE Held[x]
  <2>1. CASE \E k \in Job : x = <<"pending", k>>
    BY <2>1, HeldValues, HeldValuesNext DEF HeldByKind, PendingSet, NewKept, OldSet, TickKept
  <2>2. ASSUME NEW u \in Task, x = <<"new", u>>
        PROVE  Held'[x] = IF x = <<"old", t>> THEN pending[j]
                            ELSE IF x = <<"pending", j>> THEN NoRec ELSE Held[x]
    <3>1. Held[x] = frame[u].new /\ Held'[x] = frame'[u].new
      BY <2>2, HeldValues, HeldValuesNext DEF HeldByKind
    <3>. QED  BY <2>2, <3>1 DEF PendingSet, NewKept, OldSet, TickKept
  <2>3. ASSUME NEW u \in Task, x = <<"old", u>>
        PROVE  Held'[x] = IF x = <<"old", t>> THEN pending[j]
                            ELSE IF x = <<"pending", j>> THEN NoRec ELSE Held[x]
    <3>1. Held[x] = frame[u].old /\ Held'[x] = frame'[u].old
      BY <2>3, HeldValues, HeldValuesNext DEF HeldByKind
    <3>. QED  BY <2>3, <3>1 DEF PendingSet, NewKept, OldSet, TickKept
  <2>4. CASE x = <<"tick", Main>>
    BY <2>4, HeldValues, HeldValuesNext DEF HeldByKind, PendingSet, NewKept, OldSet, TickKept
  <2>. QED  BY <2>1, <2>2, <2>3, <2>4, PlaceCases
<1>. QED  BY <1>1, HeldValues, HeldValuesNext DEF HeldByKind

\* A call publishes its record.
LEMMA NewToPending ==
    ASSUME NEW t \in Task, NEW j \in Job,
           PendingSet(j, frame[t].new), NewSet(t, NoRec), OldKept, TickKept
    PROVE  Held' = [Held EXCEPT ![<<"new", t>>] = NoRec, ![<<"pending", j>>] = frame[t].new]
<1>1. ASSUME NEW x \in Place
      PROVE  Held'[x] = IF x = <<"pending", j>> THEN frame[t].new
                            ELSE IF x = <<"new", t>> THEN NoRec ELSE Held[x]
  <2>1. CASE \E k \in Job : x = <<"pending", k>>
    BY <2>1, HeldValues, HeldValuesNext DEF HeldByKind, PendingSet, NewSet, OldKept, TickKept
  <2>2. ASSUME NEW u \in Task, x = <<"new", u>>
        PROVE  Held'[x] = IF x = <<"pending", j>> THEN frame[t].new
                            ELSE IF x = <<"new", t>> THEN NoRec ELSE Held[x]
    <3>1. Held[x] = frame[u].new /\ Held'[x] = frame'[u].new
      BY <2>2, HeldValues, HeldValuesNext DEF HeldByKind
    <3>. QED  BY <2>2, <3>1 DEF PendingSet, NewSet, OldKept, TickKept
  <2>3. ASSUME NEW u \in Task, x = <<"old", u>>
        PROVE  Held'[x] = IF x = <<"pending", j>> THEN frame[t].new
                            ELSE IF x = <<"new", t>> THEN NoRec ELSE Held[x]
    <3>1. Held[x] = frame[u].old /\ Held'[x] = frame'[u].old
      BY <2>3, HeldValues, HeldValuesNext DEF HeldByKind
    <3>. QED  BY <2>3, <3>1 DEF PendingSet, NewSet, OldKept, TickKept
  <2>4. CASE x = <<"tick", Main>>
    BY <2>4, HeldValues, HeldValuesNext DEF HeldByKind, PendingSet, NewSet, OldKept, TickKept
  <2>. QED  BY <2>1, <2>2, <2>3, <2>4, PlaceCases
<1>. QED  BY <1>1, HeldValues, HeldValuesNext DEF HeldByKind

\* The tick takes the record of the launch it has settled.
LEMMA PendingToTick ==
    ASSUME NEW j \in Job,
           PendingSet(j, NoRec), NewKept, OldKept, TickHeld' = pending[j]
    PROVE  Held' = [Held EXCEPT ![<<"pending", j>>] = NoRec, ![<<"tick", Main>>] = pending[j]]
<1>1. ASSUME NEW x \in Place
      PROVE  Held'[x] = IF x = <<"tick", Main>> THEN pending[j]
                            ELSE IF x = <<"pending", j>> THEN NoRec ELSE Held[x]
  <2>1. CASE \E k \in Job : x = <<"pending", k>>
    BY <2>1, HeldValues, HeldValuesNext DEF HeldByKind, PendingSet, NewKept, OldKept
  <2>2. ASSUME NEW u \in Task, x = <<"new", u>>
        PROVE  Held'[x] = IF x = <<"tick", Main>> THEN pending[j]
                            ELSE IF x = <<"pending", j>> THEN NoRec ELSE Held[x]
    <3>1. Held[x] = frame[u].new /\ Held'[x] = frame'[u].new
      BY <2>2, HeldValues, HeldValuesNext DEF HeldByKind
    <3>. QED  BY <2>2, <3>1 DEF PendingSet, NewKept, OldKept
  <2>3. ASSUME NEW u \in Task, x = <<"old", u>>
        PROVE  Held'[x] = IF x = <<"tick", Main>> THEN pending[j]
                            ELSE IF x = <<"pending", j>> THEN NoRec ELSE Held[x]
    <3>1. Held[x] = frame[u].old /\ Held'[x] = frame'[u].old
      BY <2>3, HeldValues, HeldValuesNext DEF HeldByKind
    <3>. QED  BY <2>3, <3>1 DEF PendingSet, NewKept, OldKept
  <2>4. CASE x = <<"tick", Main>>
    BY <2>4, HeldValues, HeldValuesNext DEF HeldByKind, PendingSet, NewKept, OldKept
  <2>. QED  BY <2>1, <2>2, <2>3, <2>4, PlaceCases
<1>. QED  BY <1>1, HeldValues, HeldValuesNext DEF HeldByKind


-----------------------------------------------------------------------------
(* What each way does to OneHolder.                                        *)

\* Every place holds a record or nothing.
LEMMA HeldTyped == IInv => \A x \in Place : Held[x] \in Rec \cup {NoRec}
<1>. SUFFICES ASSUME IInv, NEW x \in Place PROVE Held[x] \in Rec \cup {NoRec}
  OBVIOUS
<1>1. \A t \in Task : frame[t].new \in Rec \cup {NoRec} /\ frame[t].old \in Rec \cup {NoRec}
  BY DEF IInv, TypeOK, Frame
<1>2. TickHeld \in Rec \cup {NoRec}
  BY DEF IInv, TypeOK, TickFrame, TickHeld
<1>3. \A j \in Job : pending[j] \in Rec \cup {NoRec}
  BY DEF IInv, TypeOK
<1>4. CASE \E j \in Job : x = <<"pending", j>>
  BY <1>3, <1>4, HeldValues DEF HeldByKind
<1>5. CASE \E t \in Task : x = <<"new", t>>
  BY <1>1, <1>5, HeldValues DEF HeldByKind
<1>6. CASE \E t \in Task : x = <<"old", t>>
  BY <1>1, <1>6, HeldValues DEF HeldByKind
<1>7. CASE x = <<"tick", Main>>
  BY <1>2, <1>7, HeldValues DEF HeldByKind
<1>. QED  BY <1>4, <1>5, <1>6, <1>7, PlaceCases

LEMMA HolderKept ==
    ASSUME OneHolder, Held' = Held, live' = live
    PROVE  OneHolder'
  BY DEF OneHolder

LEMMA HolderMoves ==
    ASSUME IInv, OneHolder, NEW x \in Place, NEW y \in Place, x # y, Held[y] = NoRec,
           Held' = [Held EXCEPT ![x] = NoRec, ![y] = Held[x]],
           live' = live
    PROVE  OneHolder'
<1>1. NoRec \notin Rec
  BY JobsAssumption
<1>2. \A z \in Place : Held'[z] = IF z = y THEN Held[x] ELSE IF z = x THEN NoRec ELSE Held[z]
  BY HeldValues DEF HeldByKind
<1>3. ASSUME NEW v \in Place, NEW w \in Place, Held'[v] = Held'[w], Held'[v] # NoRec
      PROVE  v = w
  BY <1>2, <1>3 DEF OneHolder
<1>4. ASSUME NEW r \in Rec PROVE (\E z \in Place : Held'[z] = r) <=> (\E z \in Place : Held[z] = r)
  BY <1>1, <1>2
<1>. QED  BY <1>3, <1>4 DEF OneHolder

LEMMA HolderFrees ==
    ASSUME IInv, OneHolder, NEW x \in Place,
           Held' = [Held EXCEPT ![x] = NoRec],
           live' = live \ {Held[x]}
    PROVE  OneHolder'
<1>1. NoRec \notin Rec
  BY JobsAssumption
<1>2. \A z \in Place : Held'[z] = IF z = x THEN NoRec ELSE Held[z]
  BY HeldValues DEF HeldByKind
<1>. QED  BY <1>1, <1>2 DEF OneHolder

LEMMA HolderAllocates ==
    ASSUME IInv, OneHolder, NEW x \in Place, Held[x] = NoRec,
           NEW r \in {NoRec} \cup (Rec \ live),
           Held' = [Held EXCEPT ![x] = r],
           live' = live \cup ({r} \ {NoRec})
    PROVE  OneHolder'
<1>1. NoRec \notin Rec
  BY JobsAssumption
<1>2. \A z \in Place : Held'[z] = IF z = x THEN r ELSE Held[z]
  BY HeldValues DEF HeldByKind
<1>. QED  BY <1>1, <1>2 DEF OneHolder

-----------------------------------------------------------------------------
(* How a step may move the counts.                                         *)

LEMMA LaunchesFinite ==
    ASSUME IsFiniteSet(live)
    PROVE  IsFiniteSet(Launches) /\ Cardinality(Launches) \in Nat
<1>1. Launches \in SUBSET live
  BY DEF Launches
<1>. QED  BY <1>1, FS_Subset, FS_CardinalityType

\* No launch is published, none is counted.
LEMMA CoverKept ==
    ASSUME IInv, WaitersCovered, IsFiniteSet(live'),
           Launches' \subseteq Launches, Noting' = Noting, waiting' = waiting
    PROVE  WaitersCovered'
<1>1. Cardinality(Launches') <= Cardinality(Launches) /\ Cardinality(Launches') \in Nat
  BY FS_Subset, FS_CardinalityType, LaunchesFinite DEF WaitersCovered
<1>2. Cardinality(Launches) \in Nat /\ Cardinality(Noting) \in Nat /\ waiting \in Nat
  BY LaunchesFinite, FS_CardinalityType DEF WaitersCovered, IInv, TypeOK
<1>. QED  BY <1>1, <1>2 DEF WaitersCovered

\* A launch is published, its count is still to be added.
LEMMA CoverPublished ==
    ASSUME IInv, WaitersCovered, NEW r, NEW t, t \notin Noting, live' = live,
           Launches' \subseteq Launches \cup {r},
           Noting' = Noting \cup {t}, waiting' = waiting
    PROVE  WaitersCovered'
<1>1. IsFiniteSet(Launches) /\ Cardinality(Launches) \in Nat
  BY LaunchesFinite DEF WaitersCovered
<1>2. /\ IsFiniteSet(Launches \cup {r}) /\ Cardinality(Launches \cup {r}) \in Nat
      /\ Cardinality(Launches \cup {r}) <= Cardinality(Launches) + 1
  <2>1. IsFiniteSet(Launches \cup {r})
    BY <1>1, FS_AddElement
  <2>2. Cardinality(Launches \cup {r}) = IF r \in Launches THEN Cardinality(Launches)
                                                            ELSE Cardinality(Launches) + 1
    BY <1>1, FS_AddElement
  <2>. QED  BY <1>1, <2>1, <2>2
<1>3. Cardinality(Launches') <= Cardinality(Launches \cup {r}) /\ Cardinality(Launches') \in Nat
  BY <1>2, FS_Subset, FS_CardinalityType
<1>4. /\ IsFiniteSet(Noting') /\ Cardinality(Noting) \in Nat
      /\ Cardinality(Noting') = Cardinality(Noting) + 1
  BY FS_AddElement, FS_CardinalityType DEF WaitersCovered
<1>5. waiting \in Nat
  BY DEF IInv, TypeOK
<1>. QED  BY <1>1, <1>2, <1>3, <1>4, <1>5 DEF WaitersCovered

\* The count of a publication is added.
LEMMA CoverNoted ==
    ASSUME IInv, WaitersCovered, NEW t, t \in Noting, live' = live,
           Launches' \subseteq Launches,
           Noting' = Noting \ {t}, waiting' = waiting + 1
    PROVE  WaitersCovered'
<1>1. Cardinality(Launches') <= Cardinality(Launches) /\ Cardinality(Launches') \in Nat
  BY FS_Subset, FS_CardinalityType, LaunchesFinite DEF WaitersCovered
<1>2. /\ IsFiniteSet(Noting') /\ Cardinality(Noting) \in Nat
      /\ Cardinality(Noting') = Cardinality(Noting) - 1
  BY FS_RemoveElement, FS_CardinalityType DEF WaitersCovered
<1>3. Cardinality(Launches) \in Nat /\ waiting \in Nat
  BY LaunchesFinite DEF WaitersCovered, IInv, TypeOK
<1>. QED  BY <1>1, <1>2, <1>3 DEF WaitersCovered

\* The record of a launch is freed, and with it goes its count.
LEMMA CoverFreed ==
    ASSUME IInv, WaitersCovered, NEW r, FreePending(r), r = NoRec \/ r \in Launches,
           Launches' = Launches \ {r}, Noting' = Noting
    PROVE  WaitersCovered'
<1>1. /\ IsFiniteSet(Launches) /\ Cardinality(Launches) \in Nat
      /\ Cardinality(Noting) \in Nat /\ waiting \in Nat
  BY LaunchesFinite, FS_CardinalityType DEF WaitersCovered, IInv, TypeOK
<1>2. IsFiniteSet(live')
  BY FS_RemoveElement DEF WaitersCovered, FreePending
<1>3. CASE r \in Launches
  <2>1. Cardinality(Launches') = Cardinality(Launches) - 1
    BY <1>1, <1>3, FS_RemoveElement
  <2>2. r # NoRec
    BY <1>3, JobsAssumption DEF Launches, IInv, TypeOK
  <2>. QED  BY <1>1, <1>2, <2>1, <2>2 DEF WaitersCovered, FreePending
<1>4. CASE r = NoRec /\ r \notin Launches
  <2>1. Launches' = Launches
    BY <1>4
  <2>. QED  BY <1>1, <1>2, <1>4, <2>1 DEF WaitersCovered, FreePending
<1>. QED  BY <1>3, <1>4

-----------------------------------------------------------------------------
(* What a step that moves a record does to the set of launches.            *)

LEMMA LaunchesQuiet ==
    ASSUME NewKept, live' = live
    PROVE  Launches' = Launches
  BY DEF Launches, NewKept

LEMMA LaunchesLoseNew ==
    ASSUME NEW t \in Task, NewSet(t, NoRec), live' \subseteq live \ {frame[t].new}
    PROVE  Launches' \subseteq Launches
<1>. SUFFICES ASSUME NEW z \in live', z \notin {frame'[u].new : u \in Task},
                     NEW u \in Task, z = frame[u].new
              PROVE  FALSE
  BY DEF Launches
<1>. QED  BY DEF NewSet

LEMMA LaunchesGainNew ==
    ASSUME NEW t \in Task, NewSet(t, NoRec), live' = live
    PROVE  Launches' \subseteq Launches \cup {frame[t].new}
<1>. SUFFICES ASSUME NEW z \in live', z \notin {frame'[u].new : u \in Task},
                     NEW u \in Task, z = frame[u].new, z # frame[t].new
              PROVE  FALSE
  BY DEF Launches
<1>. QED  BY DEF NewSet

LEMMA LaunchesAllocate ==
    ASSUME IInv, NEW t \in Task, NEW r, frame[t].new = NoRec, NewSet(t, r),
           live' = live \cup ({r} \ {NoRec})
    PROVE  Launches' \subseteq Launches
<1>. SUFFICES ASSUME NEW z \in live', z \notin {frame'[u].new : u \in Task}
              PROVE  z \in live /\ \A u \in Task : z # frame[u].new
  BY DEF Launches
<1>1. z # r
  BY DEF NewSet
<1>2. z \in live /\ z # NoRec
  BY <1>1, JobsAssumption DEF IInv, TypeOK
<1>. QED  BY <1>2 DEF NewSet

\* A published record is not one that a call has still for itself.
LEMMA HeldLaunch ==
    ASSUME IInv, OneHolder, NEW x \in Place, x \notin {<<"new", t>> : t \in Task}
    PROVE  Held[x] = NoRec \/ Held[x] \in Launches
<1>. SUFFICES ASSUME Held[x] # NoRec PROVE Held[x] \in Launches
  OBVIOUS
<1>1. Held[x] \in live
  BY HeldTyped DEF OneHolder
<1>2. ASSUME NEW t \in Task, frame[t].new = Held[x] PROVE FALSE
  <2>1. <<"new", t>> \in Place /\ Held[<<"new", t>>] = Held[x]
    BY <1>2, HeldValues DEF HeldByKind
  <2>. QED  BY <2>1 DEF OneHolder
<1>. QED  BY <1>1, <1>2 DEF Launches

LEMMA LaunchesFree ==
    ASSUME NewKept, NEW r, live' = live \ {r}
    PROVE  Launches' = Launches \ {r}
  BY DEF Launches, NewKept

-----------------------------------------------------------------------------
(* Every action preserves RecordInv.                                       *)

\* A step that moves no record, when no publication is being counted.
LEMMA RecordsQuiet ==
    ASSUME IInv, RecordInv, pending' = pending, NewKept, OldKept, TickKept,
           live' = live, waiting' = waiting, Noting' = Noting, CallsHold'
    PROVE  RecordInv'
<1>1. OneHolder'
  BY NothingMoved, HolderKept DEF RecordInv
<1>2. WaitersCovered'
  BY LaunchesQuiet, CoverKept DEF RecordInv, WaitersCovered
<1>. QED  BY <1>1, <1>2 DEF RecordInv

\* The steps of a call between its two sections.
LEMMA CallsRecords ==
    ASSUME IInv, RecordInv, NEW t \in Task,
           StartDrain(t) \/ StartStopReturn(t) \/ StopDrain(t) \/ StopReturn(t) \/ StopCommit(t)
    PROVE  RecordInv'
<1>1. UNCHANGED <<pending, frame, tpc, tick, live, waiting>>
  BY DEF StartDrain, StartStopReturn, StopDrain, StopReturn, StopCommit, runtime
<1>2. NewKept /\ OldKept /\ TickKept
  BY <1>1 DEF NewKept, OldKept, TickKept, TickHeld
<1>3. \E s \in ApiPc :
         /\ pc' = [pc EXCEPT ![t] = s] /\ s # "start_note" /\ pc[t] # "start_note"
         /\ pc[t] \in NewAt => s \in NewAt
         /\ pc[t] \in OldAt => s \in OldAt
  BY DEF StartDrain, StartStopReturn, StopDrain, StopReturn, StopCommit, Goto,
         ApiPc, ReservedPc, NewAt, OldAt
<1>4. Noting' = Noting
  BY <1>3 DEF Noting, IInv, TypeOK
<1>5. CallsHold'
  BY <1>1, <1>3 DEF RecordInv, CallsHold, IInv, TypeOK
<1>. QED  BY <1>1, <1>2, <1>4, <1>5, RecordsQuiet

\* The steps of the tick that settle no launch, and those of the workers.
LEMMA OthersRecords ==
    ASSUME IInv, RecordInv, UNCHANGED <<pending, frame, pc, live, waiting>>,
           (tpc # "retry_drop" /\ tpc' # "retry_drop") \/ UNCHANGED <<tpc, tick>>
    PROVE  RecordInv'
<1>1. NewKept /\ OldKept /\ TickKept /\ Noting' = Noting
  BY DEF NewKept, OldKept, TickKept, TickHeld, Noting
<1>2. CallsHold'
  BY DEF RecordInv, CallsHold
<1>. QED  BY <1>1, <1>2, RecordsQuiet

LEMMA TickRecords ==
    ASSUME IInv, RecordInv,
           \/ TickBegin \/ RetrySnapshot \/ RetrySkip \/ RetryClaim
           \/ (\E ret \in StartResult : RetryReturn(ret))
           \/ EventEnter \/ EventSkip \/ EventReturn \/ DeferredReturn \/ DeferredCommit
    PROVE  RecordInv'
<1>1. UNCHANGED <<pending, frame, pc, live, waiting>>
  BY DEF TickBegin, RetrySnapshot, RetrySkip, RetryClaim, RetryReturn, EventEnter, EventSkip,
         EventReturn, DeferredReturn, DeferredCommit, runtime
<1>2. tpc # "retry_drop" /\ tpc' # "retry_drop"
  BY DEF TickBegin, RetrySnapshot, RetrySkip, RetryClaim, RetryReturn, EventEnter, EventSkip,
         EventReturn, DeferredReturn, DeferredCommit, InTick, NextIndex
<1>. QED  BY <1>1, <1>2, OthersRecords

\* The caller's new record, if it needs one.
LEMMA StartCallRecords ==
    ASSUME IInv, RecordInv, NEW t \in Task, NEW j \in Job, StartCall(t, j)
    PROVE  RecordInv'
<1>1. PICK r \in {NoRec} \cup (Rec \ live) :
         /\ live' = live \cup ({r} \ {NoRec})
         /\ frame' = [frame EXCEPT ![t].job = j, ![t].new = r]
  BY DEF StartCall
<1>2. /\ pc[t] = "idle" /\ pc' = [pc EXCEPT ![t] = "start_reserve"]
      /\ UNCHANGED <<pending, tpc, tick, waiting>>
  BY DEF StartCall, CanCall, Goto, runtime
<1>3. \A u \in Task : frame[u] \in Frame
  BY FramesTyped
<1>4. NewSet(t, r) /\ OldKept /\ TickKept
  BY <1>1, <1>2, <1>3 DEF NewSet, OldKept, TickKept, TickHeld, Frame, IInv, TypeOK
<1>5. frame[t].new = NoRec
  BY <1>2 DEF RecordInv, CallsHold, NewAt
<1>6. OneHolder'
  <2>1. <<"new", t>> \in Place /\ Held[<<"new", t>>] = NoRec
    BY <1>5, HeldValues DEF HeldByKind
  <2>. QED  BY <1>1, <1>2, <1>4, <2>1, NewMoved, HolderAllocates DEF RecordInv
<1>7. CallsHold'
  BY <1>1, <1>2, <1>3 DEF RecordInv, CallsHold, IInv, TypeOK, NewAt, OldAt, Frame
<1>8. WaitersCovered'
  <2>1. IsFiniteSet(live')
    <3>1. IsFiniteSet(live) /\ IsFiniteSet({r} \ {NoRec})
      BY FS_Singleton, FS_RemoveElement DEF RecordInv, WaitersCovered
    <3>. QED  BY <1>1, <3>1, FS_Union
  <2>2. Noting' = Noting
    BY <1>2 DEF Noting, IInv, TypeOK
  <2>3. Launches' \subseteq Launches
    BY <1>1, <1>4, <1>5, LaunchesAllocate
  <2>. QED  BY <1>2, <2>1, <2>2, <2>3, CoverKept DEF RecordInv
<1>. QED  BY <1>6, <1>7, <1>8 DEF RecordInv

\* A launch that ran out of memory asks for a record to wait in.
LEMMA StartReturnRecords ==
    ASSUME IInv, RecordInv, NEW t \in Task, NEW ret \in StartResult, StartReturn(t, ret)
    PROVE  RecordInv'
<1>1. PICK r \in {NoRec} \cup (Rec \ live) :
         /\ live' = live \cup ({r} \ {NoRec})
         /\ frame' = [frame EXCEPT ![t].ret = ret, ![t].new = r]
  BY DEF StartReturn
<1>2. /\ pc[t] = "start_starting" /\ pc' = [pc EXCEPT ![t] = "start_commit"]
      /\ UNCHANGED <<pending, tpc, tick, waiting>>
  BY DEF StartReturn, Goto
<1>3. \A u \in Task : frame[u] \in Frame
  BY FramesTyped
<1>4. NewSet(t, r) /\ OldKept /\ TickKept
  BY <1>1, <1>2, <1>3 DEF NewSet, OldKept, TickKept, TickHeld, Frame, IInv, TypeOK
<1>5. frame[t].new = NoRec
  BY <1>2 DEF IInv, NewRecords
<1>6. OneHolder'
  <2>1. <<"new", t>> \in Place /\ Held[<<"new", t>>] = NoRec
    BY <1>5, HeldValues DEF HeldByKind
  <2>. QED  BY <1>1, <1>2, <1>4, <2>1, NewMoved, HolderAllocates DEF RecordInv
<1>7. CallsHold'
  BY <1>1, <1>2, <1>3 DEF RecordInv, CallsHold, IInv, TypeOK, NewAt, OldAt, Frame
<1>8. WaitersCovered'
  <2>1. IsFiniteSet(live')
    <3>1. IsFiniteSet(live) /\ IsFiniteSet({r} \ {NoRec})
      BY FS_Singleton, FS_RemoveElement DEF RecordInv, WaitersCovered
    <3>. QED  BY <1>1, <3>1, FS_Union
  <2>2. Noting' = Noting
    BY <1>2 DEF Noting, IInv, TypeOK
  <2>3. Launches' \subseteq Launches
    BY <1>1, <1>4, <1>5, LaunchesAllocate
  <2>. QED  BY <1>2, <2>1, <2>2, <2>3, CoverKept DEF RecordInv
<1>. QED  BY <1>6, <1>7, <1>8 DEF RecordInv

\* The count of a publication is added after the section.
LEMMA StartNoteRecords ==
    ASSUME IInv, RecordInv, NEW t \in Task, StartNote(t)
    PROVE  RecordInv'
<1>1. /\ pc[t] = "start_note" /\ pc' = [pc EXCEPT ![t] = "idle"]
      /\ UNCHANGED <<pending, frame, tpc, tick, live>> /\ waiting' = waiting + 1
  BY DEF StartNote, Goto, runtime
<1>2. NewKept /\ OldKept /\ TickKept
  BY <1>1 DEF NewKept, OldKept, TickKept, TickHeld
<1>3. OneHolder'
  BY <1>1, <1>2, NothingMoved, HolderKept DEF RecordInv
<1>4. CallsHold'
  BY <1>1 DEF RecordInv, CallsHold, IInv, TypeOK, NewAt, OldAt
<1>5. WaitersCovered'
  <2>1. t \in Noting /\ Noting' = Noting \ {t}
    BY <1>1 DEF Noting, IInv, TypeOK
  <2>2. Launches' \subseteq Launches
    BY <1>1, <1>2, LaunchesQuiet
  <2>. QED  BY <1>1, <2>1, <2>2, CoverNoted DEF RecordInv
<1>. QED  BY <1>3, <1>4, <1>5 DEF RecordInv

\* A call that has its job commits under the generation it recorded.
LEMMA OwnerCommits ==
    ASSUME IInv, NEW t \in Task, pc[t] \in ReservedPc
    PROVE  StillOwns(frame[t].job, frame[t].gen)
  BY IInvExclusive DEF IInv, OwnersCurrent, Exclusive, StillOwns

\* A refused start frees its record; one that is admitted takes the record of
\* the launch it replaces.
LEMMA StartReserveRecords ==
    ASSUME IInv, RecordInv, NEW t \in Task, StartReserve(t)
    PROVE  RecordInv'
<1>. DEFINE j == frame[t].job
<1>1. \A u \in Task : frame[u] \in Frame /\ frame[u].job \in Job
  BY FramesTyped
<1>2. pc[t] = "start_reserve" /\ frame[t].old = NoRec
  BY DEF StartReserve, RecordInv, CallsHold, OldAt
<1>3. UNCHANGED <<tpc, tick, waiting>>
  BY DEF StartReserve
<1>4. CASE StartRefused(j, t)
  <2>1. /\ live' = live \ {frame[t].new} /\ frame' = [frame EXCEPT ![t].new = NoRec]
        /\ pc' = [pc EXCEPT ![t] = "idle"] /\ pending' = pending
    BY <1>4 DEF StartReserve, Goto, runtime
  <2>2. NewSet(t, NoRec) /\ OldKept /\ TickKept
    BY <1>1, <1>3, <2>1 DEF NewSet, OldKept, TickKept, TickHeld, Frame, IInv, TypeOK
  <2>3. OneHolder'
    <3>1. <<"new", t>> \in Place /\ Held[<<"new", t>>] = frame[t].new
      BY HeldValues DEF HeldByKind
    <3>. QED  BY <2>1, <2>2, <3>1, NewMoved, HolderFrees DEF RecordInv
  <2>4. CallsHold'
    BY <1>1, <1>2, <1>3, <2>1 DEF RecordInv, CallsHold, IInv, TypeOK, Frame
  <2>5. IsFiniteSet(live')
    BY <2>1, FS_RemoveElement DEF RecordInv, WaitersCovered
  <2>6. Noting' = Noting
    BY <1>2, <2>1 DEF Noting, IInv, TypeOK
  <2>7. Launches' \subseteq Launches
    BY <2>1, <2>2, LaunchesLoseNew
  <2>8. WaitersCovered'
    BY <1>3, <2>5, <2>6, <2>7, CoverKept DEF RecordInv
  <2>. QED  BY <2>3, <2>4, <2>8 DEF RecordInv
<1>5. CASE ~StartRefused(j, t)
  <2>1. /\ frame' = [frame EXCEPT ![t].stop = (state[j] = "running"),
                                  ![t].old = pending[j], ![t].gen = gen[j] + 1]
        /\ pending' = [pending EXCEPT ![j] = NoRec]
        /\ pc' = [pc EXCEPT ![t] = "start_drain"] /\ live' = live
    BY <1>5 DEF StartReserve, Goto
  <2>2. NewKept /\ OldSet(t, pending[j]) /\ TickKept /\ PendingSet(j, NoRec)
    BY <1>1, <1>3, <2>1
    DEF NewKept, OldSet, TickKept, TickHeld, PendingSet, Frame, IInv, TypeOK
  <2>3. OneHolder'
    <3>1. /\ <<"pending", j>> \in Place /\ Held[<<"pending", j>>] = pending[j]
          /\ <<"old", t>> \in Place /\ Held[<<"old", t>>] = NoRec
          /\ <<"pending", j>> # <<"old", t>>
      BY <1>1, <1>2, HeldValues DEF HeldByKind
    <3>2. Held' = [Held EXCEPT ![<<"pending", j>>] = NoRec, ![<<"old", t>>] = pending[j]]
      BY <1>1, <2>2, PendingToOld
    <3>. QED  BY <2>1, <3>1, <3>2, HolderMoves DEF RecordInv
  <2>4. CallsHold'
    <3>1. \A u \in Task : frame'[u].new # NoRec => pc'[u] \in NewAt
      BY <1>2, <2>1, <2>2 DEF RecordInv, CallsHold, IInv, TypeOK, NewKept, NewAt
    <3>2. \A u \in Task : frame'[u].old # NoRec => pc'[u] \in OldAt
      BY <2>1, <2>2 DEF RecordInv, CallsHold, IInv, TypeOK, OldSet, OldAt
    <3>. QED  BY <1>3, <3>1, <3>2 DEF RecordInv, CallsHold
  <2>5. Noting' = Noting
    BY <1>2, <2>1 DEF Noting, IInv, TypeOK
  <2>6. WaitersCovered'
    BY <1>3, <2>1, <2>2, <2>5, LaunchesQuiet, CoverKept DEF RecordInv, WaitersCovered
  <2>. QED  BY <2>3, <2>4, <2>6 DEF RecordInv
<1>. QED  BY <1>4, <1>5

\* The record a call took from its job is freed.
LEMMA DropRecords ==
    ASSUME IInv, RecordInv, NEW t \in Task, StartDropOld(t) \/ StopDropPending(t)
    PROVE  RecordInv'
<1>1. /\ FreePending(frame[t].old) /\ frame' = [frame EXCEPT ![t].old = NoRec]
      /\ UNCHANGED <<pending, tpc, tick>>
  BY DEF StartDropOld, StopDropPending, runtime
<1>2. live' = live \ {frame[t].old}
  BY <1>1 DEF FreePending
<1>3. \A u \in Task : frame[u] \in Frame
  BY FramesTyped
<1>4. \E s \in ApiPc :
         /\ pc' = [pc EXCEPT ![t] = s] /\ s # "start_note" /\ pc[t] # "start_note"
         /\ frame[t].new # NoRec => s \in NewAt
  BY DEF StartDropOld, StopDropPending, Goto, ApiPc, ReservedPc, NewAt, RecordInv, CallsHold
<1>5. NewKept /\ OldSet(t, NoRec) /\ TickKept
  BY <1>1, <1>3 DEF NewKept, OldSet, TickKept, TickHeld, Frame, IInv, TypeOK
<1>6. <<"old", t>> \in Place /\ Held[<<"old", t>>] = frame[t].old
  BY HeldValues DEF HeldByKind
<1>7. OneHolder'
  BY <1>1, <1>2, <1>5, <1>6, OldMoved, HolderFrees DEF RecordInv
<1>8. CallsHold'
  <2>1. \A u \in Task : frame'[u].new # NoRec => pc'[u] \in NewAt
    BY <1>4, <1>5 DEF RecordInv, CallsHold, IInv, TypeOK, NewKept
  <2>2. \A u \in Task : frame'[u].old # NoRec => pc'[u] \in OldAt
    BY <1>4, <1>5 DEF RecordInv, CallsHold, IInv, TypeOK, OldSet
  <2>. QED  BY <1>1, <2>1, <2>2 DEF RecordInv, CallsHold
<1>9. WaitersCovered'
  <2>1. frame[t].old = NoRec \/ frame[t].old \in Launches
    BY <1>6, HeldLaunch DEF RecordInv
  <2>2. Launches' = Launches \ {frame[t].old}
    BY <1>2, <1>5, LaunchesFree
  <2>3. Noting' = Noting
    BY <1>4 DEF Noting, IInv, TypeOK
  <2>. QED  BY <1>1, <2>1, <2>2, <2>3, CoverFreed DEF RecordInv
<1>. QED  BY <1>7, <1>8, <1>9 DEF RecordInv

\* A call publishes its record: the launch waits, its count is to be added.
LEMMA PublishingRecords ==
    ASSUME IInv, RecordInv, NEW t \in Task, NEW j \in Job,
           pc[t] \in ReservedPc, frame[t].job = j, frame[t].new # NoRec,
           pending' = [pending EXCEPT ![j] = frame[t].new],
           frame' = [frame EXCEPT ![t].new = NoRec],
           pc' = [pc EXCEPT ![t] = "start_note"],
           pc[t] \notin OldAt,
           UNCHANGED <<tpc, tick, live, waiting>>
    PROVE  RecordInv'
<1>1. \A u \in Task : frame[u] \in Frame
  BY FramesTyped
<1>2. pending[j] = NoRec
  BY DEF IInv, OwnersCurrent, PendingMatchesWaiting
<1>3. NewSet(t, NoRec) /\ OldKept /\ TickKept /\ PendingSet(j, frame[t].new)
  BY <1>1 DEF NewSet, OldKept, TickKept, TickHeld, PendingSet, Frame, IInv, TypeOK
<1>4. OneHolder'
  <2>1. /\ <<"pending", j>> \in Place /\ Held[<<"pending", j>>] = NoRec
        /\ <<"new", t>> \in Place /\ Held[<<"new", t>>] = frame[t].new
        /\ <<"pending", j>> # <<"new", t>>
    BY <1>2, HeldValues DEF HeldByKind
  <2>2. Held' = [Held EXCEPT ![<<"new", t>>] = NoRec, ![<<"pending", j>>] = frame[t].new]
    BY <1>3, NewToPending
  <2>. QED  BY <2>1, <2>2, HolderMoves DEF RecordInv
<1>5. CallsHold'
  <2>1. \A u \in Task : frame'[u].new # NoRec => pc'[u] \in NewAt
    BY <1>3 DEF RecordInv, CallsHold, IInv, TypeOK, NewSet
  <2>2. \A u \in Task : frame'[u].old # NoRec => pc'[u] \in OldAt
    BY <1>3 DEF RecordInv, CallsHold, IInv, TypeOK, OldKept
  <2>. QED  BY <2>1, <2>2 DEF RecordInv, CallsHold
<1>6. WaitersCovered'
  <2>1. t \notin Noting /\ Noting' = Noting \cup {t}
    BY DEF Noting, ReservedPc, IInv, TypeOK
  <2>2. Launches' \subseteq Launches \cup {frame[t].new}
    BY <1>3, LaunchesGainNew
  <2>. QED  BY <2>1, <2>2, CoverPublished DEF RecordInv
<1>. QED  BY <1>4, <1>5, <1>6 DEF RecordInv

LEMMA StartPublishRecords ==
    ASSUME IInv, RecordInv, NEW t \in Task, StartPublish(t)
    PROVE  RecordInv'
<1>1. pc[t] = "start_publish" /\ pc[t] \in ReservedPc /\ pc[t] \notin OldAt
  BY DEF StartPublish, ReservedPc, OldAt
<1>2. frame[t].new # NoRec /\ frame[t].job \in Job
  BY <1>1, FramesTyped DEF IInv, NewRecords
<1>3. StillOwns(frame[t].job, frame[t].gen)
  BY <1>1, OwnerCommits
<1>4. /\ pending' = [pending EXCEPT ![frame[t].job] = frame[t].new]
      /\ frame' = [frame EXCEPT ![t].new = NoRec]
      /\ pc' = [pc EXCEPT ![t] = "start_note"]
      /\ UNCHANGED <<tpc, tick, live, waiting>>
  BY <1>3 DEF StartPublish, Goto
<1>. QED  BY <1>1, <1>2, <1>4, PublishingRecords

LEMMA StartCommitRecords ==
    ASSUME IInv, RecordInv, NEW t \in Task, StartCommit(t)
    PROVE  RecordInv'
<1>1. pc[t] = "start_commit" /\ pc[t] \in ReservedPc /\ pc[t] \notin OldAt
  BY DEF StartCommit, ReservedPc, OldAt
<1>2. frame[t].job \in Job /\ \A u \in Task : frame[u] \in Frame
  BY FramesTyped
<1>3. StillOwns(frame[t].job, frame[t].gen)
  BY <1>1, OwnerCommits
<1>4. CASE frame[t].new # NoRec
  <2>1. /\ pending' = [pending EXCEPT ![frame[t].job] = frame[t].new]
        /\ frame' = [frame EXCEPT ![t].new = NoRec]
        /\ pc' = [pc EXCEPT ![t] = "start_note"]
        /\ UNCHANGED <<tpc, tick, live, waiting>>
    BY <1>3, <1>4 DEF StartCommit, Goto
  <2>. QED  BY <1>1, <1>2, <1>4, <2>1, PublishingRecords
<1>5. CASE frame[t].new = NoRec
  <2>1. /\ pc' = [pc EXCEPT ![t] = "idle"] /\ frame' = [frame EXCEPT ![t].new = NoRec]
        /\ UNCHANGED <<pending, tpc, tick, live, waiting>>
    BY <1>3, <1>5 DEF StartCommit, Goto
  <2>2. NewKept /\ OldKept /\ TickKept
    BY <1>2, <1>5, <2>1 DEF NewKept, OldKept, TickKept, TickHeld, Frame, IInv, TypeOK
  <2>3. Noting' = Noting
    BY <1>1, <2>1 DEF Noting, IInv, TypeOK
  <2>4. CallsHold'
    BY <1>1, <1>5, <2>1, <2>2 DEF RecordInv, CallsHold, IInv, TypeOK, NewKept, OldKept
  <2>. QED  BY <2>1, <2>2, <2>3, <2>4, RecordsQuiet
<1>. QED  BY <1>4, <1>5

\* Stopping a job that does not run takes its record, if it has one.
LEMMA StopReserveRecords ==
    ASSUME IInv, RecordInv, NEW t \in Task, NEW j \in Job, StopReserve(t, j)
    PROVE  RecordInv'
<1>1. \A u \in Task : frame[u] \in Frame
  BY FramesTyped
<1>2. pc[t] = "idle" /\ frame[t].new = NoRec /\ frame[t].old = NoRec
  BY DEF StopReserve, CanCall, RecordInv, CallsHold, NewAt, OldAt
<1>3. UNCHANGED <<tpc, tick, live, waiting>>
  BY DEF StopReserve
<1>4. CASE state[j] # "running"
  <2>1. /\ pending' = [pending EXCEPT ![j] = NoRec]
        /\ frame' = [frame EXCEPT ![t].old = pending[j]]
        /\ pc' = [pc EXCEPT ![t] = "stop_drop"]
    BY <1>4 DEF StopReserve, Goto
  <2>2. NewKept /\ OldSet(t, pending[j]) /\ TickKept /\ PendingSet(j, NoRec)
    BY <1>1, <1>3, <2>1
    DEF NewKept, OldSet, TickKept, TickHeld, PendingSet, Frame, IInv, TypeOK
  <2>3. OneHolder'
    <3>1. /\ <<"pending", j>> \in Place /\ Held[<<"pending", j>>] = pending[j]
          /\ <<"old", t>> \in Place /\ Held[<<"old", t>>] = NoRec
          /\ <<"pending", j>> # <<"old", t>>
      BY <1>2, HeldValues DEF HeldByKind
    <3>2. Held' = [Held EXCEPT ![<<"pending", j>>] = NoRec, ![<<"old", t>>] = pending[j]]
      BY <2>1, <2>2, PendingToOld DEF StopReserve
    <3>. QED  BY <1>3, <3>1, <3>2, HolderMoves DEF RecordInv
  <2>4. CallsHold'
    <3>1. \A u \in Task : frame'[u].new # NoRec => pc'[u] \in NewAt
      BY <1>2, <2>1, <2>2 DEF RecordInv, CallsHold, IInv, TypeOK, NewKept
    <3>2. \A u \in Task : frame'[u].old # NoRec => pc'[u] \in OldAt
      BY <2>1, <2>2 DEF RecordInv, CallsHold, IInv, TypeOK, OldSet, OldAt
    <3>. QED  BY <1>3, <3>1, <3>2 DEF RecordInv, CallsHold
  <2>5. Noting' = Noting
    BY <1>2, <2>1 DEF Noting, IInv, TypeOK
  <2>6. WaitersCovered'
    BY <1>3, <2>2, <2>5, LaunchesQuiet, CoverKept DEF RecordInv, WaitersCovered
  <2>. QED  BY <2>3, <2>4, <2>6 DEF RecordInv
<1>5. CASE state[j] = "running"
  <2>1. /\ frame' = [frame EXCEPT ![t].job = j, ![t].gen = gen[j] + 1] /\ pending' = pending
        /\ \E s \in {"idle", "stop_drain"} : pc' = [pc EXCEPT ![t] = s]
    BY <1>5 DEF StopReserve, Goto
  <2>2. NewKept /\ OldKept /\ TickKept
    BY <1>1, <1>3, <2>1 DEF NewKept, OldKept, TickKept, TickHeld, Frame, IInv, TypeOK
  <2>3. Noting' = Noting
    BY <1>2, <2>1 DEF Noting, IInv, TypeOK
  <2>4. CallsHold'
    BY <1>2, <1>3, <2>1, <2>2 DEF RecordInv, CallsHold, IInv, TypeOK, NewKept, OldKept
  <2>. QED  BY <1>3, <2>1, <2>2, <2>3, <2>4, RecordsQuiet
<1>. QED  BY <1>4, <1>5

\* A settled retry takes the record; one that ran out of memory leaves it.
LEMMA RetryCommitRecords ==
    ASSUME IInv, RecordInv, RetryCommit
    PROVE  RecordInv'
<1>. DEFINE j == tick.job
<1>1. tpc = "retry_commit" /\ j \in Job
  BY FramesTyped DEF RetryCommit, InTick
<1>2. CommitHolds(j) /\ pending[j] # NoRec
  BY <1>1, IInvExclusive
  DEF CommitHolds, Exclusive, TickReservedPc, IInv, OwnersCurrent, PendingMatchesWaiting
<1>3. UNCHANGED <<pc, frame, tick, live, waiting>>
  BY DEF RetryCommit
<1>4. NewKept /\ OldKept /\ Noting' = Noting
  BY <1>3 DEF NewKept, OldKept, Noting
<1>5. CASE tick.ret = "no_mem"
  <2>1. tpc' = "event" /\ pending' = pending
    BY <1>2, <1>5 DEF RetryCommit
  <2>. QED  BY <1>1, <1>3, <2>1, OthersRecords
<1>6. CASE tick.ret # "no_mem"
  <2>1. tpc' = "retry_drop" /\ pending' = [pending EXCEPT ![j] = NoRec]
    BY <1>2, <1>6 DEF RetryCommit
  <2>2. PendingSet(j, NoRec) /\ TickHeld' = pending[j]
    BY <1>1, <1>2, <1>3, <2>1 DEF PendingSet, TickHeld, CommitHolds, IInv, TypeOK
  <2>3. OneHolder'
    <3>1. /\ <<"pending", j>> \in Place /\ Held[<<"pending", j>>] = pending[j]
          /\ <<"tick", Main>> \in Place /\ Held[<<"tick", Main>>] = NoRec
          /\ <<"pending", j>> # <<"tick", Main>>
      BY <1>1, HeldValues DEF HeldByKind, TickHeld
    <3>2. Held' = [Held EXCEPT ![<<"pending", j>>] = NoRec, ![<<"tick", Main>>] = pending[j]]
      BY <1>1, <1>4, <2>2, PendingToTick
    <3>. QED  BY <1>3, <3>1, <3>2, HolderMoves DEF RecordInv
  <2>4. CallsHold'
    BY <1>2, <1>3 DEF RecordInv, CallsHold, CommitHolds
  <2>5. WaitersCovered'
    BY <1>3, <1>4, LaunchesQuiet, CoverKept DEF RecordInv, WaitersCovered
  <2>. QED  BY <2>3, <2>4, <2>5 DEF RecordInv
<1>. QED  BY <1>5, <1>6

\* The record of the launch the tick has settled is freed.
LEMMA RetryDropRecords ==
    ASSUME IInv, RecordInv, RetryDrop
    PROVE  RecordInv'
<1>1. /\ tpc = "retry_drop" /\ tpc' = "event" /\ FreePending(tick.pend)
      /\ UNCHANGED <<pending, pc, frame>>
  BY DEF RetryDrop, InTick, runtime
<1>2. live' = live \ {tick.pend}
  BY <1>1 DEF FreePending
<1>3. NewKept /\ OldKept /\ Noting' = Noting
  BY <1>1 DEF NewKept, OldKept, Noting
<1>4. <<"tick", Main>> \in Place /\ Held[<<"tick", Main>>] = tick.pend /\ TickHeld' = NoRec
  BY <1>1, HeldValues DEF HeldByKind, TickHeld
<1>5. OneHolder'
  BY <1>1, <1>2, <1>3, <1>4, TickMoved, HolderFrees DEF RecordInv
<1>6. CallsHold'
  BY <1>1 DEF RecordInv, CallsHold
<1>7. WaitersCovered'
  <2>1. tick.pend = NoRec \/ tick.pend \in Launches
    BY <1>4, HeldLaunch DEF RecordInv
  <2>2. Launches' = Launches \ {tick.pend}
    BY <1>2, <1>3, LaunchesFree
  <2>. QED  BY <1>1, <1>3, <2>1, <2>2, CoverFreed DEF RecordInv
<1>. QED  BY <1>5, <1>6, <1>7 DEF RecordInv

-----------------------------------------------------------------------------
(* The theorems.                                                           *)

LEMMA InitRecords == Init => ModuleInv /\ RecordInv
<1>. SUFFICES ASSUME Init PROVE ModuleInv /\ RecordInv
  OBVIOUS
<1>1. NoForgottenJob /\ TransitionsInactive /\ WorkersActive /\ StoppedListsNothing /\ StopsListNothing
  BY DEF Init, NoForgottenJob, TransitionsInactive, InactiveAt, TickInactive, WorkersActive,
         CurrentWorker, StoppedListsNothing, StopsListNothing
<1>2. TickHeld = NoRec /\ \A t \in Task : frame[t].new = NoRec /\ frame[t].old = NoRec
  BY DEF Init, TickHeld
<1>3. \A j \in Job : pending[j] = NoRec
  BY DEF Init
<1>4. \A x \in Place : Held[x] = NoRec
  BY <1>2, <1>3, HeldValues, PlaceCases DEF HeldByKind
<1>5. OneHolder
  BY <1>4, JobsAssumption DEF Init, OneHolder
<1>6. CallsHold
  BY <1>2 DEF Init, CallsHold
<1>7. WaitersCovered
  <2>1. live = {} /\ Noting = {} /\ Launches = {} /\ waiting = 0
    BY DEF Init, Noting, Launches
  <2>. QED  BY <2>1, FS_EmptySet DEF WaitersCovered
<1>. QED  BY <1>1, <1>5, <1>6, <1>7 DEF ModuleInv, RecordInv

LEMMA NextModuleInv ==
    ASSUME IInv, ModuleInv, [Next]_vars
    PROVE  ModuleInv'
<1>1. ASSUME NEW t \in Task, StartSteps(t) PROVE ModuleInv'
  BY <1>1, CallMovesModule, StartReserveModule, StartStopReturnModule, StartPublishModule,
     StartReturnModule, StartCommitModule DEF StartSteps
<1>2. ASSUME NEW t \in Task, StopSteps(t) PROVE ModuleInv'
  BY <1>2, CallMovesModule, StopReturnModule, StopCommitModule DEF StopSteps
<1>3. ASSUME NEW t \in Task, NEW j \in Job, StartCall(t, j) \/ StopReserve(t, j)
      PROVE  ModuleInv'
  BY <1>3, StartCallModule, StopReserveModule
<1>4. ASSUME TickSteps PROVE ModuleInv'
  BY <1>4, TickMovesModule, RetryClaimModule, RetryReturnModule, RetryCommitModule,
     EventReturnModule, DeferredReturnModule, DeferredCommitModule DEF TickSteps
<1>5. ASSUME NEW w \in workers \cup reporting, WorkerSteps(w) PROVE ModuleInv'
  <2>1. w[1] \in Job /\ w[2] \in Nat
    BY DEF IInv, TypeOK
  <2>. QED  BY <1>5, <2>1, WorkerCleanupModule, WorkerReportModule DEF WorkerSteps
<1>6. CASE UNCHANGED vars
  <2>. USE <1>6 DEF vars, ModuleInv
  <2>1. NoForgottenJob' /\ StoppedListsNothing'
    BY DEF NoForgottenJob, StoppedListsNothing
  <2>2. TransitionsInactive'
    BY DEF TransitionsInactive, InactiveAt, TickInactive
  <2>3. WorkersActive'
    BY DEF WorkersActive, CurrentWorker
  <2>4. StopsListNothing'
    BY DEF StopsListNothing
  <2>. QED  BY <2>1, <2>2, <2>3, <2>4
<1>. QED  BY <1>1, <1>2, <1>3, <1>4, <1>5, <1>6 DEF Next

LEMMA NextRecordInv ==
    ASSUME IInv, RecordInv, [Next]_vars
    PROVE  RecordInv'
<1>1. ASSUME NEW t \in Task, StartSteps(t) PROVE RecordInv'
  BY <1>1, CallsRecords, StartReserveRecords, DropRecords, StartPublishRecords,
     StartReturnRecords, StartCommitRecords, StartNoteRecords DEF StartSteps
<1>2. ASSUME NEW t \in Task, StopSteps(t) PROVE RecordInv'
  BY <1>2, CallsRecords, DropRecords DEF StopSteps
<1>3. ASSUME NEW t \in Task, NEW j \in Job, StartCall(t, j) \/ StopReserve(t, j)
      PROVE  RecordInv'
  BY <1>3, StartCallRecords, StopReserveRecords
<1>4. ASSUME TickSteps PROVE RecordInv'
  BY <1>4, TickRecords, RetryCommitRecords, RetryDropRecords DEF TickSteps
<1>5. ASSUME NEW w \in workers \cup reporting, WorkerSteps(w) PROVE RecordInv'
  BY <1>5, OthersRecords DEF WorkerSteps, WorkerCleanup, WorkerReport, runtime
<1>6. CASE UNCHANGED vars
  BY <1>6, OthersRecords DEF vars
<1>. QED  BY <1>1, <1>2, <1>3, <1>4, <1>5, <1>6 DEF Next

\* The three inductive invariants hold together in every reachable state.
LEMMA RecordsHold == Spec => [](IInv /\ ModuleInv /\ RecordInv)
<1>1. Init => IInv /\ ModuleInv /\ RecordInv
  BY InitIInv, InitRecords
<1>2. IInv /\ ModuleInv /\ RecordInv /\ [Next]_vars => (IInv /\ ModuleInv /\ RecordInv)'
  BY NextIInv, NextModuleInv, NextRecordInv
<1>. QED  BY <1>1, <1>2, PTL DEF Spec

\* A job module that started and was neither stopped nor completed is reported
\* running, or a transition of its job is in flight.
THEOREM NoModuleForgotten == Spec => []NoForgottenJob
<1>1. ModuleInv => NoForgottenJob
  BY DEF ModuleInv
<1>. QED  BY <1>1, RecordsHold, PTL

\* A job that is stopped or failed lists no resources.
THEOREM NothingListedAfterStop == Spec => []StoppedListsNothing
<1>1. ModuleInv => StoppedListsNothing
  BY DEF ModuleInv
<1>. QED  BY <1>1, RecordsHold, PTL

\* RecordHolders names exactly the places that hold a record.
LEMMA HoldersArePlaces ==
    ASSUME IInv, RecordInv
    PROVE  /\ \A h \in RecordHolders :
                 \E x \in Place : h = <<x[1], x[2], Held[x]>> /\ Held[x] # NoRec
           /\ \A x \in Place : Held[x] # NoRec => <<x[1], x[2], Held[x]>> \in RecordHolders
<1>1. TickHeld # NoRec <=> tpc = "retry_drop"
  BY DEF TickHeld, RecordInv, CallsHold
<1>2. ASSUME NEW h \in RecordHolders
      PROVE  \E x \in Place : h = <<x[1], x[2], Held[x]>> /\ Held[x] # NoRec
  <2>1. CASE \E j \in Job : pending[j] # NoRec /\ h = <<"pending", j, pending[j]>>
    BY <2>1, HeldValues DEF HeldByKind
  <2>2. CASE \E t \in Task : frame[t].new # NoRec /\ h = <<"new", t, frame[t].new>>
    BY <2>2, HeldValues DEF HeldByKind
  <2>3. CASE \E t \in Task : frame[t].old # NoRec /\ h = <<"old", t, frame[t].old>>
    BY <2>3, HeldValues DEF HeldByKind
  <2>4. CASE tpc = "retry_drop" /\ h = <<"tick", Main, tick.pend>>
    <3>1. Held[<<"tick", Main>>] = tick.pend /\ tick.pend # NoRec
      BY <1>1, <2>4, HeldValues DEF HeldByKind, TickHeld
    <3>. QED  BY <2>4, <3>1, HeldValues DEF HeldByKind
  <2>. QED  BY <2>1, <2>2, <2>3, <2>4 DEF RecordHolders
<1>3. ASSUME NEW x \in Place, Held[x] # NoRec
      PROVE  <<x[1], x[2], Held[x]>> \in RecordHolders
  <2>1. CASE \E j \in Job : x = <<"pending", j>>
    BY <1>3, <2>1, HeldValues DEF HeldByKind, RecordHolders
  <2>2. CASE \E t \in Task : x = <<"new", t>>
    BY <1>3, <2>2, HeldValues DEF HeldByKind, RecordHolders
  <2>3. CASE \E t \in Task : x = <<"old", t>>
    BY <1>3, <2>3, HeldValues DEF HeldByKind, RecordHolders
  <2>4. CASE x = <<"tick", Main>>
    BY <1>1, <1>3, <2>4, HeldValues DEF HeldByKind, RecordHolders, TickHeld
  <2>. QED  BY <2>1, <2>2, <2>3, <2>4, PlaceCases
<1>. QED  BY <1>2, <1>3

\* One holder for each record allocated.
LEMMA HoldersCounted ==
    ASSUME IInv, RecordInv
    PROVE  /\ live = {h[3] : h \in RecordHolders}
           /\ Cardinality(live) = Cardinality(RecordHolders)
           /\ Outstanding <= Cardinality(Launches) /\ Outstanding \in Nat
<1>1. \A h \in RecordHolders : \E x \in Place : h = <<x[1], x[2], Held[x]>> /\ Held[x] # NoRec
  BY HoldersArePlaces
<1>2. \A x \in Place : Held[x] # NoRec => Held[x] \in live
  BY HeldTyped DEF RecordInv, OneHolder
<1>3. \A h \in RecordHolders : h[3] \in live
  BY <1>1, <1>2
<1>4. \A g, h \in RecordHolders : g[3] = h[3] => g = h
  <2>1. ASSUME NEW g \in RecordHolders, NEW h \in RecordHolders, g[3] = h[3] PROVE g = h
    <3>1. PICK x \in Place : g = <<x[1], x[2], Held[x]>> /\ Held[x] # NoRec
      BY <1>1
    <3>2. PICK y \in Place : h = <<y[1], y[2], Held[y]>> /\ Held[y] # NoRec
      BY <1>1
    <3>3. x = y
      BY <2>1, <3>1, <3>2 DEF RecordInv, OneHolder
    <3>. QED  BY <3>1, <3>2, <3>3
  <2>. QED  BY <2>1
<1>5. \A r \in live : \E h \in RecordHolders : h[3] = r
  <2>1. ASSUME NEW r \in live PROVE \E h \in RecordHolders : h[3] = r
    <3>1. r \in Rec /\ r # NoRec
      BY JobsAssumption DEF IInv, TypeOK
    <3>2. PICK x \in Place : Held[x] = r
      BY <3>1 DEF RecordInv, OneHolder
    <3>3. <<x[1], x[2], Held[x]>> \in RecordHolders
      BY <3>1, <3>2, HoldersArePlaces
    <3>. QED  BY <3>2, <3>3
  <2>. QED  BY <2>1
<1>6. IsFiniteSet(live)
  BY DEF RecordInv, WaitersCovered
<1>. DEFINE f == [h \in RecordHolders |-> h[3]]
<1>7. f \in Injection(RecordHolders, live) /\ f \in Surjection(RecordHolders, live)
  BY <1>3, <1>4, <1>5 DEF Injection, IsInjective, Surjection
<1>8. Cardinality(live) = Cardinality(RecordHolders)
  <2>. HIDE DEF f
  <2>. QED  BY <1>6, <1>7, FS_Injection
<1>9. Outstanding <= Cardinality(Launches) /\ Outstanding \in Nat
  <2>. DEFINE P == {h \in RecordHolders : h[1] # "new"}
              g == [h \in P |-> h[3]]
  <2>1. ASSUME NEW h \in P PROVE h[3] \in Launches
    <3>1. PICK x \in Place : h = <<x[1], x[2], Held[x]>> /\ Held[x] # NoRec
      BY <1>1
    <3>2. x \notin {<<"new", t>> : t \in Task}
      BY <3>1
    <3>. QED  BY <3>1, <3>2, HeldLaunch DEF RecordInv
  <2>2. g \in Injection(P, Launches)
    BY <1>4, <2>1 DEF Injection, IsInjective
  <2>3. IsFiniteSet(Launches)
    BY <1>6, LaunchesFinite
  <2>. HIDE DEF g, P
  <2>4. IsFiniteSet(P) /\ Cardinality(P) <= Cardinality(Launches)
    BY <2>2, <2>3, FS_Injection
  <2>. QED  BY <2>4, FS_CardinalityType DEF P, Outstanding
<1>. QED  BY <1>3, <1>5, <1>8, <1>9

\* Every pending start record has exactly one holder that will free it, and the
\* record a retry starts from is not freed under it.
THEOREM RecordsHaveOneHolder == Spec => []RecordsOwned
<1>1. ASSUME IInv, RecordInv PROVE RecordsOwned
  <2>1. ASSUME tpc \in {"retry_starting", "retry_commit"}
        PROVE  tick.pend \in live /\ pending[tick.job] = tick.pend
    <3>1. /\ pending[tick.job] = tick.pend /\ tick.pend # NoRec
          /\ tick.job \in Job /\ tick.pend \in Rec
      BY <1>1, <2>1, FramesTyped, JobsAssumption
      DEF IInv, OwnersCurrent, PendingMatchesWaiting, TypeOK
    <3>2. Held[<<"pending", tick.job>>] = tick.pend /\ <<"pending", tick.job>> \in Place
      BY <3>1, HeldValues DEF HeldByKind
    <3>. QED  BY <1>1, <3>1, <3>2 DEF RecordInv, OneHolder
  <2>. QED  BY <1>1, <2>1, HoldersCounted DEF RecordsOwned
<1>. QED  BY <1>1, RecordsHold, PTL

\* task_waiting is never short of the waiting launches by more than the
\* publications whose count is still to be added.
THEOREM WaitersNotLost == Spec => []NoWaiterUncounted
<1>1. ASSUME IInv, RecordInv PROVE NoWaiterUncounted
  <2>1. Uncounted = Cardinality(Noting)
    BY DEF Uncounted, Noting
  <2>2. Cardinality(Noting) \in Nat /\ Cardinality(Launches) \in Nat /\ waiting \in Nat
    BY <1>1, FS_CardinalityType, LaunchesFinite DEF RecordInv, WaitersCovered, IInv, TypeOK
  <2>. QED  BY <1>1, <2>1, <2>2, HoldersCounted DEF NoWaiterUncounted, RecordInv, WaitersCovered
<1>. QED  BY <1>1, RecordsHold, PTL
=============================================================================
