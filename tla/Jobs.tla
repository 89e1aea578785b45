-------------------------------- MODULE Jobs --------------------------------
(***************************************************************************)
(* The background-job registry of SolarOS (src/solar_os_jobs.c) with the   *)
(* counter of waiting launches it feeds (src/solar_os_task.c).             *)
(*                                                                         *)
(* Every portENTER_CRITICAL(&jobs_lock) section is one action; what a      *)
(* function does between two sections (poll the callback references, run a *)
(* lifecycle callback, free a record) is an action of its own, so any      *)
(* other task may run in between.  The calls come from the main task,      *)
(* which also runs solar_os_jobs_tick, and from client tasks (port shells, *)
(* script workers).  Inside a tick callback the main task may call the     *)
(* registry again: its API frame then nests in its tick frame.             *)
(***************************************************************************)
EXTENDS Naturals, FiniteSets

CONSTANTS
    NumJobs,     \* jobs are registry indices 1 .. NumJobs
    WorkerJob,   \* jobs whose descriptor declares worker_stack_bytes > 0
    TickJob,     \* jobs with an event callback
    Main,        \* the main task, the only caller of solar_os_jobs_tick
    Client,      \* every other task that calls the registry
    Rec,         \* the PSRAM blocks a pending start record can occupy
    NoRec,       \* the NULL record
    MaxCalls     \* bound: start and stop calls made in one behaviour

Job == 1 .. NumJobs
Task == Client \cup {Main}

ASSUME JobsAssumption ==
    /\ NumJobs \in Nat \ {0}
    /\ WorkerJob \subseteq Job
    /\ TickJob \subseteq Job
    /\ Main \notin Client
    /\ NoRec \notin Rec
    /\ MaxCalls \in Nat

JobState == {"stopped", "waiting", "running", "failed"}
StartResult == {"ok", "no_mem", "error"}

\* Steps of an API frame after it reserved its job (lifecycle_busy is its own).
ReservedPc == {"start_drain", "start_stopping", "start_drop", "start_publish",
               "start_starting", "start_commit",
               "stop_drain", "stop_stopping", "stop_commit"}
ApiPc == ReservedPc \cup {"idle", "start_reserve", "start_note", "stop_drop"}

\* Steps of the main task's pass over the registry.
TickReservedPc == {"retry_starting", "retry_commit",
                   "deferred_stopping", "deferred_commit"}
TickPc == TickReservedPc \cup {"idle", "retry", "retry_claim", "retry_drop",
                               "event", "callback"}

VARIABLES
    state, gen, refs, cbTask, stopAfter, busy, pending, noted,  \* per job
    active,       \* incarnation the job module itself has running, or 0
    pc, frame,    \* each task's call into the registry
    tpc, tick,    \* the main task's tick pass
    live,         \* pending records allocated and not freed
    waiting,      \* task_waiting
    workers,      \* <<job, gen>> of worker bodies still running
    reporting,    \* <<job, gen>> of workers cleaned up, about to report
    calls

runtime == <<state, gen, refs, cbTask, stopAfter, busy, pending, noted>>
vars == <<state, gen, refs, cbTask, stopAfter, busy, pending, noted, active,
          pc, frame, tpc, tick, live, waiting, workers, reporting, calls>>

Frame == [job : Job, gen : Nat, stop : BOOLEAN, ret : StartResult,
          new : Rec \cup {NoRec}, old : Rec \cup {NoRec}]
TickFrame == [job : Job, gen : Nat, pend : Rec \cup {NoRec}, ret : StartResult]

TypeOK ==
    /\ state \in [Job -> JobState]
    /\ gen \in [Job -> Nat]
    /\ refs \in [Job -> Nat]
    /\ cbTask \in [Job -> Task \cup {"none"}]
    /\ stopAfter \in [Job -> BOOLEAN]
    /\ busy \in [Job -> BOOLEAN]
    /\ pending \in [Job -> Rec \cup {NoRec}]
    /\ noted \in [Job -> BOOLEAN]
    /\ active \in [Job -> Nat]
    /\ pc \in [Task -> ApiPc]
    /\ frame \in [Task -> Frame]
    /\ tpc \in TickPc
    /\ tick \in TickFrame
    /\ live \subseteq Rec
    /\ waiting \in Nat
    /\ workers \subseteq Job \X Nat
    /\ reporting \subseteq Job \X Nat
    /\ calls \in Nat

Init ==
    /\ state = [j \in Job |-> "stopped"]
    /\ gen = [j \in Job |-> 0]
    /\ refs = [j \in Job |-> 0]
    /\ cbTask = [j \in Job |-> "none"]
    /\ stopAfter = [j \in Job |-> FALSE]
    /\ busy = [j \in Job |-> FALSE]
    /\ pending = [j \in Job |-> NoRec]
    /\ noted = [j \in Job |-> FALSE]
    /\ active = [j \in Job |-> 0]
    /\ pc = [t \in Task |-> "idle"]
    /\ frame = [t \in Task |-> [job |-> 1, gen |-> 0, stop |-> FALSE,
                                ret |-> "ok", new |-> NoRec, old |-> NoRec]]
    /\ tpc = "idle"
    /\ tick = [job |-> 1, gen |-> 0, pend |-> NoRec, ret |-> "ok"]
    /\ live = {}
    /\ waiting = 0
    /\ workers = {}
    /\ reporting = {}
    /\ calls = 0

-----------------------------------------------------------------------------
(* Helpers shared by the API and the tick.                                 *)

\* A task enters the registry from its own loop; the main task also from
\* inside a tick callback, never between two other steps of its pass.
CanCall(t) == /\ pc[t] = "idle"
              /\ calls < MaxCalls
              /\ t = Main => tpc \in {"idle", "callback"}

Goto(t, step) == pc' = [pc EXCEPT ![t] = step]

\* The generation check a transition makes before it commits.
StillOwns(j, g) == gen[j] = g /\ busy[j]

\* The task is inside the job's own tick callback.  Fault: not noticed.
OwnCallbackMissed(j, t) == FALSE
OwnCallback(j, t) == refs[j] # 0 /\ cbTask[j] = t

\* The poll loop of start and stop: no tick callback in flight.  Fault: off
\* by one.
DrainedOffByOne(j) == refs[j] <= 1
Drained(j) == refs[j] = 0

\* job_clear_resources_by_index after a failed launch.  Fault: forgotten.
ClearNotesForgotten(j, failed) == UNCHANGED noted
ClearNotesIf(j, failed) == noted' = [noted EXCEPT ![j] = @ /\ ~failed]

\* job_pending_start_free(NULL) is a no-op; otherwise the record is freed and
\* the saturating counter of waiting launches drops.  Faults: no NULL check,
\* no saturation.
FreePendingUnchecked(r) ==
    /\ live' = live \ {r}
    /\ waiting' = IF waiting = 0 THEN waiting ELSE waiting - 1
FreePendingUnsaturated(r) ==
    /\ live' = live \ {r}
    /\ waiting' = IF r = NoRec THEN waiting ELSE waiting - 1
FreePending(r) ==
    /\ live' = live \ {r}
    /\ waiting' = IF r = NoRec \/ waiting = 0 THEN waiting ELSE waiting - 1

\* A start callback runs.  One that returns ESP_OK has the job module active
\* and, if the job has a worker, the worker already scheduled; a module whose
\* last worker is still alive refuses to start.  Resources are noted on the
\* way, whatever the outcome.
StartCallback(j, ret) ==
    /\ ret = "ok" => \A w \in workers : w[1] # j
    /\ active' = [active EXCEPT ![j] = IF ret = "ok" THEN gen[j] ELSE @]
    /\ workers' = IF ret = "ok" /\ j \in WorkerJob
                  THEN workers \cup {<<j, gen[j]>>} ELSE workers
    /\ noted' = [noted EXCEPT ![j] = TRUE]

StopCallback(j) == active' = [active EXCEPT ![j] = 0]

-----------------------------------------------------------------------------
(* solar_os_jobs_start                                                     *)

\* Arguments validated, admission preflight done, record allocated: without
\* memory for the worker's stack the request needs a record to wait in (a
\* failed allocation returns ESP_ERR_NO_MEM and changes nothing).
StartCall(t, j) ==
    /\ CanCall(t)
    /\ \E r \in {NoRec} \cup (IF j \in WorkerJob THEN Rec \ live ELSE {}) :
          /\ live' = live \cup ({r} \ {NoRec})
          /\ frame' = [frame EXCEPT ![t].job = j, ![t].new = r]
    /\ Goto(t, "start_reserve")
    /\ calls' = calls + 1
    /\ UNCHANGED <<runtime, active, tpc, tick, waiting, workers, reporting>>

\* The first critical section refuses: a transition is in flight, or the call
\* comes from the job's own tick callback.  Fault: no busy check.
StartRefusedNotBusy(j, t) == OwnCallback(j, t)
StartRefused(j, t) == busy[j] \/ OwnCallback(j, t)

StartReserve(t) ==
    LET j == frame[t].job IN
    /\ pc[t] = "start_reserve"
    /\ IF StartRefused(j, t)
       THEN /\ live' = live \ {frame[t].new}
            /\ frame' = [frame EXCEPT ![t].new = NoRec]
            /\ Goto(t, "idle")
            /\ UNCHANGED runtime
       ELSE /\ busy' = [busy EXCEPT ![j] = TRUE]
            /\ gen' = [gen EXCEPT ![j] = @ + 1]
            /\ frame' = [frame EXCEPT ![t].stop = (state[j] = "running"),
                                      ![t].old = pending[j],
                                      ![t].gen = gen[j] + 1]
            /\ pending' = [pending EXCEPT ![j] = NoRec]
            /\ state' = [state EXCEPT ![j] = "stopped"]
            /\ noted' = [noted EXCEPT ![j] = FALSE]
            /\ Goto(t, "start_drain")
            /\ UNCHANGED <<refs, cbTask, stopAfter, live>>
    /\ UNCHANGED <<active, tpc, tick, waiting, workers, reporting, calls>>

\* The poll loop ends once no tick callback of the job is in flight.
StartDrain(t) ==
    /\ pc[t] = "start_drain"
    /\ Drained(frame[t].job)
    /\ Goto(t, IF frame[t].stop THEN "start_stopping" ELSE "start_drop")
    /\ UNCHANGED <<runtime, active, frame, tpc, tick, live, waiting, workers,
                   reporting, calls>>

StartStopReturn(t) ==
    /\ pc[t] = "start_stopping"
    /\ StopCallback(frame[t].job)
    /\ Goto(t, "start_drop")
    /\ UNCHANGED <<runtime, frame, tpc, tick, live, waiting, workers,
                   reporting, calls>>

StartDropOld(t) ==
    /\ pc[t] = "start_drop"
    /\ FreePending(frame[t].old)
    /\ frame' = [frame EXCEPT ![t].old = NoRec]
    /\ Goto(t, IF frame[t].new # NoRec THEN "start_publish"
                                       ELSE "start_starting")
    /\ UNCHANGED <<runtime, active, tpc, tick, workers, reporting, calls>>

\* The preflight found no memory: publish the record and leave the rest to
\* the scheduler.  The waiting launch is counted after the section.
StartPublish(t) ==
    LET j == frame[t].job IN
    /\ pc[t] = "start_publish"
    /\ IF StillOwns(j, frame[t].gen)
       THEN /\ pending' = [pending EXCEPT ![j] = frame[t].new]
            /\ state' = [state EXCEPT ![j] = "waiting"]
            /\ busy' = [busy EXCEPT ![j] = FALSE]
            /\ Goto(t, "start_note")
            /\ UNCHANGED <<gen, refs, cbTask, stopAfter, noted, live>>
       ELSE /\ live' = live \ {frame[t].new}
            /\ Goto(t, "idle")
            /\ UNCHANGED runtime
    /\ frame' = [frame EXCEPT ![t].new = NoRec]
    /\ UNCHANGED <<active, tpc, tick, waiting, workers, reporting, calls>>

\* start() returns; an ESP_ERR_NO_MEM of a worker's job asks for a record,
\* which may fail too.
StartReturn(t, ret) ==
    LET j == frame[t].job IN
    /\ pc[t] = "start_starting"
    /\ StartCallback(j, ret)
    /\ \E r \in {NoRec} \cup
               (IF ret = "no_mem" /\ j \in WorkerJob THEN Rec \ live ELSE {}) :
          /\ live' = live \cup ({r} \ {NoRec})
          /\ frame' = [frame EXCEPT ![t].ret = ret, ![t].new = r]
    /\ Goto(t, "start_commit")
    /\ UNCHANGED <<state, gen, refs, cbTask, stopAfter, busy, pending,
                   tpc, tick, waiting, reporting, calls>>

\* The last critical section: wait with the record, run, or fail.
StartCommit(t) ==
    LET j == frame[t].job
        r == frame[t].new
        outcome == IF r # NoRec THEN "waiting"
                   ELSE IF frame[t].ret = "ok" THEN "running" ELSE "failed"
    IN
    /\ pc[t] = "start_commit"
    /\ IF StillOwns(j, frame[t].gen)
       THEN /\ pending' = IF r # NoRec THEN [pending EXCEPT ![j] = r]
                                       ELSE pending
            /\ state' = [state EXCEPT ![j] = outcome]
            /\ busy' = [busy EXCEPT ![j] = FALSE]
            /\ ClearNotesIf(j, outcome = "failed")
            /\ Goto(t, IF r # NoRec THEN "start_note" ELSE "idle")
            /\ UNCHANGED <<gen, refs, cbTask, stopAfter, live>>
       ELSE /\ live' = live \ {r}
            /\ Goto(t, "idle")
            /\ UNCHANGED runtime
    /\ frame' = [frame EXCEPT ![t].new = NoRec]
    /\ UNCHANGED <<active, tpc, tick, waiting, workers, reporting, calls>>

\* solar_os_task_note_wait_queued, outside the registry's lock.
StartNote(t) ==
    /\ pc[t] = "start_note"
    /\ waiting' = waiting + 1
    /\ Goto(t, "idle")
    /\ UNCHANGED <<runtime, active, frame, tpc, tick, live, workers,
                   reporting, calls>>

-----------------------------------------------------------------------------
(* solar_os_jobs_stop                                                      *)

\* The whole first section.  A busy job refuses and changes nothing.
StopReserve(t, j) ==
    /\ CanCall(t)
    /\ ~busy[j]
    /\ calls' = calls + 1
    /\ state' = [state EXCEPT ![j] = "stopped"]
    /\ noted' = [noted EXCEPT ![j] = FALSE]
    /\ IF state[j] # "running"
       THEN /\ pending' = [pending EXCEPT ![j] = NoRec]
            /\ frame' = [frame EXCEPT ![t].old = pending[j]]
            /\ Goto(t, "stop_drop")
            /\ UNCHANGED <<gen, stopAfter, busy>>
       ELSE LET own == OwnCallback(j, t) IN
            /\ busy' = [busy EXCEPT ![j] = TRUE]
            /\ stopAfter' = [stopAfter EXCEPT ![j] = own]
            /\ gen' = [gen EXCEPT ![j] = @ + 1]
            /\ frame' = [frame EXCEPT ![t].job = j, ![t].gen = gen[j] + 1]
            /\ Goto(t, IF own THEN "idle" ELSE "stop_drain")
            /\ UNCHANGED pending
    /\ UNCHANGED <<refs, cbTask, active, tpc, tick, live, waiting, workers,
                   reporting>>

\* Stopping a job that waits for memory frees its record after the unlock.
StopDropPending(t) ==
    /\ pc[t] = "stop_drop"
    /\ FreePending(frame[t].old)
    /\ frame' = [frame EXCEPT ![t].old = NoRec]
    /\ Goto(t, "idle")
    /\ UNCHANGED <<runtime, active, tpc, tick, workers, reporting, calls>>

StopDrain(t) ==
    /\ pc[t] = "stop_drain"
    /\ Drained(frame[t].job)
    /\ Goto(t, "stop_stopping")
    /\ UNCHANGED <<runtime, active, frame, tpc, tick, live, waiting, workers,
                   reporting, calls>>

StopReturn(t) ==
    /\ pc[t] = "stop_stopping"
    /\ StopCallback(frame[t].job)
    /\ Goto(t, "stop_commit")
    /\ UNCHANGED <<runtime, frame, tpc, tick, live, waiting, workers,
                   reporting, calls>>

\* The section of job_complete_stop.
CompleteStop(j, g) ==
    busy' = [busy EXCEPT ![j] = @ /\ ~StillOwns(j, g)]

StopCommit(t) ==
    /\ pc[t] = "stop_commit"
    /\ CompleteStop(frame[t].job, frame[t].gen)
    /\ Goto(t, "idle")
    /\ UNCHANGED <<state, gen, refs, cbTask, stopAfter, pending, noted, active,
                   frame, tpc, tick, live, waiting, workers, reporting, calls>>

-----------------------------------------------------------------------------
(* solar_os_jobs_tick: for each registry index, job_retry_pending_start    *)
(* and then the tick callback.  A step waits for the main task's own       *)
(* nested call, if any, to return.                                         *)

InTick(step) == tpc = step /\ pc[Main] = "idle"

\* What the pass does after the current job: the next index, or the end.
NextIndex ==
    IF tick.job < NumJobs
    THEN /\ tpc' = "retry"
         /\ tick' = [tick EXCEPT !.job = @ + 1, !.pend = NoRec]
    ELSE /\ tpc' = "idle"
         /\ tick' = [tick EXCEPT !.pend = NoRec]

TickBegin ==
    /\ InTick("idle")
    /\ tpc' = "retry"
    /\ tick' = [tick EXCEPT !.job = 1]
    /\ UNCHANGED <<runtime, active, pc, frame, live, waiting, workers,
                   reporting, calls>>

Retryable(j) == state[j] = "waiting" /\ ~busy[j] /\ pending[j] # NoRec

\* Snapshot of a waiting job, then the admission check without the lock:
\* memory may or may not be available.
RetrySnapshot ==
    /\ InTick("retry")
    /\ Retryable(tick.job)
    /\ tick' = [tick EXCEPT !.gen = gen[tick.job], !.pend = pending[tick.job]]
    /\ tpc' = "retry_claim"
    /\ UNCHANGED <<runtime, active, pc, frame, live, waiting, workers,
                   reporting, calls>>

RetrySkip ==
    /\ InTick("retry")
    /\ tpc' = "event"
    /\ UNCHANGED <<runtime, active, pc, frame, tick, live, waiting, workers,
                   reporting, calls>>

\* The section that claims the request, if it is still the one seen.  Fault:
\* the snapshot is trusted.
ClaimUnchecked(j) == ~busy[j]
ClaimHolds(j) == /\ gen[j] = tick.gen
                 /\ state[j] = "waiting"
                 /\ ~busy[j]
                 /\ pending[j] = tick.pend

RetryClaim ==
    LET j == tick.job IN
    /\ InTick("retry_claim")
    /\ IF ClaimHolds(j)
       THEN busy' = [busy EXCEPT ![j] = TRUE] /\ tpc' = "retry_starting"
       ELSE tpc' = "event" /\ UNCHANGED busy
    /\ UNCHANGED <<state, gen, refs, cbTask, stopAfter, pending, noted, active,
                   pc, frame, tick, live, waiting, workers, reporting, calls>>

RetryReturn(ret) ==
    /\ InTick("retry_starting")
    /\ StartCallback(tick.job, ret)
    /\ tick' = [tick EXCEPT !.ret = ret]
    /\ tpc' = "retry_commit"
    /\ UNCHANGED <<state, gen, refs, cbTask, stopAfter, busy, pending, pc,
                   frame, live, waiting, reporting, calls>>

\* Fault: the claim's condition is copied, busy flag included.
CommitHoldsAsClaim(j) == ClaimHolds(j)
CommitHolds(j) == /\ gen[j] = tick.gen
                  /\ state[j] = "waiting"
                  /\ busy[j]
                  /\ pending[j] = tick.pend

\* ESP_ERR_NO_MEM leaves the request waiting for a later pass.
RetryCommit ==
    LET j == tick.job IN
    /\ InTick("retry_commit")
    /\ IF CommitHolds(j)
       THEN /\ busy' = [busy EXCEPT ![j] = FALSE]
            /\ IF tick.ret = "no_mem"
               THEN tpc' = "event" /\ UNCHANGED <<state, pending, noted>>
               ELSE /\ pending' = [pending EXCEPT ![j] = NoRec]
                    /\ state' = [state EXCEPT ![j] =
                          IF tick.ret = "ok" THEN "running" ELSE "failed"]
                    /\ ClearNotesIf(j, tick.ret # "ok")
                    /\ tpc' = "retry_drop"
       ELSE tpc' = "event" /\ UNCHANGED <<state, busy, pending, noted>>
    /\ UNCHANGED <<gen, refs, cbTask, stopAfter, active, pc, frame, tick, live,
                   waiting, workers, reporting, calls>>

RetryDrop ==
    /\ InTick("retry_drop")
    /\ FreePending(tick.pend)
    /\ tick' = [tick EXCEPT !.pend = NoRec]
    /\ tpc' = "event"
    /\ UNCHANGED <<runtime, active, pc, frame, workers, reporting, calls>>

\* A running job whose interval has elapsed takes a callback reference.
EventEnter ==
    LET j == tick.job IN
    /\ InTick("event")
    /\ state[j] = "running" /\ ~busy[j] /\ j \in TickJob
    /\ refs' = [refs EXCEPT ![j] = @ + 1]
    /\ cbTask' = [cbTask EXCEPT ![j] = Main]
    /\ tpc' = "callback"
    /\ UNCHANGED <<state, gen, stopAfter, busy, pending, noted, active, pc,
                   frame, tick, live, waiting, workers, reporting, calls>>

EventSkip ==
    /\ InTick("event")
    /\ NextIndex
    /\ UNCHANGED <<runtime, active, pc, frame, live, waiting, workers,
                   reporting, calls>>

\* The reference being dropped is the last one and the callback stopped its
\* own job.  Fault: the count is read before it drops.
DeferredStopMissed(j) ==
    refs[j] = 0 /\ stopAfter[j] /\ busy[j] /\ state[j] = "stopped"
DeferredStopDue(j) ==
    refs[j] = 1 /\ stopAfter[j] /\ busy[j] /\ state[j] = "stopped"

\* The callback returns; if it stopped its own job, the teardown starts now.
EventReturn ==
    LET j == tick.job
        deferred == DeferredStopDue(j)
    IN
    /\ InTick("callback")
    /\ refs' = [refs EXCEPT ![j] = @ - 1]
    /\ cbTask' = IF refs[j] = 1 THEN [cbTask EXCEPT ![j] = "none"] ELSE cbTask
    /\ stopAfter' = [stopAfter EXCEPT ![j] = @ /\ ~deferred]
    /\ IF deferred
       THEN /\ tick' = [tick EXCEPT !.gen = gen[j]]
            /\ tpc' = "deferred_stopping"
       ELSE NextIndex
    /\ UNCHANGED <<state, gen, busy, pending, noted, active, pc, frame, live,
                   waiting, workers, reporting, calls>>

DeferredReturn ==
    /\ InTick("deferred_stopping")
    /\ StopCallback(tick.job)
    /\ tpc' = "deferred_commit"
    /\ UNCHANGED <<runtime, pc, frame, tick, live, waiting, workers,
                   reporting, calls>>

DeferredCommit ==
    /\ InTick("deferred_commit")
    /\ CompleteStop(tick.job, tick.gen)
    /\ NextIndex
    /\ UNCHANGED <<state, gen, refs, cbTask, stopAfter, pending, noted, active,
                   pc, frame, live, waiting, workers, reporting, calls>>

-----------------------------------------------------------------------------
(* Workers: a body ends on its own or because stop() asked it to, cleans   *)
(* its module up and then reports with solar_os_jobs_mark_stopped.         *)

WorkerCleanup(j, g) ==
    /\ <<j, g>> \in workers
    /\ workers' = workers \ {<<j, g>>}
    /\ reporting' = reporting \cup {<<j, g>>}
    /\ active' = [active EXCEPT ![j] = IF @ = g THEN 0 ELSE @]
    /\ UNCHANGED <<runtime, pc, frame, tpc, tick, live, waiting, calls>>

\* Fault: a completion of an old incarnation is accepted.
ReportAnyGeneration(j, g) == ~busy[j]
ReportAccepted(j, g) == g # 0 /\ gen[j] = g /\ ~busy[j]

WorkerReport(j, g) ==
    /\ <<j, g>> \in reporting
    /\ reporting' = reporting \ {<<j, g>>}
    /\ state' = IF ReportAccepted(j, g)
                THEN [state EXCEPT ![j] = "stopped"] ELSE state
    /\ noted' = [noted EXCEPT ![j] = @ /\ ~ReportAccepted(j, g)]
    /\ UNCHANGED <<gen, refs, cbTask, stopAfter, busy, pending, active, pc,
                   frame, tpc, tick, live, waiting, workers, calls>>

-----------------------------------------------------------------------------
StartSteps(t) == \/ StartReserve(t) \/ StartDrain(t) \/ StartStopReturn(t)
                 \/ StartDropOld(t) \/ StartPublish(t)
                 \/ (\E ret \in StartResult : StartReturn(t, ret))
                 \/ StartCommit(t) \/ StartNote(t)
StopSteps(t) == \/ StopDropPending(t) \/ StopDrain(t) \/ StopReturn(t)
                \/ StopCommit(t)
TickSteps == \/ TickBegin \/ RetrySnapshot \/ RetrySkip \/ RetryClaim
             \/ (\E ret \in StartResult : RetryReturn(ret))
             \/ RetryCommit \/ RetryDrop
             \/ EventEnter \/ EventSkip \/ EventReturn
             \/ DeferredReturn \/ DeferredCommit
WorkerSteps(w) == WorkerCleanup(w[1], w[2]) \/ WorkerReport(w[1], w[2])

Next == \/ \E t \in Task : \/ StartSteps(t)
                           \/ StopSteps(t)
                           \/ \E j \in Job : StartCall(t, j) \/ StopReserve(t, j)
        \/ TickSteps
        \/ \E w \in workers \cup reporting : WorkerSteps(w)

Spec == Init /\ [][Next]_vars

\* Fairness: the scheduler runs every task that has a step to take, and the
\* callbacks "must return promptly" (doc/service-concurrency.md).  The main
\* loop keeps ticking.  Memory for a worker's stack is available infinitely
\* often while its job waits (strong fairness of a successful admission check
\* and of a launch that does not run out of memory).
RetryAdmitted(j) == RetrySnapshot /\ tick.job = j
RetrySettled(j) == (RetryReturn("ok") \/ RetryReturn("error")) /\ tick.job = j

FairSpec ==
    /\ Spec
    /\ \A t \in Task : WF_vars(StartSteps(t)) /\ WF_vars(StopSteps(t))
    /\ WF_vars(TickSteps)
    /\ \A j \in Job : SF_vars(RetryAdmitted(j)) /\ SF_vars(RetrySettled(j))

-----------------------------------------------------------------------------
(* Properties.                                                             *)

Reserved(t, j) == frame[t].job = j /\ pc[t] \in ReservedPc
TickReserved(j) == tick.job = j /\ tpc \in TickReservedPc

\* Exactly one transition of job j is in flight when lifecycle_busy is set, and
\* none when it is clear: an API call past its first section, a retry, or a
\* stop deferred to the end of the job's own callback.
OwnedOnce(j) ==
    LET api == \E t \in Task : Reserved(t, j) IN
    /\ busy[j] <=> (api \/ TickReserved(j) \/ stopAfter[j])
    /\ \A t, u \in Task : Reserved(t, j) /\ Reserved(u, j) => t = u
    /\ ~(api /\ (TickReserved(j) \/ stopAfter[j]))
    /\ ~(TickReserved(j) /\ stopAfter[j])

\* lifecycle_busy always has its one owner, in every job.  An orphaned flag
\* would refuse every later start and stop; two owners would run two
\* transitions of the job at once.
BusyOwned == \A j \in Job : OwnedOnce(j)

\* A task inside start() or stop() of the job, and the main task inside
\* start(), stop() or the tick callback of the job.
ApiInCallback(t, j) ==
    /\ frame[t].job = j
    /\ pc[t] \in {"start_stopping", "start_starting", "stop_stopping"}
TickInCallback(j) ==
    /\ tick.job = j
    /\ tpc \in {"retry_starting", "callback", "deferred_stopping"}

\* No two lifecycle callbacks of a job ever overlap: start and stop wait for
\* the tick callback in flight, and no tick begins during a transition.
LifecycleExclusive ==
    \A j \in Job : \A t, u \in Task :
        /\ ApiInCallback(t, j) /\ ApiInCallback(u, j) => t = u
        /\ ~(ApiInCallback(t, j) /\ TickInCallback(j))

\* The registry keeps a start request exactly for the jobs it reports as
\* waiting: no launch is promised without arguments to launch it with.
PendingMatchesWaiting ==
    \A j \in Job : pending[j] # NoRec <=> state[j] = "waiting"

\* Who must free which record.
RecordHolders ==
    {<<"pending", j, pending[j]>> : j \in {i \in Job : pending[i] # NoRec}}
    \cup {<<"new", t, frame[t].new>> : t \in {u \in Task : frame[u].new # NoRec}}
    \cup {<<"old", t, frame[t].old>> : t \in {u \in Task : frame[u].old # NoRec}}
    \cup (IF tpc = "retry_drop" THEN {<<"tick", Main, tick.pend>>} ELSE {})

\* Every allocated start record has exactly one holder that will free it (no
\* leak, no double free), and the record a retry is starting from stays
\* allocated and published until the retry commits (no use after free).
RecordsOwned ==
    /\ live = {h[3] : h \in RecordHolders}
    /\ Cardinality(live) = Cardinality(RecordHolders)
    /\ tpc \in {"retry_starting", "retry_commit"} =>
           tick.pend \in live /\ pending[tick.job] = tick.pend

\* A job module that started and was neither stopped nor completed is known
\* to the registry: it is reported running, or a transition is in flight.
NoForgottenJob ==
    \A j \in Job : active[j] # 0 => busy[j] \/ state[j] = "running"

\* A stopped or failed job lists no resources once no transition is in flight.
StoppedListsNothing ==
    \A j \in Job : ~busy[j] /\ state[j] \in {"stopped", "failed"} => ~noted[j]

\* Launches published and not yet finished, and publications not yet counted.
Outstanding == Cardinality({h \in RecordHolders : h[1] # "new"})
Uncounted == Cardinality({t \in Task : pc[t] = "start_note"})

\* task_waiting never loses a waiting launch: it is short only by the
\* publications whose count is still to be added.
NoWaiterUncounted == waiting + Uncounted >= Outstanding

\* What `mem policy` promises ("the current number of waiting jobs",
\* doc/memory-policy.md): with no count or release pending, task_waiting is
\* the number of waiting jobs.
WaitersCounted ==
    (Uncounted = 0 /\ \A h \in RecordHolders : h[1] = "pending")
        => waiting = Outstanding

\* A worker "that completes asynchronously" reports to the registry and only
\* "stale completion is rejected" (doc/service-concurrency.md): a job reported
\* running has a module that runs or has yet to report.
CompletionNotLost ==
    \A j \in Job \cap WorkerJob :
        state[j] = "running" /\ ~busy[j]
            => active[j] = gen[j] \/ <<j, gen[j]>> \in reporting

\* No start or stop call blocks forever, whatever callbacks are in flight.
CallsReturn == \A t \in Task : pc[t] # "idle" ~> pc[t] = "idle"

\* A transition, a deferred stop included, always ends.
BusyReleased == \A j \in Job : busy[j] ~> ~busy[j]

\* A waiting launch is settled once memory keeps becoming available.
WaitersSettled == \A j \in Job : state[j] = "waiting" ~> state[j] # "waiting"
=============================================================================
