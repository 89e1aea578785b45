------------------------------- MODULE MCJobs -------------------------------
(***************************************************************************)
(* Two jobs, one with a worker and one with a tick callback and a worker,  *)
(* the main task and one client task.                                      *)
(***************************************************************************)
EXTENDS Jobs, TLC

MCWorkerJob == {1, 2}
MCTickJob == {2}
MCLiveWorkerJob == {1}
MCSymmetry == Permutations(Rec) \cup Permutations(Client)
=============================================================================
