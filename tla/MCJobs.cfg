CONSTANTS
    NumJobs = 2
    WorkerJob <- MCWorkerJob
    TickJob <- MCTickJob
    Main = main
    Client = {shell}
    Rec = {r1, r2}
    NoRec = NoRec
    MaxCalls = 3
SPECIFICATION Spec
SYMMETRY MCSymmetry
INVARIANTS
    TypeOK
    BusyOwned
    LifecycleExclusive
    PendingMatchesWaiting
    RecordsOwned
    NoForgottenJob
    StoppedListsNothing
    NoWaiterUncounted
