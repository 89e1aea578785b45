CONSTANTS
    NumJobs = 2
    WorkerJob <- MCWorkerJob
    TickJob <- MCTickJob
    Main = main
    Client = {shell}
    Rec = {r1, r2}
    NoRec = NoRec
    MaxCalls = 2
SPECIFICATION Spec
INVARIANTS
    CompletionNotLost
