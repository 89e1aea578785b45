CONSTANTS
    NumJobs = 2
    WorkerJob <- MCLiveWorkerJob
    TickJob <- MCTickJob
    Main = main
    Client = {shell}
    Rec = {r1, r2}
    NoRec = NoRec
    MaxCalls = 2
SPECIFICATION FairSpec
PROPERTIES
    CallsReturn
    BusyReleased
    WaitersSettled
