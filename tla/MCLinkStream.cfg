SPECIFICATION FairSpec
CONSTANTS
    a = a
    b = b
    End = {a, b}
    Writer = {a}
    SessionsOf <- MCSessionsOf
    SeqMax = 2
    TxMax = 1
    RxMax = 1
    NetMax = 1
    ItemMax = 2
    FaultMax = 1
INVARIANTS
    TypeOK
    AckedWasAccepted
    NoStaleBytes
    WindowAligned
PROPERTIES
    
    Delivered
