SPECIFICATION Spec
CONSTANTS
    a = a
    b = b
    mic = mic
    pa = pa
    pb = pb
    pm = pm
    c1 = c1
    c2 = c2
    Name = {a, b, mic}
    NoName = NoName
    NumPorts = 2
    NumStreams = 3
    Foreign = {mic}
    Provider = {pa, pb, pm}
    DriverName <- MCDriverName
    Client = {c1, c2}
    Known = {a, b}
    KnownStream = {a}
    SlowClose = {b}
    Careless = {}
    NoClient = NoClient
    TokenSpace = 3
    MaxRegs = 3
    MaxCalls = 2
SYMMETRY MCSymmetry
INVARIANTS
    TypeOK
    ClaimKept
    OpenOnClosed
    OpenMeansClaimed
    ClaimsHeld
    HandlesCounted
    EndpointBacked
PROPERTY ClaimsSpec
