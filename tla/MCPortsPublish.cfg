SPECIFICATION Spec
CONSTANTS
    a = a
    b = b
    mic = mic
    pa = pa
    pb = pb
    pm = pm
    c1 = c1
    c2 = c2
    Name = {a, mic}
    NoName = NoName
    NumPorts = 2
    NumStreams = 2
    Foreign = {mic}
    Provider = {pa, pm}
    DriverName <- MCDriverName
    Client = {c1}
    Known = {a, mic}
    KnownStream = {a}
    SlowClose = {}
    Careless = {}
    NoClient = NoClient
    TokenSpace = 3
    MaxRegs = 3
    MaxCalls = 2
INVARIANT ClaimKept
