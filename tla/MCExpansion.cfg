\* Two bus slots, one of them the board's UART; two devices; one I2C service
\* call, one driver transaction and one change of rate at a time.
SPECIFICATION Spec
CONSTANTS
    BusMax = 2
    LeaseMax = 3
    MaxGen = 2
    LeaseCap <- MCLeaseCap
    i2c_x = i2c_x
    i2c_y = i2c_y
    spi_x = spi_x
    uart_u = uart_u
    uart_v = uart_v
    c0 = c0
    c1 = c1
    ch = ch
    cu = cu
    cv = cv
    p1 = p1
    p2 = p2
    p3 = p3
    addr = addr
    sensor = sensor
    radio = radio
    Def = {i2c_x, spi_x, uart_u, uart_v}
    NoDef = NoDef
    NameOf <- MCNameOf
    Proto <- MCProto
    Endpoint <- MCEndpoint
    KeysOf <- MCKeysOf
    BoardBuses <- UartBoard
    Fixed = {}
    Exclusive <- MCExclusive
    Faulty = {spi_x}
    Device = {sensor, radio}
    Service = service
    Lessee <- MCLessee
    Key <- MCKey
    NoOwner = NoOwner
    I2cUser = {i1, i2}
    Driver = {d1}
    Speeder = {s1}
    NoTask = NoTask
    Needs <- MCNeeds
    DevKeys <- MCDevKeys
    Detachable = {sensor}
SYMMETRY MCSymmetry
INVARIANTS
    TypeOK
    PinnedStable
    RefsCounted
    
    HardwareFollowsLeases
    ExclusiveLease
    ServiceLeaseCovers
    ActiveDeviceEquipped
    AbsentDeviceClaimsNothing
