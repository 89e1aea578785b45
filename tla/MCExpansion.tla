----------------------------- MODULE MCExpansion -----------------------------
(* Small instances of Expansion: two I2C buses that share a pin, an SPI bus    *)
(* that may take the name of the first, and two UARTs.                         *)
EXTENDS Expansion, TLC

CONSTANTS i2c_x, i2c_y, spi_x, uart_u, uart_v,   \* descriptors
          c0, c1, ch, cu, cv,               \* controllers
          p1, p2, p3, addr,              \* pins, and an I2C address
          sensor, radio                    \* devices

Descriptors ==
    (i2c_x :> [name |-> "x", proto |-> "i2c", endpoint |-> c0, keys |-> {c0, p1}]) @@
    (i2c_y :> [name |-> "y", proto |-> "i2c", endpoint |-> c1, keys |-> {c1, p1, p2}]) @@
    (spi_x :> [name |-> "x", proto |-> "spi", endpoint |-> ch, keys |-> {ch, p2}]) @@
    (uart_u :> [name |-> "u", proto |-> "uart", endpoint |-> cu, keys |-> {cu, p3}]) @@
    (uart_v :> [name |-> "v", proto |-> "uart", endpoint |-> cv, keys |-> {cv, p2}])

MCNameOf == [d \in Def |-> Descriptors[d].name]
MCProto == [d \in Def |-> Descriptors[d].proto]
MCEndpoint == [d \in Def |-> Descriptors[d].endpoint]
MCKeysOf == [d \in Def |-> Descriptors[d].keys]
MCKey == {c0, c1, ch, cu, cv,p1, p2, p3, addr}
MCExclusive == Def \cap {uart_u, uart_v}
MCLessee == Device \cup {Service}

NoBoard == <<>>
UartBoard == <<uart_u>>

\* The sensor has an address on the I2C bus x, the radio is on the SPI bus x,
\* and both are on the UART u, which the radio leases first.
X(p) == [name |-> "x", proto |-> p]
U == [name |-> "u", proto |-> "uart"]
MCNeeds == [d \in Device |-> IF d = sensor THEN <<X("i2c"), U>> ELSE <<U, X("spi")>>]
MCNeedsX == [d \in Device |-> <<X("i2c")>>]
\* The calls of the I2C service overlap under one name; a device leases a bus once.
MCLeaseCap == [o \in MCLessee |-> IF o = Service THEN 2 ELSE 1]

MCSymmetry == Permutations(I2cUser)

MCDevKeys == [d \in Device |-> IF d = sensor THEN {addr} ELSE {}]
=============================================================================
