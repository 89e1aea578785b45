SPECIFICATION Spec
CONSTANTS
    p = p
    q = q
    u1 = u1
    u2 = u2
    Key <- MCKey
    Owner <- MCOwner
    NoOwner = NoOwner
    Bundle <- MCBundle
    NoClaim = NoClaim
    ClaimMax = 3
    Pin = {p, q}
    InputOnly = {q}
    PwmMax = 1
    User = {u1}
    Flasher = {}
    FlashPins = {p, q}
    NoPin = NoPin
INVARIANT UsedPinsClaimed
