SPECIFICATION Spec
CONSTANTS
    h1 = h1
    h2 = h2
    Handshakes = {h1, h2}
    Setups <- MCSetups
    ByteSize = 4
    Randoms = {1, 2, 3, 5, 8}
    KeyN = 33
    KeyE = 3
    KeyD = 7
    Encoded <- MCEncoded
    MinPrime = 20
    MaxAltered = 1
INVARIANTS
    SameSecret
    NotForced
    OnlyWellFormed
CHECK_DEADLOCK FALSE
