SPECIFICATION Spec
SYMMETRY Interchangeable
CONSTANTS
    i1 = i1
    i2 = i2
    i3 = i3
    i4 = i4
    s1 = s1
    s2 = s2
    s3 = s3
    s4 = s4
    SessionIDs <- IDs
    Sessions <- Objects
    MaxEntries = 3
    MaxAge = 1
    ClockSteps <- Forward
    MaxClock = 4
    KeyError = KeyError
    NoID = NoID
INVARIANTS
    RingMatchesDict
PROPERTIES
    ImplementsSessionStore
