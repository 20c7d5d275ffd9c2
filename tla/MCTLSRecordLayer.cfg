SPECIFICATION Spec
CONSTANTS
    Client = Client
    Server = Server
    CloseSocket <- ServerOnly
    IgnoreAbruptClose <- ClientOnly
    MaxWrites = 2
    MaxFragments = 2
    MaxUpdates = 1
    MaxTickets = 1
    WireCapacity = 2
    MaxFaults = 1
INVARIANTS
    TypeOK
    ReceiverInStep
    NothingUnprotected
    FailedNotResumable
PROPERTIES
    FreshNonce
    ImplementsStream
CHECK_DEADLOCK FALSE
