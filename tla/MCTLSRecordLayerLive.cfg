SPECIFICATION FairSpec
CONSTANTS
    Client = Client
    Server = Server
    CloseSocket <- Never
    IgnoreAbruptClose <- Never
    MaxWrites = 1
    MaxFragments = 1
    MaxUpdates = 1
    MaxTickets = 0
    WireCapacity = 4
    MaxFaults = 1
PROPERTIES
    KeysConverge
    CloseEnds
CHECK_DEADLOCK FALSE
