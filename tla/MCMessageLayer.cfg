SPECIFICATION FairSpec
CONSTANTS
    BlockLength = 2
    MacLength = 2
    TagLength = 2
    NonceLength = 2
    Setups <- AllSetups
    ProtocolLimit = 6
    Expansion = 6
    Expansion13 = 3
    MaxEarlyData = 8
    WireCapacity = 9
    MaxFaults = 1
INVARIANTS
    NoFalseAlarm
PROPERTIES
    ImplementsChannel
    AllDelivered
CHECK_DEADLOCK FALSE
