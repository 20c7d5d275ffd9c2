SPECIFICATION FairSpec
CONSTANTS
    Client = Client
    Server = Server
    Setups <- AllSetups
    MaxFaults = 2
    MaxWrites = 1
INVARIANTS
    ReadsInStep
    ClientIdentity
    FailedNotResumable
    FailsWithReason
PROPERTIES
    ImplementsAgreement
    Terminates
CHECK_DEADLOCK FALSE
