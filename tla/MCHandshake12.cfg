SPECIFICATION Spec
CONSTANTS
    Client = Client
    Server = Server
    Setups <- AllMeetings
INVARIANTS
    HighestVersion
    SuiteFits
    ClientIdentity
    RejectedStaysOut
    ServedAgain
PROPERTIES
    ImplementsAgreement
    Terminates
CHECK_DEADLOCK FALSE
