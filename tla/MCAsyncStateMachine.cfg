SPECIFICATION Spec
CONSTANTS
    Client = Client
    Server = Server
    Applications <- MCApplications
    RecordLength = 2
    WireCapacity = 3
    MaxWrites = 2
INVARIANTS
    RaisesForCause
    ReportedInOrder
PROPERTIES
    EachRecordReported
    CloseEnds
CHECK_DEADLOCK FALSE
