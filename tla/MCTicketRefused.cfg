SPECIFICATION Spec
CONSTANTS
    Client = Client
    Server = Server
    Setups <- ExpiredTicket
INVARIANTS
    FallsBack
CHECK_DEADLOCK FALSE
