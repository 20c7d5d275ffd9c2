SPECIFICATION Spec
CONSTANTS
    n = 5
    EvenPoints <- Even
    ServerKeys <- ServerScalars
    ClientKeys <- ClientScalars
    Callers <- Anybody
INVARIANT
    SimulationAccepted
CHECK_DEADLOCK FALSE
