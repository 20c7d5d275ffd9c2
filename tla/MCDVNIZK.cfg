SPECIFICATION Spec
CONSTANTS
    n = 5
    EvenPoints <- Even
    ServerKeys <- ServerScalars
    ClientKeys <- ClientScalars
    Callers <- Anybody
INVARIANTS
    Complete
    Deniable
    Extractable
CHECK_DEADLOCK FALSE
