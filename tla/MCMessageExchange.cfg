SPECIFICATION Spec
CONSTANTS
    None = None
    HRR <- MCHRR
    HashLength = 32
    Compressors = {1}
    Decompressors = {1, 2}
    Samples <- AllSamples
INVARIANTS
    ReadAsMeant
    WrittenAsRead
    RefusedWithAlert
    BindersCoverHello
CHECK_DEADLOCK FALSE
