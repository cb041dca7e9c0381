SPECIFICATION Spec
CONSTANTS
    MemoryMax = 3
    ChunkMax = 2
    SpoolMax = 4
    OtherBytes = 0
    MaxFaults = 1
    MaxEntries = 5
    ChanCap = 1
    QueueCap = 1
    PubBatch = 1
    MaxCrashes = 1
    MaxSignals = 1
INVARIANTS
    IInv
    BoundedDuplication
PROPERTIES
    ImplementsDelivery
