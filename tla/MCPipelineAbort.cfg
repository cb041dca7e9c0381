SPECIFICATION Spec
CONSTANTS
    MemoryMax = 1
    ChunkMax = 1
    SpoolMax = 1
    OtherBytes = 0
    MaxFaults = 0
    MaxEntries = 4
    ChanCap = 1
    QueueCap = 1
    PubBatch = 1
    MaxCrashes = 0
    MaxSignals = 0
INVARIANTS
    FlushNeverDrops
