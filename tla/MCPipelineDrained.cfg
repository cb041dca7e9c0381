SPECIFICATION Spec
CONSTANTS
    MemoryMax = 2
    ChunkMax = 2
    SpoolMax = 2
    OtherBytes = 0
    MaxFaults = 0
    MaxEntries = 3
    ChanCap = 1
    QueueCap = 1
    PubBatch = 1
    MaxCrashes = 0
    MaxSignals = 1
PROPERTIES
    DrainedKept
