SPECIFICATION Spec
CONSTANTS
    MemoryMax = 2
    ChunkMax = 1
    SpoolMax = 3
    OtherBytes = 0
    MaxFaults = 1
    MaxEntries = 7
    ChanCap = 1
    QueueCap = 1
    PubBatch = 1
    MaxCrashes = 1
    MaxSignals = 0
INVARIANTS
    TypeOK
    InFlightIntact
    BacklogVisible
    RamBounded
    SpoolOvershoot
    AgeOrder
PROPERTIES
    NoSilentLoss
    DiskSurvives
