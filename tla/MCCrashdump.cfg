SPECIFICATION FairSpec
CONSTANTS
    None = None
    Slots = {dmesg0, dmesg1}
    DeleteAfter = TRUE
    Retention = 0
    QueueCap = 1
    MaxDumps = 2
    Sizes = {0, 2}
    MaxClock = 1
    MaxFaults = 1
    MaxCrashes = 1
    MaxDrops = 1
INVARIANTS
    TypeOK
    DeletedOnlyAccepted
    SentOncePerLife
    LastChunkMeansWhole
    PromptRetry
PROPERTIES
    NoFreshResend
    EventuallyCleared
