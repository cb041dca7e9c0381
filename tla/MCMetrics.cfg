SPECIFICATION Spec
CONSTANTS
    OsStreams = {cpu, rx}
    RawStreams = {rx}
    Uptime = uptime
    SendUptime = TRUE
    Custom = {app}
    Values = {1, 2}
    Window = 2
    SaveEvery = 2
    MaxStreams = 1
    MaxPending = 4
    ChanCap = 1
    QueueCap = 1
    MaxClock = 4
    MaxSamples = 2
    MaxFaults = 1
    MaxCrashes = 1
INVARIANTS
    TypeOK
    SamplesConserved
    WindowsAgree
    PendingIsNewest
    CleanMeansSaved
PROPERTIES
    NumbersGrow
