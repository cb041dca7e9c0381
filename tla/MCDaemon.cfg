\* The last process may have ended.
CHECK_DEADLOCK FALSE
SPECIFICATION FairSpec
CONSTANTS
    Journald = TRUE
    Cap = 1
    MaxBad = 1
    MaxLives = 2
INVARIANTS
    StartedSoundly
    SocketComesBack
PROPERTIES
    ShutdownExits
