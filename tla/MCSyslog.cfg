\* The source may have stopped, and the bounds of the environment be reached.
CHECK_DEADLOCK FALSE
SPECIFICATION FairSpec
CONSTANTS
    MaxFiles = 3
    MaxLines = 2
    MaxErrors = 1
INVARIANTS
    TypeOK
    OneLinePerEntry
    NothingSkipped
    RotationNoticed
    ReadAtMostTwice
PROPERTIES
    CatchesUp
