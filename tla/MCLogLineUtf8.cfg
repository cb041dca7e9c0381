\* A line is parsed once.
CHECK_DEADLOCK FALSE
SPECIFICATION Spec
CONSTANTS
    Messages <- MCMessages
    MaxUnits = 2
INVARIANTS
    OnlyAsciiSkipped
