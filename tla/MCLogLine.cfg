\* A line is parsed once.
CHECK_DEADLOCK FALSE
SPECIFICATION Spec
CONSTANTS
    Messages <- MCMessages
    MaxUnits = 4
INVARIANTS
    StripsSequences
    OriginKept
