SPECIFICATION HttpdFairSpec
CONSTANTS
    NumSockets = 2
    Lengths = {0, 2}
INVARIANTS
    OneUpload
    OneListens
PROPERTIES
    ReadyIsFlashed
CHECK_DEADLOCK FALSE
