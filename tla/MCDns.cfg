SPECIFICATION Spec
CONSTANTS
    Word = 16
    ClocksPerTick = 2
    Start = 0
    MaxGap = 2
    Hosts = {a, b}
    Ids = 4
    Ports = 2
    Buffers = 2
    MaxQueue = 2
    Timeout = 1
    RetryCount = 2
    MaxClocks = 19
    MaxAsked = 1
SYMMETRY HostSymmetry
INVARIANTS
    TimeIsKept
    AnswersTheQuestion
    BuffersAccounted
    LookupInTime
CHECK_DEADLOCK FALSE
