SPECIFICATION BufSpec
CONSTANTS
    Byte <- MCByte
    BufSize = 3
    MaxChunk = 4
INVARIANTS
    PointersAgree
PROPERTY IsAByteQueue
CHECK_DEADLOCK TRUE
