SPECIFICATION FairSpec
CONSTANTS
    BlockSize = 2
    NumBlocks = 4
    MaxRetries = 3
    MaxQueue = 2
    Session = {s1, s2}
    Port69 = port69
    FileSizes = {0, 3, 4, 6}
    MaxWritten = 5
    Lengths = {1, 3}
    PoolMayFail = TRUE
    ServerMayFail = TRUE
INVARIANTS
    ReadsTheFile
    EofUnlessStarved
    WritesTheFile
    FlushedIsStored
PROPERTIES
    CallsReturn
CHECK_DEADLOCK FALSE
