SPECIFICATION FairSpec
CONSTANTS
    Buf = {b1, b2, b3}
    Ip = {p, q, s}
    StaticIp = {s}
    Hw = {h1, h2}
    NoIp = noip
    NoHw = nohw
    AsIp <- LooksLikeS
    s = s
    h1 = h1
    TableSize = 2
    TxWaitMax = 2
    KeepTimer = 2
    QueryTimer = 1
    QueryRetries = 1
    MaxQueue = 1
    MaxUsage = 1
INVARIANTS
    OneHome
    WaitsForItsHop
    OneEntryPerHop
    
PROPERTIES
    PoolRefills
CHECK_DEADLOCK FALSE
