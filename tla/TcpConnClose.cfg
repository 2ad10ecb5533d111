SPECIFICATION Spec
CONSTANTS
    A = a
    B = b
    Junk = junk
    SeqSize = 16
    BufSize = 3
    Mtu = 2
    Cwnd = 5
    Iss = 14
    Connecting <- OnlyA
    Closing <- Both
    Quota <- QuotaA2
    Faults = {"lose", "duplicate", "overtake", "noebuf", "early"}
    MaxFaults = 1
    Expiring = {"fast", "retx", "keep", "msl"}
PROPERTIES
    OffersStreams
    FollowsDiagram
CHECK_DEADLOCK FALSE
