SPECIFICATION ClosingSpec
CONSTANTS
    A = a
    B = b
    Junk = junk
    SeqSize = 16
    BufSize = 3
    Mtu = 2
    Cwnd = 5
    Iss = 14
    Connecting <- OnlyA
    Closing <- OnlyA
    Quota <- QuotaA2
    Faults = {"lose"}
    MaxFaults = 2
    Expiring = {"fast", "retx", "msl"}
INVARIANTS
    AckIsOwed
PROPERTIES
    EverythingArrives
    CloseCompletes
CHECK_DEADLOCK FALSE
