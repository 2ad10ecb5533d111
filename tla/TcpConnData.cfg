SPECIFICATION Spec
CONSTANTS
    A = a
    B = b
    Junk = junk
    SeqSize = 16
    BufSize = 2
    Mtu = 2
    Cwnd = 2
    Iss = 14
    Connecting <- OnlyA
    Closing = {}
    Quota <- QuotaA3B1
    Faults = {"lose", "duplicate", "overtake", "noebuf", "early"}
    MaxFaults = 2
    Expiring = {"fast", "retx"}
INVARIANTS
    StreamIntact
    AckedIsReceived
    InStep
    UnackedIsTimed
CHECK_DEADLOCK FALSE
