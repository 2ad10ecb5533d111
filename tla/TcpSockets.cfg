SPECIFICATION Spec
CONSTANTS
    Tcb = {t1, t2, t3, t4}
    NoTcb = null
    Peer = {p1}
    NoPeer = none
    MaxPorts = 2
    MaxTcbs = 3
    NumPorts = 5
    Reserved = 1
    UserPorts = {0}
    Ticks = {3}
SYMMETRY Symmetry
INVARIANTS
    ListAgrees
    TableAgrees
    ClosingIsOrphaned
    
PROPERTY HandlesStay
CHECK_DEADLOCK FALSE
