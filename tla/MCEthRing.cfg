SPECIFICATION FairSpec
CONSTANTS
    NrRx = 3
    NrTx = 2
    Frame = {f, g}
    NoFrame = none
    Cut = cut
PROPERTIES
    RingsAreQueues
    KeepsReceiving
    WritesReturn
CHECK_DEADLOCK FALSE
