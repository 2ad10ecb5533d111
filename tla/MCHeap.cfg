SPECIFICATION HeapSpec
CONSTANTS
    Base = 8
    Length = 44
    Header = 4
    Ptr = 2
    Int64 = 4
    MinBlk = 6
    Sizes = {0, 3, 8}
    Aligns = {0, 8}
INVARIANT
    WellFormed
PROPERTY
    IsAnAllocator
