SPECIFICATION Spec
CONSTANTS
    N = 6
    Sect = 4
    TagLen = 1
    PsiRoom = 2
    Images <- MCImages
    SizeOf <- MCSizeOf
    MaxSeq = 3
INVARIANTS
    
    TakesEffect
CHECK_DEADLOCK FALSE
