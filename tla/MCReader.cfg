CONSTANTS
    Lengths = {3, 4, 5, 7}
    MaxFrames = 3
SPECIFICATION FairSpec
INVARIANTS
    WholeFrames
    CutOffAfterHeader

    
CHECK_DEADLOCK FALSE
