CONSTANTS
    MaxFrames = 3
SPECIFICATION FairSpec
INVARIANTS
    PagesMatch
PROPERTIES
    
    ConnectResolves
CHECK_DEADLOCK FALSE
