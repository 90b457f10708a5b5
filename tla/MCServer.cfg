CONSTANTS
    FD_SETSIZE = 4
    NOFILE = 4
    Foreign = {1}
    MaxClients = 5
SPECIFICATION FairSpec
INVARIANTS
    ServesWhomItSaw
    SendAsserts
PROPERTIES
    ReadableServed
    ClientsGetIn
CHECK_DEADLOCK FALSE
