CONSTANTS
    Payloads = {0, 1, 3}
    Room = 5
    MaxMessages = 3
SPECIFICATION FairSpec
INVARIANTS
    StreamIsQueue
    PoppedWhenWritten
PROPERTIES
    QueueDrains
CHECK_DEADLOCK FALSE
