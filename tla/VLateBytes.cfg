CONSTANTS
    Lengths = {6}
    MaxFrames = 1
SPECIFICATION Spec
INVARIANTS
    LateIsNoError
CHECK_DEADLOCK FALSE
