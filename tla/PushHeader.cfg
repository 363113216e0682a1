SPECIFICATION Spec
CONSTANTS
    MaxRetry = 3
    MaxFrames = 2
    MaxList = 5
INVARIANTS
    HeaderHasSps
CHECK_DEADLOCK FALSE
