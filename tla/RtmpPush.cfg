SPECIFICATION Spec
CONSTANTS
    MaxRetry = 3
    MaxFrames = 2
    MaxList = 5
INVARIANTS
    TypeOK
    NothingStale
    NothingGarbled
    EncodersFollowStream
PROPERTIES
    ReportsStatus
    Settles
    StopEnds
CHECK_DEADLOCK FALSE
