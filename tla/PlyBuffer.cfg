SPECIFICATION Spec
CONSTANTS
    PLY_RED_TIME = 2
    PLY_MAX_DELAY = 4
    PLY_MAX_CACHE = 4
    Second = 4
    Streams = {{"video"}, {"audio"}, {"audio", "video"}}
    MaxTime = 40
    MaxLate = 7
INVARIANT TypeOK
PROPERTIES
    ResumesWhereItStopped
    ResumesInTime
    BackOff
CHECK_DEADLOCK FALSE
