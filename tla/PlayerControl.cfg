SPECIFICATION Spec
CONSTANTS
    MAX_RETRY_TIME = 3
    MaxStarts = 2
INVARIANTS
    TypeOK
    NoDeletedDecoder
    StoppedClean
PROPERTIES
    Answered
    CallsReturn
CHECK_DEADLOCK FALSE
