SPECIFICATION Spec
CONSTANTS
    WaitsToStart = TRUE
    MaxStarts = 3
INVARIANTS
    TypeOK
    NoDeletedStreamer
    Silent
    DestroyedClean
    NoCircle
PROPERTIES
    Obeyed
    Handled
    CallsReturn
CHECK_DEADLOCK FALSE
