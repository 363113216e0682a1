SPECIFICATION Spec
CONSTANTS
    ShortCids = {c4}
    LongCids = {c70}
    Lengths = {1, 4, 5}
    Times = {1, 7}
    ChunkSizes = {2, 3}
    MaxTime = 6
    MaxMessages = 3
    MaxWire = 2
INVARIANTS
    RoundTrip
    NothingHeldBack
CHECK_DEADLOCK FALSE
