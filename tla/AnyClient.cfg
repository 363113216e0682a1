SPECIFICATION AnySpec
CONSTANTS
    Rtmp = {r1, r2}
    Flv = {}
    Paths = {a, b}
    StreamIds = {1}
    NoPath = NoPath
    Nobody = Nobody
SYMMETRY Symmetry
VIEW View
INVARIANTS
    MapMatchesStarted
CHECK_DEADLOCK FALSE
