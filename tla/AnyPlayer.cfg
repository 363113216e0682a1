SPECIFICATION AnyPlayerSpec
CONSTANTS
    Rtmp = {r1, r2}
    Flv = {f1}
    Paths = {a, b}
    StreamIds = {0, 1}
    NoPath = NoPath
    Nobody = Nobody
SYMMETRY Symmetry
VIEW View
INVARIANTS
    OwnersUnharmed
CHECK_DEADLOCK FALSE
