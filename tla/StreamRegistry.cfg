SPECIFICATION Spec
CONSTANTS
    Rtmp = {r1, r2, r3}
    Flv = {f1}
    Paths = {a, b}
    StreamIds = {0, 1}
    NoPath = NoPath
    Nobody = Nobody
SYMMETRY Symmetry
VIEW View
INVARIANTS
    TypeOK
    OwnersAlive
    AudienceExact
    IdleExact
    NoTypeError
PROPERTIES
    AudienceReleased
    ImplementsBroker
\* Every id is used for one connection, so the instance ends.
CHECK_DEADLOCK FALSE
