SPECIFICATION Spec
CONSTANTS
    Players = {p1}
    QueueLimit = 3
    MaxSent = 6
    MaxPauses = 2
INVARIANTS
    TypeOK
    Feed
    InOrder
CHECK_DEADLOCK FALSE
