SPECIFICATION Spec
CONSTANTS
    Viewers = {a, b}
    Sources = {s}
    Statics = {s1, s2}
    Pulls = {l1, l2}
    Pushes = {h1, h2, h3}
    Configs <- AllConfigs
    NoSession = NoSession
INVARIANTS
    PushFollows
PROPERTIES
    StaticRestarts
CHECK_DEADLOCK FALSE
