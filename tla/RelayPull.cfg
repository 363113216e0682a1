SPECIFICATION Spec
CONSTANTS
    Viewers = {a, b}
    Sources = {s}
    Statics = {s1, s2}
    Pulls = {l1, l2}
    Pushes = {h1, h2, h3}
    Configs <- PullOnly
    NoSession = NoSession
PROPERTIES
    PullEnds
CHECK_DEADLOCK FALSE
