SPECIFICATION Spec
CONSTANTS
    Launchers = {l1, l2}
    Workers = {w1, w2}
    Cancellers = {}
    Helper = h
    NoClient = nobody
    LastStage = 1
    MaxEvents = 30
    MaxKills = 1
SYMMETRY Symmetry
CHECK_DEADLOCK FALSE
INVARIANTS
    FailedLaunchEnds
PROPERTIES
    OrphanedOnlyWhenAlone
