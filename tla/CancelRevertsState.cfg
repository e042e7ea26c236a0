SPECIFICATION Spec
CONSTANTS
    Launchers = {l}
    Workers = {w}
    Cancellers = {c}
    Helper = h
    NoClient = nobody
    LastStage = 1
    MaxEvents = 30
    MaxKills = 0
CHECK_DEADLOCK FALSE
PROPERTIES
    OnlyWorkersAdvance
