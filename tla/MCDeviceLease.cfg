SPECIFICATION FairSpec
CONSTANTS
    Attempts = {a1, a2}
    Collectors = {g1, g2}
    Nobody = nobody
    MaxKills = 1
    MaxLate = 1
CHECK_DEADLOCK FALSE
INVARIANTS
    ExclusiveUse
    DirsRecorded
    BeatsReferenced
PROPERTIES
    OthersUntouched
    Reclaimed
