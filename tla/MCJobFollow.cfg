SPECIFICATION FollowSpec
CONSTANTS
    Launchers = {l}
    Workers = {w}
    Cancellers = {c}
    Helper = h
    NoClient = nobody
    LastStage = 1
    MaxEvents = 30
    MaxKills = 1
CHECK_DEADLOCK FALSE
PROPERTIES
    FollowEnds
    LaunchSettles
    ImplementsJournal
    NoStageAfterEnd
