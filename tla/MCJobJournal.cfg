SPECIFICATION Spec
CONSTANTS
    Workers = {w}
    Beater = b
    NoClient = nobody
    Clients = {w, b, c}
    Slots = {s1}
    Bodies = {x, y}
    Manifests = {m1}
    NoManifest = nomanifest
    Payloads = {}
    SetStates = {"RUNNING", "SUCCEEDED"}
    MaxEvents = 3
    MaxTime = 2
CHECK_DEADLOCK FALSE
INVARIANTS
    TypeOK
    LogGapFree
    StateNotAheadOfLog
    ReceiptsBacked
    WritersExclude
PROPERTIES
    TerminalStays
    LogImmutable
    HeartbeatMonotone
