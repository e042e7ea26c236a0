SPECIFICATION Spec
CONSTANTS
    build = build
    validate = validate
    c1 = c1
    c2 = c2
    Runs = {g, h, i, k}
    Publishers = {A, B}
    StageNames = {build, validate}
    Configs = {c1, c2}
    NoRef = noref
    Build = build
    Plans <- Plan
    Specs <- TwoSpecs
    MaxRevisions = 8
    MaxCrashes = 1
SYMMETRY Symmetry
CHECK_DEADLOCK FALSE
INVARIANTS
    RunsHaveOneWriter
    AttemptsFresh
    AttemptsAccepted
    SucceededComplete
    BuiltStagesRunOnce
