SPECIFICATION Spec
CONSTANTS
    Runs = {g, h}
    Publishers = {p, q}
    StageNames = {validate}
    Configs = {c1, c2}
    NoRef = noref
    MaxRevisions = 4
SYMMETRY Symmetry
CHECK_DEADLOCK FALSE
INVARIANTS
    ResultsAgree
    SuccessIsPublished
PROPERTIES
    ImplementsChains
