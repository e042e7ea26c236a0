SPECIFICATION Spec
CONSTANTS
    Specs <- MCSpecs
    Slices <- MCSlices
    Decoders <- MCDecoders
    Inputs <- MCInputs
    Outputs <- MCOutputs
    SavedSlices <- MCSavedSlices
    Embedding = "embedding"
    VisionSlice = "vision_projector"
    VitSlice = "vit"
    Destination = "container"
    NotSelectable = NotSelectable
    NoEvidence = NoEvidence
    NoSlices = NoSlices
    NoManifest = NoManifest
    NoIndex = NoIndex
    Calls <- MCCalls
    MaxCalls = 1
    NoisySets <- MCNoisySets
    NoCall = NoCall
    NoTrace = NoTrace
CONSTRAINT Worthwhile
INVARIANTS
    ChainTotalsTrue
