SPECIFICATION Spec
CONSTANTS
    Requests = {r1, r2}
    NumPages = 3
    Frames <- WindowFrames
    Steps <- TwoSteps
    MaxAllocs = 4
SYMMETRY Symmetry
INVARIANTS
    CapacityRespected
PROPERTIES
    PinnedSurvives
    PastFramesGoFirst
    IdsAreStable
