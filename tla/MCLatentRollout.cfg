SPECIFICATION RolloutSpec
CONSTANTS
    s1 = s1
    a1 = a1
    a2 = a2
    Sessions = {s1}
    Actions = {a1, a2}
    Configs <- MCConfigs
    EncodedFrames = 4
    MaxStates = 3
    MaxHorizon = 2
    MaxCandidates = 2
SYMMETRY Symmetry
INVARIANTS
    CacheIsRecomputation
    RolloutsAreExact
    CacheSpansWindow
CHECK_DEADLOCK FALSE
