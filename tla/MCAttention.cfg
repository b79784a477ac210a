SPECIFICATION AttentionSpec
CONSTANTS
    p1 = p1
    p2 = p2
    Procs = {p1, p2}
    Hosts <- MCHosts
    Fastest <- MCFastest
    MaxCalls = 2
    Inodes = {1, 2, 3, 4}
    MaxScore = 2
    MinSeqLen = 2
    BridgeMinSeqLen = 3
    MinDim = 2
    MaxScores = 16
    AmxTile = 2
INVARIANTS
    ResultIsTheAttentionAsked
    RaisedCallsAreKnown
    Fp8IsOptIn
    ServedOpIsDeclared
PROPERTIES
    TunedShapesStayTuned
CHECK_DEADLOCK FALSE
