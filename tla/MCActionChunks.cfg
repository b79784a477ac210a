SPECIFICATION Spec
CONSTANTS
    s1 = s1
    Sessions = {s1}
    FrameChunkSize = 2
    ActionPerFrame = 2
    MaxRows = 4
    MaxCalls = 5
INVARIANTS
    CacheMatchesTheClock
    ProposalIsCurrent
    OneProposalPerState
CHECK_DEADLOCK FALSE
