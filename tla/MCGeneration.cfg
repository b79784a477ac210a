SPECIFICATION Spec
CONSTANTS
    c1 = c1
    c2 = c2
    Callers = {c1, c2}
    Configs <- MCConfigs
    FrameSizes = {1, 2}
    MaxDrift = 2
    MaxRequests = 2
INVARIANTS
    StalenessIsBounded
    SchedulerFollowsTheLoop
    CompiledWithinCeiling
    GuardedOnceLoaded
CHECK_DEADLOCK FALSE
