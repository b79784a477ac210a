SPECIFICATION Spec
CONSTANTS
    Keys = {k1}
    Calls = {c1, c2}
    Quotas = {1}
    NoQuota = none
    MaxTokens = 1
    MaxCalls = 3
    MaxMonths = 2
SYMMETRY Symmetry
INVARIANTS
    CallsAreAccounted
    RevokedKeyBillsNothingNew
    OvershootIsInFlightOnly
CHECK_DEADLOCK FALSE
