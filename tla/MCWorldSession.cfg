SPECIFICATION Spec
CONSTANTS
    Conns = {w1, w2}
    MaxSessions = 2
    MaxMessages = 2
INVARIANTS
    SlotsAreCounted
    ResidentStateHasAnOwner
    OneSlotIsIsolated
PROPERTY
    SilentClientsAreFreed
CHECK_DEADLOCK FALSE
