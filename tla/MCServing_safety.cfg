SPECIFICATION Spec
CONSTANTS
    Ids = {a, b}
    Tasks = {k1, k2}
    Priorities = {"Normal"}
    QueueDepth = 1
    Capacity = 1
    MaxFrames = 2
CHECK_DEADLOCK FALSE
SYMMETRY Symmetry
INVARIANTS
    NoPayloadLeak
    EndOfStreamIsTruthful
PROPERTIES
    DriverPushJustified
