SPECIFICATION LiveSpec
CONSTANTS
    Ids = {a}
    Threads = {t1, t2, t3}
    QueueDepth = 0
    MaxIndex = 1
    MaxAccepts = 2
    DriverPush = TRUE
INVARIANTS
    StreamWellFormed
    EndOfStreamIsTruthful
PROPERTIES
    FinishedStreamsEnd
