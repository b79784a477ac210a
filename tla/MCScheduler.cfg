SPECIFICATION MCSpec
CONSTANTS
    a = a
    b = b
    d = d
    t1 = t1
    t2 = t2
    c1 = c1
    c2 = c2
    Ids = {a, b, d}
    Callers = {t1, t2}
    Consumers = {c1, c2}
    Capacity = 2
    MaxSubmits = 3
    ReuseIds = FALSE
INVARIANTS
    LenIsOutstanding
    NoLostWakeup
    ShutdownWakesAll
PROPERTIES
    ImplementsPriorityQueue
    EveryRequestServed
