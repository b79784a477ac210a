SPECIFICATION MeterSpec
CONSTANTS
    Counts = {1, 2}
    MaxLines = 3
    MaxBody = 2
INVARIANTS
    ForwardedByTheLine
    BilledIsReported
CHECK_DEADLOCK FALSE
