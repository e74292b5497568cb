SPECIFICATION Spec
CONSTANTS
    Calls <- FileCalls
    InsertSizes = {0, 3}
    MaxPacked = 9
    InsertWhenStopped = FALSE
    InitialLengths = {0, 3}
    MinBuffer = 1
    DefaultBuffer = 2
    MemcpyHandlesOverlap = FALSE
INVARIANT BarrierHolds
