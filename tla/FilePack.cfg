SPECIFICATION Spec
CONSTANTS
    Calls <- FileCalls
    InsertSizes = {0, 3}
    MaxPacked = 9
    InsertWhenStopped = FALSE
    InitialLengths = {0, 3}
    MinBuffer = 1
    DefaultBuffer = 2
    MemcpyHandlesOverlap = TRUE
INVARIANTS TypeOK WithinBuffer NoByteLost FileIsPrefix BarrierHolds CompleteAtEnd
PROPERTIES StoppedStaysStopped ImplementsStream
