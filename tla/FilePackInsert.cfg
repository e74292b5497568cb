SPECIFICATION Spec
CONSTANTS
    Calls <- FileCalls
    InsertSizes = {0, 3}
    MaxPacked = 9
    InsertWhenStopped = TRUE
    InitialLengths = {0, 3}
    MinBuffer = 1
    DefaultBuffer = 2
    MemcpyHandlesOverlap = TRUE
PROPERTY StoppedIsInert
