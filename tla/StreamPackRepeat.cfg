SPECIFICATION Spec
CONSTANTS
    Calls <- StreamCalls
    InsertSizes = {0, 1}
    MaxPacked = 5
    InsertWhenStopped = FALSE
    InitialLengths = {0, 3}
    DefaultBuffer = 2
    FlushesContent = TRUE
INVARIANT FileIsPrefix
