SPECIFICATION UsedSpec
CONSTANTS
    Calls <- PackCalls
    InsertSizes = {0, 5}
    MaxPacked = 12
    InsertWhenStopped = FALSE
    InitialLengths = {0, 1, 3}
    DefaultBuffer = 2
    FlushesContent = FALSE
    MemoryLengths = {0, 1, 3, 9}
    DefaultMemory = 2
INVARIANTS WithinBuffer NoByteLost HandlerReturns OneBuffer BufferIsExact
PROPERTIES ImplementsStream StaticStaysFixed
