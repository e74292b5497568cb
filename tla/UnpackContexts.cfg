SPECIFICATION UsedSpec
CONSTANTS
    Files <- AllFiles
    SkipCounts = {1, 2}
    InitialLengths = {0, 1, 3}
    DefaultBuffer = 2
    MemcpyHandlesOverlap = TRUE
    PartialReads = FALSE
INVARIANTS TypeOK PointersInOrder WindowIsFile NothingSkipped
PROPERTIES EndIsTold CallReturns ImplementsStream
