SPECIFICATION StreamSpec
CONSTANTS
    Files <- AllFiles
    SkipCounts = {1, 2}
    InitialLengths = {0, 1, 3}
    DefaultBuffer = 2
    PartialReads = FALSE
INVARIANT PointersInOrder
