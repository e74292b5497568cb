SPECIFICATION Spec
CONSTANTS
    Objects <- GraphObjects
    Heaps <- OneArray
    RepeatHeaps = {}
    CutHeaps = {}
    MaxPacked = 1
    MaxItems = 24
    KnownClasses <- Classes
    SkipsLabelled = FALSE
    ForeignStreams = {}
    CutsAnywhere = FALSE
INVARIANT DumpTellsOffsets
