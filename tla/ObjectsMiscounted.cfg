SPECIFICATION Spec
CONSTANTS
    Objects <- GraphObjects
    Heaps <- Miscounting
    RepeatHeaps = {}
    CutHeaps = {}
    MaxPacked = 1
    MaxItems = 24
    KnownClasses <- Classes
    SkipsLabelled = FALSE
    ForeignStreams = {}
    CutsAnywhere = FALSE
INVARIANTS
    OneItemPerCall
