SPECIFICATION Spec
CONSTANTS
    Objects <- GraphObjects
    Heaps <- Graphs
    RepeatHeaps <- RepeatGraphs
    CutHeaps <- RepeatGraphs
    MaxPacked = 2
    MaxItems = 24
    KnownClasses <- Classes
    SkipsLabelled = FALSE
    ForeignStreams <- AllStreams
    CutsAnywhere = FALSE
INVARIANTS
    OneItemPerCall
    LabelsInOrder
    GraphRebuilt
    OnlyWhatWasPacked
    DumpIsStream
    ReadersAgree
PROPERTIES
    CallsEnd
