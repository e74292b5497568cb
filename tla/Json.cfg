SPECIFICATION Spec
CONSTANTS
    Values <- SomeValues
    Runs = 2
INVARIANTS
    TreeIsValue
    DiffIsEmpty
