SPECIFICATION Spec
CONSTANTS
    Keys = {k1, k2, k3}
    Values <- FullValues
    Mixed = FALSE
    MaxRecs = 3
    MaxDepth = 2
    Nested <- SleepCalls
SYMMETRY KeySymmetry
INVARIANTS
    NoReadError
    OffsetsTile
PROPERTIES
    FetchReturnsStored
    AdditionsCommitted
CHECK_DEADLOCK FALSE
