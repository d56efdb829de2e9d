SPECIFICATION Spec
CONSTANTS
    Keys = {k1, k2, k3}
    Values <- FullValues
    Mixed = FALSE
    MaxRecs = 3
    MaxDepth = 2
    Nested <- AllCalls
SYMMETRY KeySymmetry
PROPERTY
    FetchReturnsStored
CHECK_DEADLOCK FALSE
