SPECIFICATION Spec
CONSTANTS
    Keys = {k1, k2, k3}
    Values <- FullValues
    Mixed = TRUE
    MaxRecs = 3
    MaxDepth = 2
    Nested <- NoCalls
SYMMETRY KeySymmetry
PROPERTY
    FetchReturnsStored
CHECK_DEADLOCK FALSE
