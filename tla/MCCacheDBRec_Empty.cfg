SPECIFICATION Spec
CONSTANTS
    Keys = {k1, k2, k3}
    Values <- EmptyValues
    Mixed = FALSE
    MaxRecs = 3
    MaxDepth = 2
    Nested <- NoCalls
SYMMETRY KeySymmetry
PROPERTY
    AdditionsCommitted
CHECK_DEADLOCK FALSE
