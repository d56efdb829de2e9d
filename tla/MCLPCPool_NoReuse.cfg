SPECIFICATION Spec
CONSTANTS
    small = small
    long = long
    dense = dense
    Files = {small, long, dense}
    Block = {b1, b2, b3, b4, b5, b6}
    None = None
    Reuse = FALSE
    Quantum = 6
    Shape <- Shapes
    Failures = {"compile", "build", "serialize", "insert", "fetch", "copy"}
    Handler = TRUE
    MaxOps = 2
    MaxReqs = 1
INVARIANTS
    StorageLive
    RecordsWhole
    GrowthBounded
CHECK_DEADLOCK FALSE
