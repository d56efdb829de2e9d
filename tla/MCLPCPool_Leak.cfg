SPECIFICATION Spec
CONSTANTS
    small = small
    long = long
    dense = dense
    Files = {small, long, dense}
    Block = {b1, b2, b3, b4, b5, b6}
    None = None
    Reuse = FALSE
    Quantum = 6
    Shape <- Shapes
    Failures = {}
    Handler = FALSE
    MaxOps = 2
    MaxReqs = 2
INVARIANTS
    StorageFreed
CHECK_DEADLOCK FALSE
