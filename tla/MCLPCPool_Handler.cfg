SPECIFICATION Spec
CONSTANTS
    small = small
    long = long
    dense = dense
    Files = {small, long, dense}
    Block = {b1, b2, b3}
    None = None
    Reuse = TRUE
    Quantum = 6
    Shape <- Shapes
    Failures = {}
    Handler = TRUE
    MaxOps = 2
    MaxReqs = 1
INVARIANTS
    ReadsOwnRecord
CHECK_DEADLOCK FALSE
