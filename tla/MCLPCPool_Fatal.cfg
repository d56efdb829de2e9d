SPECIFICATION Spec
CONSTANTS
    small = small
    long = long
    dense = dense
    Files = {small, long, dense}
    Block = {b1, b2, b3}
    None = None
    Reuse = TRUE
    Quantum = 6
    Shape <- Shapes
    Failures = {"copy"}
    Handler = FALSE
    MaxOps = 2
    MaxReqs = 1
INVARIANTS
    NoWildFree
CHECK_DEADLOCK FALSE
