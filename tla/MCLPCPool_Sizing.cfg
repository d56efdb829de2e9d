SPECIFICATION Spec
CONSTANTS
    small = small
    long = long
    dense = dense
    Files = {small, long, dense}
    Block = {b1, b2, b3}
    None = None
    Reuse = TRUE
    Quantum = 6
    Shape <- Shapes
    Failures = {}
    Handler = FALSE
    MaxOps = 1
    MaxReqs = 1
PROPERTY
    BufferHoldsLargest
CHECK_DEADLOCK FALSE
