SPECIFICATION FairSpec
CONSTANTS
    small = small
    long = long
    dense = dense
    Files = {small, long, dense}
    Block = {b1, b2}
    None = None
    Reuse = TRUE
    Quantum = 6
    Shape <- Shapes
    Failures = {"compile", "build", "serialize", "insert", "fetch", "copy"}
    Handler = TRUE
    MaxOps = 3
    MaxReqs = 2
INVARIANTS
    StorageLive
    StorageFreed
    RecordsWhole
    WildIfInterrupted
    GrowthBounded
PROPERTY
    IncludesEnd
CHECK_DEADLOCK FALSE
