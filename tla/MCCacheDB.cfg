SPECIFICATION Spec
CONSTANTS
    Procs = {p1, p2}
    Keys = {k1, k2}
    Inodes = {i1, i2, i3}
    None = None
    MaxClock = 1
    MaxGen = 3
    MaxFaults = 0
    ShortCopies = TRUE
SYMMETRY Symmetry
INVARIANTS
    TypeOK
    SnapshotStable
    CheckSound
    DiscardJustified
PROPERTY
    ImplementsStore
CHECK_DEADLOCK FALSE
