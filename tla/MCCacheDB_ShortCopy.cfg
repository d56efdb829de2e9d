SPECIFICATION Spec
CONSTANTS
    Procs = {p1, p2}
    Keys = {k1, k2}
    Inodes = {i1, i2, i3}
    None = None
    MaxClock = 1
    MaxGen = 3
    MaxFaults = 1
    ShortCopies = TRUE
SYMMETRY Symmetry
INVARIANT
    PublishesOnlyWhole
CHECK_DEADLOCK FALSE
