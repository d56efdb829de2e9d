SPECIFICATION FairSpec
CONSTANTS
    Procs = {p1, p2}
    Keys = {k1}
    Inodes = {i1, i2, i3}
    None = None
    MaxClock = 0
    MaxGen = 3
    MaxFaults = 1
    ShortCopies = TRUE
INVARIANTS
    PublishedWhole
    TempsAccounted
PROPERTY
    SomeCommitLands
CHECK_DEADLOCK FALSE
