SPECIFICATION Spec
CONSTANTS
    Procs = {p1, p2}
    Keys = {k1, k2}
    Inodes = {i1, i2, i3}
    None = None
    MaxClock = 1
    MaxGen = 3
    MaxFaults = 1
    ShortCopies = FALSE
SYMMETRY Symmetry
\* Each of these fails: keep one at a time to see its counterexample.
INVARIANTS
    WriteModeKeepsRecords
    ReadNeedsDatabase
    PassedCheckMeansUnreplaced
PROPERTY
    FirstCommitterWins
CHECK_DEADLOCK FALSE
