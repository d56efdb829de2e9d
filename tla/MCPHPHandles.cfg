SPECIFICATION Spec
CONSTANTS
    Procs = {p1}
    Blocks = {b1, b2, b3}
    Keys = {k1}
    None = None
    MAX_DB_FILES = 2
    MaxOpening = 2
SYMMETRY Symmetry
INVARIANTS
    SlotsOwnBlocks
PROPERTIES
    ShutdownCommitsNothing
    HandlesAreSessions
CHECK_DEADLOCK FALSE
