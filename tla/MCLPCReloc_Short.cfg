SPECIFICATION RelocSpec
CONSTANTS
    Words = 8
    Radix = 2
    WordBytes = 4
    Bases <- TwoBases
INVARIANTS
    PointersRestored
    UnreadKept
CHECK_DEADLOCK FALSE
