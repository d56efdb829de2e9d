SPECIFICATION RelocSpec
CONSTANTS
    Words = 10
    Radix = 2
    WordBytes = 4
    Bases <- TwoBases
INVARIANT
    NoRelocationError
CHECK_DEADLOCK FALSE
