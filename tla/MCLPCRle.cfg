SPECIFICATION RleSpec
CONSTANTS
    RunMax = 3
    Guard = 2
    Word = 4
    StorageQuantum = 124
    Records <- MCRecords
    Gaps <- MCGaps
INVARIANTS
    RoundTrip
    OverflowOnlyWhenTight
CHECK_DEADLOCK FALSE
