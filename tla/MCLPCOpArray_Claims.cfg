SPECIFICATION Spec
CONSTANTS
    Files <- Claims
    Procs = {p1, p2}
    Bases = {1000, 2000}
    Countdown = 4
    JitNames = {"_GET", "_SERVER"}
    OtherNames = {"_OTHER"}
    JitSettings = {TRUE, FALSE}
    MaxTries = 1
    None = None
\* Each of these fails: keep one at a time to see its counterexample.
INVARIANTS
    NoFalseCircular
    JitNamesArmed
    OtherNamesArmed
CHECK_DEADLOCK FALSE
