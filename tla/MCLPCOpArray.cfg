SPECIFICATION Spec
CONSTANTS
    Files <- Small
    Procs = {p1, p2}
    Bases = {1000, 2000}
    Countdown = 4
    JitNames = {"_GET", "_SERVER"}
    OtherNames = {"_OTHER"}
    JitSettings = {TRUE, FALSE}
    MaxTries = 1
    None = None
INVARIANTS
    LoadedRunsAlike
    AutoglobalsArmed
    NoFalseCircular
CHECK_DEADLOCK FALSE
