SPECIFICATION Spec
CONSTANTS
    Procs = {p1}
    Main = main
    Mods = {inc}
    Ctx = ctx
    None = None
    Protect = 0
    StatChoices = {TRUE, FALSE}
    ClearWays = {"call", "cookie"}
    MaxTime = 3
    MaxEdits <- AllEdits
    MaxVer = 2
\* Each of these fails: keep one at a time to see its counterexample.
INVARIANTS
    UncachedRequestRuns
PROPERTIES
    ErrorDiscardsUpdates
    ClearCookieInvalidates
    ClearCallDisables
    CompileErrorsSurvive
CHECK_DEADLOCK FALSE
