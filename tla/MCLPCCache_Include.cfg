SPECIFICATION Spec
CONSTANTS
    Procs = {p1, p2}
    Main = main
    Mods = {inc}
    Ctx = ctx
    None = None
    Protect = 0
    StatChoices = {TRUE, FALSE}
    ClearWays = {}
    MaxTime = 2
    MaxEdits <- IncludeEdits
    MaxVer = 1
SYMMETRY ProcSymmetry
INVARIANTS
    TimeIdentifiesVersion
PROPERTY
    CheckedLoadIsFresh
CHECK_DEADLOCK FALSE
