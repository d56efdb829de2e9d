SPECIFICATION Spec
CONSTANTS
    Procs = {p1}
    Main = main
    Mods = {inc}
    Ctx = ctx
    None = None
    Protect = 0
    StatChoices = {TRUE, FALSE}
    ClearWays = {"call"}
    MaxTime = 3
    MaxEdits <- AllEdits
    MaxVer = 2
INVARIANTS
    TypeOK
    TimeIdentifiesVersion
    MainIsCurrent
PROPERTY
    CheckedLoadIsFresh
CHECK_DEADLOCK FALSE
