SPECIFICATION Spec
CONSTANTS
    main = main
    a = a
    b = b
    c = c
    lib = lib
    near = near
    pick = pick
    fit = fit
    e1 = e1
    e2 = e2
    s1 = s1
    s2 = s2
    s3 = s3
    s4 = s4
    s5 = s5
    s6 = s6
    s7 = s7
    s8 = s8
    Main = main
    Files = {main, a, b, c}
    Names = {main, a, b, c, lib, near, pick, fit}
    None = None
    Settings = {e1, e2}
    Set0 = e1
    Where <- MCWhere
    Beside <- MCBeside
    Own <- MCOwn
    Funcs <- MCFuncs
    Calls <- MCCalls
    Shutdown <- MCDown
    Operand <- MCOperand
    Constant <- MCConst
    Once <- MCOnce
    MaxDepth = 4
INVARIANTS
    RewrittenOnlyInside
    ExecutedOnce
PROPERTIES
    MetRewrittenInside
    LoadsWhatNameMeans
CHECK_DEADLOCK FALSE
