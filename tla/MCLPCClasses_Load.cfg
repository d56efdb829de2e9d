SPECIFICATION Spec
CONSTANTS
    A = A
    B = B
    C = C
    D = D
    base1 = base1
    base2 = base2
    child = child
    grand = grand
    pick = pick
    self = self
    hoist = hoist
    fn = fn
    ctor = ctor
    get = get
    unset = unset
    run = run
    prop = prop
    Files = {base1, base2, child, grand, pick, hoist}
    Classes = {A, B, C, D}
    Members = {ctor, get, unset, run, prop}
    Methods = {ctor, get, unset, run}
    Magic = {ctor, get, unset}
    Matched = {ctor, get}
    None = None
    Body <- MCBody
    Functions = {fn}
    Funcs <- MCFuncs
    MaxDepth = 2
    MaxReqs = 3
INVARIANTS
    TypeOK
    BoundToCurrent
    Transparent
    NoFatalOfItsOwn
CHECK_DEADLOCK FALSE
