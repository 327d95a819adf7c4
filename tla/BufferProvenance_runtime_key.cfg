\* A stack key is zeroed before an RNG fills it.
CONSTANTS
    main = main
    c1 = c1
    c2 = c2
    x1 = x1
    x2 = x2
    x3 = x3
    Main = main
    Callers = {c1, c2}
    RngSources = {"RAND_bytes", "getrandom"}
    WeakSources = {"time"}
    Cells = {x1, x2, x3}
    Checked = {x1, x2}
    Ops <- AllOps
    MaxOps = 3
SYMMETRY Symmetry
SPECIFICATION Spec
INVARIANTS
    RuntimeKeyIsNotStatic
CHECK_DEADLOCK FALSE
