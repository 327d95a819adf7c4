\* The operand and two further varnodes over two leaves, two hops, as a fair
\* trace; it stops when it is done.
CONSTANTS
    n1 = n1
    n2 = n2
    n3 = n3
    x = x
    y = y
    k1 = k1
    k2 = k2
    Varnodes = {n1, n2, n3, x, y}
    Keys = {n1, n2, n3, x, y}
    Operand = n1
    Origins = {k1, k2}
    MaxHops = 2
    Programs <- AllPrograms
SPECIFICATION FairSpec
INVARIANTS
    TypeOK
    TraceSound
    TraceExact
    NoReentry
PROPERTIES
    Terminates
CHECK_DEADLOCK FALSE
