\* Two processes, three calls of a client, and two failures, crashes or
\* restarts; a window of two ticks; one of the processes runs the keepalive
\* loop. The time, calls and the keepalive loop end.
CONSTANTS
    p1 = p1
    p2 = p2
    h1 = h1
    h2 = h2
    r1 = r1
    r2 = r2
    r3 = r3
    o1 = o1
    o2 = o2
    Procs = {p1, p2}
    Hosts = {h1, h2}
    Calls = {r1, r2, r3}
    Clients = {"client"}
    DevKeys = {"d1", "d2"}
    NoKey = "unset"
    NoOrg = "no org"
    Orgs = {o1, o2}
    Settings <- MCSettings
    KeepaliveEnabled = {p1}
    Limit = 1
    Window = 2
    MaxNow = 3
    MaxFaults = 2
SYMMETRY Symmetry
SPECIFICATION Spec
INVARIANTS
    TypeOK
    WindowLimit
    RefusalsAreEarned
    SeededOnce
CHECK_DEADLOCK FALSE
