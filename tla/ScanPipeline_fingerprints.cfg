\* A function with two names to choose from proposes neither, and leaves one
\* of them to a function that resembles it less.
CONSTANTS
    Callees <- MCCallees
    Symbol <- MCSymbol
    Callers = {"f1", "f2"}
    Sites = 2
    Calls <- MCCalls
    ScoreTables <- MCScoreTables
    AesCiphers <- MCAesCiphers
    EcbCiphers <- MCEcbCiphers
    Pqc <- MCPqc
    Regions <- MCRegions
SPECIFICATION Spec
INVARIANTS
    BothSidesUnambiguous
