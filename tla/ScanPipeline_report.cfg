\* Every pair of calls of the sample, in functions that decompile or not, with
\* every fingerprint reference and every outcome of the recogniser.
CONSTANTS
    Callees <- MCCallees
    Symbol <- MCSymbol
    Callers = {"f1", "f2"}
    Sites = 2
    Calls <- MCCalls
    ScoreTables <- MCScoreTables
    AesCiphers <- MCAesCiphers
    EcbCiphers <- MCEcbCiphers
    Pqc <- MCPqc
    Regions <- MCRegions
SPECIFICATION Spec
INVARIANTS
    TypeOK
    NoFactIsMerged
    FactsReachOneAsset
    CallsAreAnswered
    KeysAreAnswered
