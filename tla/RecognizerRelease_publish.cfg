\* Two trainings on seven data sets, one interrupt, a scan and a check at any time.
CONSTANTS
    NoneId = 2
    Datasets <- MCDatasets
    Regions <- MCRegions
    MinSupport = 1
    SliceMinSupport = 1
    MaxTrainings = 2
    MaxInterrupts = 1
SPECIFICATION Spec
INVARIANTS
    TypeOK
    AssertionsWereGated
    CalmScansUseTheGatedModel
    CheckVouches
