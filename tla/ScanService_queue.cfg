\* Two concurrent requests of one free organisation, jobs in RQ, a worker
\* with the scheduler, one retry and up to two failures.
\* Requests, jobs and deletes all end, so the system may stop.
CONSTANTS
    s1 = s1
    s2 = s2
    s3 = s3
    acme = acme
    NoPath = NoPath
    Scans = {s1, s2}
    Orgs = {acme}
    FreeOrgs = {acme}
    OrgOf <- OneOrg
    Limit = 1
    Threads = 2
    Inline = FALSE
    SchedulerOn = TRUE
    MaxRetries = 1
    MaxFaults = 2
SYMMETRY Symmetry
SPECIFICATION Spec
INVARIANTS
    TypeOK
    ChargedBeforeWork
    EventsMatchReports
    StageMeansRunning
    DeletedLeavesNoObject
    OrphansComeFromFailures
    StrandedOnlyByLoss
    FailsForWantOfObject
PROPERTIES
    DeletedIsFinal
    ImplementsContract
CHECK_DEADLOCK FALSE
