\* RUN_JOBS_INLINE: the job runs inside the request.  Three requests of one
\* organisation, two of them served at once: the third may be counted beyond
\* the limit and must not be beyond the bound.  Up to two failures among two
\* requests.  Requests, jobs and deletes all end, so the system may stop.
CONSTANTS
    s1 = s1
    s2 = s2
    s3 = s3
    acme = acme
    NoPath = NoPath
    Scans = {s1, s2, s3}
    Orgs = {acme}
    FreeOrgs = {acme}
    OrgOf <- OneOrg
    Limit = 1
    Threads = 2
    Inline = TRUE
    SchedulerOn = FALSE
    MaxRetries = 0
    MaxFaults = 2
SYMMETRY Symmetry
CONSTRAINT FailuresAmongTwo
SPECIFICATION Spec
INVARIANTS
    QuotaOvershoot
    InlineReplyMeansComplete
PROPERTIES
    ImplementsContract
CHECK_DEADLOCK FALSE
