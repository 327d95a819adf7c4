\* The deployment of worker.Dockerfile: fair workers, and no scheduler.
CONSTANTS
    s1 = s1
    s2 = s2
    s3 = s3
    acme = acme
    NoPath = NoPath
    Scans = {s1, s2}
    Orgs = {acme}
    FreeOrgs = {acme}
    OrgOf <- OneOrg
    Limit = 1
    Threads = 2
    Inline = FALSE
    SchedulerOn = FALSE
    MaxRetries = 1
    MaxFaults = 2
SPECIFICATION FairSpec
PROPERTIES
    ScansSettle
CHECK_DEADLOCK FALSE
