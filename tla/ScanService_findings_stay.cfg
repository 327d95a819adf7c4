\* A failure after the report is committed.
CONSTANTS
    s1 = s1
    s2 = s2
    s3 = s3
    acme = acme
    NoPath = NoPath
    Scans = {s1}
    Orgs = {acme}
    FreeOrgs = {acme}
    OrgOf <- OneOrg
    Limit = 1
    Threads = 2
    Inline = FALSE
    SchedulerOn = TRUE
    MaxRetries = 1
    MaxFaults = 1
SPECIFICATION Spec
PROPERTIES
    FindingsStayReadable
CHECK_DEADLOCK FALSE
