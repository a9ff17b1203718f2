SPECIFICATION FairSpec
CONSTANTS
    www = www
    a = a
    Laws = {a, b, u}
    Hosts = {www}
    HostOf <- MCHostOf
    Untrusted = {u}
    Concurrency = 2
    Delay = 2
    MaxRetries = 1
    RetryAfters = {0, 1}
    MaxRuns = 2
    Answers <- MCAnswers
INVARIANTS
    DiskIsWhatIsSaid
    AuditAgreesWithSelector
PROPERTIES
    RequestsSpaced
    RunEnds
CHECK_DEADLOCK FALSE
