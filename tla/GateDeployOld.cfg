SPECIFICATION DeploySpec
CONSTANTS
    a1 = a1
    a2 = a2
    s1 = s1
    s2 = s2
    s3 = s3
    Apps = {a1}
    Scans = {s1, s2}
    AppOf <- OneApp2
    Approvers = {u1}
    Nobody = Nobody
    NoScan = NoScan
    MaxRetries = 1
    MaxQueued = 1
    Workers = {w1}
    Callers = {c1}
    Slugs = {a1}
    SlugOf <- OwnSlugs
    Deployments = {d1, d2}
    NoDep = NoDep
    MaxPort = 2
    MaxLaunches = 3
    MaxCalls = 0
    MaxDeployFaults = 0
    Crashes = FALSE
CHECK_DEADLOCK FALSE
PROPERTIES
    OldVersionSurvives
