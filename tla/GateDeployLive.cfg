SPECIFICATION FairDeploySpec
CONSTANTS
    a1 = a1
    a2 = a2
    s1 = s1
    s2 = s2
    s3 = s3
    Apps = {a1}
    Scans = {s1}
    AppOf <- OneApp1
    Approvers = {u1}
    Nobody = Nobody
    NoScan = NoScan
    MaxRetries = 2
    MaxQueued = 1
    Workers = {w1, w2}
    Callers = {c1}
    Slugs = {a1}
    SlugOf <- OwnSlugs
    Deployments = {d1}
    NoDep = NoDep
    MaxPort = 1
    MaxLaunches = 3
    MaxCalls = 1
    MaxDeployFaults = 1
    Crashes = FALSE
CHECK_DEADLOCK FALSE
PROPERTIES
    BuildingEnds
