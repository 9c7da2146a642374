SPECIFICATION DeploySpec
CONSTANTS
    a1 = a1
    a2 = a2
    s1 = s1
    s2 = s2
    s3 = s3
    Apps = {a1, a2}
    Scans = {s1, s2}
    AppOf <- TwoApps2
    Approvers = {u1}
    Nobody = Nobody
    NoScan = NoScan
    MaxRetries = 1
    MaxQueued = 1
    Workers = {w1, w2}
    Callers = {c1}
    Slugs = {a1, a2}
    SlugOf <- OwnSlugs
    Deployments = {d1, d2}
    NoDep = NoDep
    MaxPort = 2
    MaxLaunches = 3
    MaxCalls = 1
    MaxDeployFaults = 1
    Crashes = TRUE
SYMMETRY AlikeWorkers
INVARIANTS
    RunningRowIsTrue
CHECK_DEADLOCK FALSE
