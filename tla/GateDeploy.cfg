SPECIFICATION DeploySpec
CONSTANTS
    a1 = a1
    a2 = a2
    s1 = s1
    s2 = s2
    s3 = s3
    Apps = {a1}
    Scans = {s1, s2, s3}
    AppOf <- OneApp3
    Approvers = {u1}
    Nobody = Nobody
    NoScan = NoScan
    MaxRetries = 0
    MaxQueued = 1
    Workers = {w1}
    Callers = {c1}
    Slugs = {a1}
    SlugOf <- OwnSlugs
    Deployments = {d1, d2}
    NoDep = NoDep
    MaxPort = 2
    MaxLaunches = 4
    MaxCalls = 2
    MaxDeployFaults = 0
    Crashes = FALSE
SYMMETRY WorkersAndScans
INVARIANTS
    RunningRowIsTrue
    RouteReachesApp
    NoContainerLeaks
    StoppedIsDown
CHECK_DEADLOCK FALSE
