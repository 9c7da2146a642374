SPECIFICATION KeeperSpec
CONSTANTS
    a1 = a1
    a2 = a2
    s1 = s1
    s2 = s2
    Apps = {a1}
    Scans = {s1, s2}
    AppOf <- OneApp2
    Approvers = {u1}
    Nobody = Nobody
    NoScan = NoScan
    MaxRetries = 0
    MaxQueued = 1
    MaxFaults = 0
    SlowCommits = FALSE
    Workers = {w1}
    Callers = {c1}
    Slugs = {a1}
    SlugOf <- OwnSlugs
    Deployments = {d1, d2}
    NoDep = NoDep
    MaxPort = 2
    MaxLaunches = 2
    MaxCalls = 1
    MaxDeployFaults = 0
    Crashes = FALSE
SYMMETRY ScansAndWorkers
INVARIANTS
    LiveCodeIsApproved
PROPERTIES
    KeepsTheGate
    RefinesReview
CHECK_DEADLOCK FALSE
