SPECIFICATION FairSpec
CONSTANTS
    a1 = a1
    s1 = s1
    s2 = s2
    s3 = s3
    u1 = u1
    u2 = u2
    Apps = {a1}
    Scans = {s1, s2}
    AppOf <- OneApp2
    Approvers = {u1}
    Nobody = Nobody
    NoScan = NoScan
    MaxQueued = 1
    MaxRetries = 1
    MaxFaults = 0
    SlowCommits = FALSE
PROPERTIES
    ScanSettles
    ApprovedIsDispatched
CHECK_DEADLOCK FALSE
