SPECIFICATION Spec
CONSTANTS
    a1 = a1
    s1 = s1
    s2 = s2
    s3 = s3
    u1 = u1
    u2 = u2
    Apps = {a1}
    Scans = {s1, s2}
    AppOf <- OneApp2
    Approvers = {u1, u2}
    Nobody = Nobody
    NoScan = NoScan
    MaxQueued = 1
    MaxRetries = 1
    MaxFaults = 1
    SlowCommits = TRUE
INVARIANTS
    TypeOK
    DispatchedOnlyApproved
    AutoApprovalOnlyGreenInitial
    ExpeditedIsJustified
    ScanningHasCause
    AwaitingHasPending
PROPERTIES
    DecisionIsFinal
    DecidedTierIsFinal
CHECK_DEADLOCK FALSE
