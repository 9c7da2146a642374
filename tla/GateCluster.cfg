SPECIFICATION ClusterSpec
CONSTANTS
    Commits = {s1, s2, s3}
    Unbuildable = {s3}
    Broken = {s2}
    NoCommit = NoCommit
    Tasks = {t1, t2, t3}
    Callers = {c1}
    MaxRetries = 1
    MaxCalls = 3
    MaxFaults = 2
CONSTRAINT OneConcern
SYMMETRY Alike
INVARIANTS
    ClusterTypeOK
    ImageIsBuilt
    ClusterMatchesRow
    OneOfThemBuilds
CHECK_DEADLOCK FALSE
