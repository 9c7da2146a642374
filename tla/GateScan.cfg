SPECIFICATION MCScanSpec
CONSTANTS
    Contents <- MCContents
    Answers <- MCAnswers
    Pages = {p1}
    MaxRetries = 2
    MaxFaults = 3
    MaxBreaks = 1
INVARIANTS
    ScanTypeOK
    GreenIsEarned
    ShownIsCommitted
PROPERTIES
    WaitEnds
CHECK_DEADLOCK FALSE
