SPECIFICATION MCAccessSpec
CONSTANTS
    e1 = e1
    e2 = e2
    e3 = e3
    s1 = s1
    g1 = g1
    a1 = a1
    a2 = a2
    n1 = n1
    n2 = n2
    Emails = {e1, e2, e3}
    NoEmail = NoEmail
    Groups = {g1}
    Subjects = {s1}
    NoSubject = NoSubject
    Configs <- MCConfigs
    NoConfig = NoConfig
    Desks = {d1, d2, d3}
    MaxDeaths = 1
    Apps = {a1, a2}
    NoApp = NoApp
    Names = {n1, n2}
    NoName = NoName
    Clerks = {c1, c2, c3}
    NoClerk = NoClerk
    MaxLosses = 1
    Matches <- MCMatches
    Out = Out
CONSTRAINT OneConcern
SYMMETRY Alike
CHECK_DEADLOCK FALSE
INVARIANTS
    AccessTypeOK
    AnAdminRemains
    SetupOnce
    OneAccountPerSubject
    ReposMatchRows
    SecretIsLast
    AccessFollowsGrants
