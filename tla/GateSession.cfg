SPECIFICATION MCSessionSpec
CONSTANTS
    u1 = u1
    Users = {u1}
    NoUser = NoUser
    l1 = l1
    l2 = l2
    l3 = l3
    Logins = {l1, l2, l3}
    NoLogin = NoLogin
    b1 = b1
    Browsers = {b1}
    p1 = p1
    p2 = p2
    Pages = {p1, p2}
    NoPage = NoPage
    BrowserOf <- OneBrowser
    r1 = r1
    r2 = r2
    Requests = {r1, r2}
    MaxPairs = 5
    MaxTicks = 2
    MaxUpsets = 1
INVARIANTS
    SessionTypeOK
    LoginIsSingle
    ThrownOutForCause
    StoredIsCurrent
PROPERTIES
    KeyIsCurrent
    RequestSettles
CHECK_DEADLOCK FALSE
