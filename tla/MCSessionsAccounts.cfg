SPECIFICATION Spec
CONSTANTS
    u1 = u1
    u2 = u2
    Users = {u1, u2}
    n1 = n1
    Names = {n1}
    t1 = t1
    t2 = t2
    t3 = t3
    Tokens = {t1, t2, t3}
    b1 = b1
    Browsers = {b1}
    r1 = r1
    r2 = r2
    Requests = {r1, r2}
    NoUser = NoUser
    NoName = NoName
    NoToken = NoToken
    NoBrowser = NoBrowser
    Lossy = TRUE
SYMMETRY Symmetry
INVARIANTS
    NoOrphanSessions
    UniqueNames
    SessionSurvives
CHECK_DEADLOCK FALSE
