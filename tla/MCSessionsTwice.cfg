SPECIFICATION Spec
CONSTANTS
    u1 = u1
    Users = {u1}
    n1 = n1
    Names = {n1}
    t1 = t1
    t2 = t2
    t3 = t3
    Tokens = {t1, t2, t3}
    b1 = b1
    Browsers = {b1}
    r1 = r1
    r2 = r2
    Requests = {r1, r2}
    NoUser = NoUser
    NoName = NoName
    NoToken = NoToken
    NoBrowser = NoBrowser
    Lossy = FALSE
INVARIANTS
    TokenWorksOnce
CHECK_DEADLOCK FALSE
