SPECIFICATION FairSpec
CONSTANTS
    t1 = t1
    t2 = t2
    t3 = t3
    Tokens = {t1, t2, t3}
    r1 = r1
    Requests = {r1}
    NoToken = NoToken
    Unreadable = {t3}
    Boot = Boot
    Timer = Timer
INVARIANTS
    OneRefresh
PROPERTIES
    BootSparesLogin
    BootResolves
    RequestsSettle
    ExpiryHandled
CHECK_DEADLOCK FALSE
