SPECIFICATION FairSpec
CONSTANTS
    t1 = t1
    t2 = t2
    t3 = t3
    Tokens = {t1, t2, t3}
    Requests = {}
    NoToken = NoToken
    Unreadable = {}
    Boot = Boot
    Timer = Timer
PROPERTIES
    RefreshSparesLogin
CHECK_DEADLOCK FALSE
