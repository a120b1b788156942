SPECIFICATION FairSpec
CONSTANTS
    t1 = t1
    Tabs = {t1}
    u1 = u1
    u2 = u2
    Users = {u1, u2}
    s1 = s1
    s2 = s2
    Sends = {s1, s2}
    NoUser = NoUser
    NoSend = NoSend
    MaxOpens = 3
    MaxLoads = 2
    MaxQueue = 2
INVARIANTS
    TypeOK
    OnlyATwinMisleads
    StoredOnce
PROPERTIES
    SendsSettle
    SilenceNoticed
CHECK_DEADLOCK FALSE
