SPECIFICATION Spec
CONSTANTS
    t1 = t1
    Tabs = {t1}
    u1 = u1
    Users = {u1}
    s1 = s1
    s2 = s2
    Sends = {s1, s2}
    NoUser = NoUser
    NoSend = NoSend
    MaxOpens = 2
    MaxLoads = 2
    MaxQueue = 2
SYMMETRY Symmetry
INVARIANTS
    ConfirmedMeansStored
CHECK_DEADLOCK FALSE
