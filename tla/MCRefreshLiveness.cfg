SPECIFICATION FairSpec
CONSTANTS
    Tabs = {t1, t2}
    NoTab = NoTab
    User = u1
    NoUser = NoUser
    Sessions = {s1}
    NoSession = NoSession
    MaxKeys = 3
    MaxEpoch = 1
    MaxFaults = 2
CHECK_DEADLOCK FALSE
PROPERTIES
    EveryCallEnds
