SPECIFICATION Spec
CONSTANTS
    Tabs = {t1, t2}
    NoTab = NoTab
    User = u1
    NoUser = NoUser
    Sessions = {s1}
    NoSession = NoSession
    MaxKeys = 3
    MaxEpoch = 0
    MaxFaults = 3
CHECK_DEADLOCK FALSE
INVARIANTS
    NoNewKeyAfterDoubt
