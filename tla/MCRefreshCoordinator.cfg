SPECIFICATION Spec
CONSTANTS
    Tabs = {t1, t2}
    NoTab = NoTab
    User = u1
    NoUser = NoUser
    Sessions = {s1, s2}
    NoSession = NoSession
    MaxKeys = 3
    MaxEpoch = 1
    MaxFaults = 2
CONSTRAINT Focus
SYMMETRY Symmetry
CHECK_DEADLOCK FALSE
INVARIANTS
    BrowserTypeOK
    RetryRecovers
    HonestNoReplay
PROPERTIES
    ForcedLogoutExplained
