SPECIFICATION Spec
CONSTANTS
    Requests = {r1, r2}
    Keys = {k1, k2}
    Contacts = {c1, c2}
    Devices = {d1}
    Ips = {i1}
    Limits <- MCLimits
    MaxClock = 1
    MaxRequests = 2
    Signups = {s1, s2}
    Names = {n1, n2}
    Wrong = Wrong
    CacheLimit <- MCCacheLimit
    MaxSignups = 2
    k1 = k1
    k2 = k2
CONSTRAINT Focus
SYMMETRY Symmetry
CHECK_DEADLOCK FALSE
INVARIANTS
    LimitsCount
    OneAnswer
    RegistersOnce
PROPERTY
    ImplementsCodes
