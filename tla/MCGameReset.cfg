SPECIFICATION Spec
CONSTANTS
    Conns = {c1}
    Sessions = {s1}
    NoSession = noSession
    Rids = {r1}
    RateLimit = 1
    Capacity = 1
    otherrid = r1
    thirdrid = r1
    second = c1
    othersession = noSession
INVARIANT ResetNotifies
CHECK_DEADLOCK FALSE
