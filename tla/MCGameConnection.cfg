SPECIFICATION FairSpec
CONSTANTS
    Conns = {c1, c2}
    Sessions = {s1, s2}
    NoSession = noSession
    Rids = {r1, r2, r3}
    RateLimit = 2
    Capacity = 2
    second = c2
    othersession = s2
    otherrid = r2
    thirdrid = r3
CONSTRAINT Focus
CHECK_DEADLOCK FALSE
INVARIANTS
    ConnTypeOK
    NoLostNotice
    HonestReplies
    MetricsAgree
PROPERTIES
    TerminalIsUnique
    RevokedCloses
