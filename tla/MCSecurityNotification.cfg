SPECIFICATION NoticeFairSpec
CONSTANTS
    Deliverers = {d1}
    Notifiers = {n1, n2}
    Notices = {reset1}
    MaxFaults = 2
    MaxAttempts = 2
CONSTRAINT Focus
CHECK_DEADLOCK FALSE
INVARIANTS
    NoticesAgree
PROPERTIES
    Fenced
    Recovers
    ReportsRespectRows
    NoticesEnd
