SPECIFICATION Spec
CONSTANTS
    Challenges = {c1, c2}
    NoChallenge = NoChallenge
    Workers = {w1, w2}
    Clients = {k1}
    Nobody = Nobody
    MaxAttempts = 2
    MaxTries = 2
    MaxCrashes = 1
CONSTRAINTS
    Focus
    Closed
SYMMETRY Symmetry
CHECK_DEADLOCK FALSE
INVARIANTS
    RowsAgree
    SendsBounded
    OneDeadlock
PROPERTIES
    GuardsAccept
    ResetEndsOlderCodes
    ImplementsCodes
