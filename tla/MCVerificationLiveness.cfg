SPECIFICATION FairSpec
CONSTANTS
    Challenges = {c1, c2}
    NoChallenge = NoChallenge
    Workers = {w1}
    Clients = {k1}
    Nobody = Nobody
    MaxAttempts = 2
    MaxTries = 1
    MaxCrashes = 1
CONSTRAINT Focus
CHECK_DEADLOCK FALSE
PROPERTIES
    DeliveryEnds
