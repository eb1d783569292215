SPECIFICATION Spec
CONSTANTS
    Users = {u1}
    NoUser = NoUser
    Sessions = {s1}
    Keys = {k1}
    MaxGen = 1
    MaxEpoch = 0
CHECK_DEADLOCK FALSE
PROPERTIES
    ExpiryIsNotRevocation
