SPECIFICATION Spec
CONSTANTS
    Users = {u1}
    NoUser = NoUser
    Sessions = {s1, s2}
    Keys = {k1, k2, k3}
    MaxGen = 3
    MaxEpoch = 1
CONSTRAINT Focus
SYMMETRY Symmetry
CHECK_DEADLOCK FALSE
INVARIANTS
    TypeOK
    Coherent
    OneSuccessor
    CurrentPasswordOnly
PROPERTIES
    NoResurrection
    RetryIsStable
    ImplementsLifecycle
