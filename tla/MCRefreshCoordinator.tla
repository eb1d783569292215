------------------------ MODULE MCRefreshCoordinator ------------------------
(* A small instance of RefreshCoordinator: two tabs contend for the lock.        *)
EXTENDS RefreshCoordinator, TLC

Symmetry == Permutations(Tabs) \cup Permutations(Sessions)

\* A reset on another device comes with one fault of this browser, two faults without it.
Focus == faults = MaxFaults => epoch[User] = 0
=============================================================================
