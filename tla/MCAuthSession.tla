---------------------------- MODULE MCAuthSession ----------------------------
(* A small instance of AuthSession: sessions of one user share its account and   *)
(* its password, and three generations let a predecessor of a predecessor return. *)
EXTENDS AuthSession, TLC

Symmetry == Permutations(Keys) \cup Permutations(Sessions)

\* Sessions share their account and its password only: one of them rotates.
Focus == \E s \in Sessions : \A t \in Sessions \ {s} : gen[t] <= 1
=============================================================================
