-------------------------- MODULE SessionLifecycle --------------------------
(***************************************************************************)
(* What the authentication authority promises of a login session: it opens *)
(* once, at any moment at most one refresh token of it is honoured, each   *)
(* exchange replaces that token by one never honoured before, and a closed *)
(* session stays closed and honours none.  Whom the session belongs to,    *)
(* why it closes, idempotency keys and clocks are the implementation's.    *)
(***************************************************************************)
EXTENDS Integers

CONSTANT Sessions

VARIABLES
    phase,      \* "new", "open" or "closed"
    issued,     \* how many tokens the session has issued
    honoured    \* the tokens an exchange would accept

lifecycle == <<phase, issued, honoured>>

Init ==
    /\ phase = [s \in Sessions |-> "new"]
    /\ issued = [s \in Sessions |-> 0]
    /\ honoured = [s \in Sessions |-> {}]

Open(s) ==
    /\ phase[s] = "new"
    /\ phase' = [phase EXCEPT ![s] = "open"]
    /\ issued' = [issued EXCEPT ![s] = 1]
    /\ honoured' = [honoured EXCEPT ![s] = {1}]

Exchange(s) ==
    /\ phase[s] = "open"
    /\ issued' = [issued EXCEPT ![s] = @ + 1]
    /\ honoured' = [honoured EXCEPT ![s] = {issued[s] + 1}]
    /\ UNCHANGED phase

\* One operation may close several sessions: two locators of a logout, all of a user.
Close(S) ==
    /\ \A s \in S : phase[s] = "open"
    /\ phase' = [s \in Sessions |-> IF s \in S THEN "closed" ELSE phase[s]]
    /\ honoured' = [s \in Sessions |-> IF s \in S THEN {} ELSE honoured[s]]
    /\ UNCHANGED issued

Next ==
    \/ \E s \in Sessions : Open(s) \/ Exchange(s)
    \/ \E S \in SUBSET Sessions : Close(S)

Spec == Init /\ [][Next]_lifecycle
=============================================================================
