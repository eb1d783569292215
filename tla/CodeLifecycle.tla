---------------------------- MODULE CodeLifecycle ----------------------------
(***************************************************************************)
(* What the service promises of the one-time codes it mails: a code is asked *)
(* for once and for one subject (a purpose, an address), it can be used only *)
(* after its mail was delivered, at most once, and a newer code of the       *)
(* subject that becomes usable, or a use that says so, ends the others; a    *)
(* code that has ended or was used stays so, and no step ends codes of       *)
(* several subjects.  Guesses, clocks, leases and retries are the            *)
(* implementation's.                                                        *)
(***************************************************************************)
CONSTANTS Codes, Subjects, NoSubject

VARIABLES
    phase,      \* "new", "requested", "usable", "used" or "ended"
    about       \* the subject of a code, once it is asked for

lifecycle == <<phase, about>>

Init ==
    /\ phase = [c \in Codes |-> "new"]
    /\ about = [c \in Codes |-> NoSubject]

Request(c, subject) ==
    /\ phase[c] = "new"
    /\ phase' = [phase EXCEPT ![c] = "requested"]
    /\ about' = [about EXCEPT ![c] = subject]

\* The code c gets to another phase and those of S end with it.
Moves(c, to, S) ==
    /\ phase' = [d \in Codes |-> IF d = c THEN to ELSE IF d \in S THEN "ended" ELSE phase[d]]
    /\ UNCHANGED about

Others(c, phases) == {d \in Codes \ {c} : about[d] = about[c] /\ phase[d] \in phases}

\* One code of a subject is usable: the last one delivered.
Deliver(c) ==
    /\ phase[c] = "requested"
    /\ Moves(c, "usable", Others(c, {"usable"}))

\* Not delivered, or expired, or guessed at too often.
End(c) ==
    /\ phase[c] \in {"requested", "usable"}
    /\ Moves(c, "ended", {})

Use(c) ==
    /\ phase[c] = "usable"
    /\ \E S \in SUBSET Others(c, {"requested", "usable"}) : Moves(c, "used", S)

Next ==
    \E c \in Codes :
       \/ \E subject \in Subjects : Request(c, subject)
       \/ Deliver(c)
       \/ End(c)
       \/ Use(c)

Spec == Init /\ [][Next]_lifecycle
=============================================================================
