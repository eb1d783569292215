------------------------ MODULE MCSecurityNotification ------------------------
EXTENDS SecurityNotification, TLC

\* What the run follows.  No worker reads the heartbeats: they change before the first reset
\* only, where the circuit alone is followed through two faults.  Beside a notice there is
\* one fault or a retired contact: one delays it, the other ends it, or keeps the reset from
\* committing.  When every notice has ended and no worker is left with one, only the circuit
\* remains.
Focus ==
    /\ (\E n \in Notices : notice[n] # NoRow) => beat = Roles /\ faults <= 1
    /\ (\A n \in Notices : Ended(notice[n])) => \E w \in Notifiers : job[w] # NoJob
    /\ contact \/ \A n \in Notices : notice[n].state \notin {"absent", "asked"}
    /\ contact \/ faults = 0
=============================================================================
