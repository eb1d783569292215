----------------------- MODULE MCVerificationDelivery -----------------------
EXTENDS VerificationDelivery, TLC

\* Challenges and workers are used only through equality.
Symmetry == Permutations(Challenges) \cup Permutations(Workers)

\* A lease of a worker that no longer works under it.
Abandoned == \E w \in Workers, c \in Challenges : owner[c] = w /\ task[w] # c

Guessed == \E c \in Challenges : tries[c] > 0
Retried == \E c \in Challenges : attempts[c] > 1
Stale   == \E c \in Challenges : stale[c]

\* A code of another purpose, or one that has ended, is to a confirmation any wrong code.
TypesUsable(k) ==
    pc[k] \in {"confirming", "scoped"} /\ task[k] \in Challenges =>
        purpose[task[k]] = aim[k] /\ ch[task[k]] \in Unfinished

\* A crash is followed as long as it has left a lease behind: afterwards the rows are those of
\* a worker that was slow or that failed, with a crash less to come.  Guesses and expiries are
\* about codes that were delivered, a second attempt is about one that was not.
Focus ==
    /\ \A k \in Clients : TypesUsable(k)
    /\ crashes > 0 => Abandoned
    /\ Retried => ~Guessed /\ ~Stale

\* An open circuit only forbids polls and confirmations: what safety says is said of the steps
\* that a closed one allows.
Closed == circuit = "closed"
=============================================================================
