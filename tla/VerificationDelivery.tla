------------------------ MODULE VerificationDelivery ------------------------
(***************************************************************************)
(* The one-time codes of one email address: the VerificationChallenge rows, *)
(* the VerificationDeliveryOutbox row of each, the delivery workers that    *)
(* lease and send them (identity/verification_delivery.py), and the two     *)
(* operations that consume a code: register and the confirmed password      *)
(* reset (identity/services.py).                                            *)
(*                                                                         *)
(* Grain.  The transactions take their locks in different orders and not    *)
(* all of them take the address's advisory lock ("scope"), so a transaction *)
(* is a sequence of steps: one per lock statement that may wait while other *)
(* locks are held, the last of them commits every write (READ COMMITTED:    *)
(* nobody sees an uncommitted write).  A statement that locks several rows  *)
(* takes them together.  PostgreSQL aborts one member of a deadlock.        *)
(*                                                                         *)
(* A challenge is created by one idempotency key (verification_requests.py); *)
(* a repeated or a rate-limited request changes no row modelled here.       *)
(* User, contact and account rows are locked only below the scope lock.     *)
(***************************************************************************)
EXTENDS Integers, FiniteSets, SchemaGuards

CONSTANTS
    Challenges, NoChallenge,
    Workers,        \* process_verification_deliveries processes, each with its own id
    Clients,        \* requests that confirm a code
    Nobody,
    MaxAttempts,    \* AUTH_VERIFICATION_MAX_DELIVERY_ATTEMPTS
    MaxTries,       \* wrong codes that lock a challenge: 5 in the code
    MaxCrashes      \* bound: crashes of worker processes

ASSUME MaxAttemptsAssumption == MaxAttempts \in Nat \ {0}
ASSUME MaxTriesAssumption    == MaxTries \in Nat \ {0}
ASSUME MaxCrashesAssumption  == MaxCrashes \in Nat
ASSUME NobodyAssumption      == Nobody \notin Workers \cup Clients
ASSUME NoChallengeAssumption == NoChallenge \notin Challenges
ASSUME ProcessesAssumption   == Workers \cap Clients = {}

VARIABLES
    purpose,    \* VerificationChallenge.purpose
    ch,         \* VerificationChallenge.state
    tries,      \* VerificationChallenge.attempt_count
    stale,      \* VerificationChallenge.expires_at has passed
    ob,         \* VerificationDeliveryOutbox.state
    owner,      \* .lease_owner
    lapsed,     \* .lease_expires_at has passed
    attempts,   \* .attempt_count
    payload,    \* .payload_ciphertext is kept
    registered, \* the address is a user's active contact
    pc, task,   \* where each process is, and the challenge it works on
    aim,        \* the purpose a client confirms
    scopeLock, obLock, chLock,  \* who holds the advisory lock and the row locks
    crashes,
    mailed,     \* the provider took the mail: its reader knows the code
    sends,      \* provider calls begun
    seen,       \* the challenges there were when a client got the scope lock
    circuit     \* the circuit breaker of ProviderCircuit: "open" while it gives no permit

codeVars == <<purpose, ch, tries, stale>>
outVars  == <<ob, owner, lapsed, attempts, payload>>
rowVars  == <<codeVars, outVars, registered>>
locks    == <<scopeLock, obLock, chLock>>
ghosts   == <<crashes, mailed, sends, seen>>
vars     == <<rowVars, pc, task, aim, locks, ghosts, circuit>>

Purposes   == {"registration", "password_reset"}
Unfinished == {"pending_delivery", "active"}
Final      == {"consumed", "superseded", "expired", "locked", "delivery_failed"}
Delivering == {"pending", "leased"}
Delivered  == {"delivered", "delivery_failed"}
Processes  == Workers \cup Clients
WorkerPlaces == {"idle", "polled", "claiming", "sending", "accepted", "failed", "rejected",
                 "scoped", "activating", "committing", "condemning", "down"}
ClientPlaces == {"idle", "confirming", "scoped", "resetting"}

DeliveryTypeOK ==
    /\ purpose \in [Challenges -> Purposes]
    /\ ch \in [Challenges -> {"none"} \cup Unfinished \cup Final]
    /\ tries \in [Challenges -> 0 .. MaxTries]
    /\ stale \in [Challenges -> BOOLEAN]
    /\ ob \in [Challenges -> {"none"} \cup Delivering \cup Delivered]
    /\ owner \in [Challenges -> Workers \cup {Nobody}]
    /\ lapsed \in [Challenges -> BOOLEAN]
    /\ attempts \in [Challenges -> 0 .. MaxAttempts]
    /\ payload \in [Challenges -> BOOLEAN]
    /\ registered \in BOOLEAN
    /\ pc \in [Processes -> WorkerPlaces \cup ClientPlaces]
    /\ \A w \in Workers : pc[w] \in WorkerPlaces
    /\ \A k \in Clients : pc[k] \in ClientPlaces
    /\ task \in [Processes -> Challenges \cup {NoChallenge}]
    /\ aim \in [Clients -> Purposes]
    /\ scopeLock \in Processes \cup {Nobody}
    /\ obLock \in [Challenges -> Workers \cup {Nobody}]
    /\ chLock \in [Challenges -> Processes \cup {Nobody}]
    /\ crashes \in 0 .. MaxCrashes
    /\ mailed \in [Challenges -> BOOLEAN]
    /\ sends \in [Challenges -> Nat]
    /\ seen \in [Clients -> SUBSET Challenges]
    /\ circuit \in {"open", "closed"}

\* The address is new, or a user's contact already.
Init ==
    /\ purpose = [c \in Challenges |-> "password_reset"]
    /\ ch = [c \in Challenges |-> "none"]
    /\ tries = [c \in Challenges |-> 0]
    /\ stale = [c \in Challenges |-> FALSE]
    /\ ob = [c \in Challenges |-> "none"]
    /\ owner = [c \in Challenges |-> Nobody]
    /\ lapsed = [c \in Challenges |-> FALSE]
    /\ attempts = [c \in Challenges |-> 0]
    /\ payload = [c \in Challenges |-> FALSE]
    /\ registered \in BOOLEAN
    /\ pc = [p \in Processes |-> "idle"]
    /\ task = [p \in Processes |-> NoChallenge]
    /\ aim = [k \in Clients |-> "password_reset"]
    /\ scopeLock = Nobody
    /\ obLock = [c \in Challenges |-> Nobody]
    /\ chLock = [c \in Challenges |-> Nobody]
    /\ crashes = 0
    /\ mailed = [c \in Challenges |-> FALSE]
    /\ sends = [c \in Challenges |-> 0]
    /\ seen = [k \in Clients |-> {}]
    /\ circuit \in {"open", "closed"}

-----------------------------------------------------------------------------
(* Transactions.                                                             *)

\* Commit or rollback: process p gives up every lock.
Release(p) ==
    /\ scopeLock' = IF scopeLock = p THEN Nobody ELSE scopeLock
    /\ obLock' = [c \in Challenges |-> IF obLock[c] = p THEN Nobody ELSE obLock[c]]
    /\ chLock' = [c \in Challenges |-> IF chLock[c] = p THEN Nobody ELSE chLock[c]]

\* The transaction and the call it belongs to are over.
Done(p, to) ==
    /\ Release(p)
    /\ pc' = [pc EXCEPT ![p] = to]
    /\ task' = [task EXCEPT ![p] = NoChallenge]

LockRows(p, S) ==
    /\ \A c \in S : chLock[c] = Nobody
    /\ chLock' = [c \in Challenges |-> IF c \in S THEN p ELSE chLock[c]]

LockOutbox(p, c) ==
    /\ obLock[c] = Nobody
    /\ obLock' = [obLock EXCEPT ![c] = p]

Move(p, to) == pc' = [pc EXCEPT ![p] = to]

\* A challenge gets its outbox in the same transaction.  A reset needs a contact.  That the
\* circuit is closed is asked before the transaction: it may have opened since.
RequestVerification(c, p) ==
    /\ ch[c] = "none"
    /\ p = "password_reset" => registered
    /\ purpose' = [purpose EXCEPT ![c] = p]
    /\ ch' = [ch EXCEPT ![c] = "pending_delivery"]
    /\ ob' = [ob EXCEPT ![c] = "pending"]
    /\ payload' = [payload EXCEPT ![c] = TRUE]
    /\ UNCHANGED <<tries, stale, owner, lapsed, attempts, registered, pc, task, aim,
                   locks, ghosts, circuit>>

-----------------------------------------------------------------------------
(* deliver_one_verification, in worker w.                                    *)

\* prepare_worker_poll: without a permit nothing of the rest runs, not even for an exhausted
\* lease.  A permit is kept if the circuit opens afterwards.  A worker whose own probe closed
\* the circuit is CircuitCloses and this.
Poll(w) ==
    /\ pc[w] = "idle"
    /\ circuit = "closed"
    /\ Move(w, "polled")
    /\ UNCHANGED <<rowVars, task, aim, locks, ghosts, circuit>>

\* The outbox rows of S become terminal.
CloseOutboxes(S, state) ==
    /\ ob' = [c \in Challenges |-> IF c \in S THEN state ELSE ob[c]]
    /\ owner' = [c \in Challenges |-> IF c \in S THEN Nobody ELSE owner[c]]
    /\ lapsed' = [c \in Challenges |-> IF c \in S THEN FALSE ELSE lapsed[c]]
    /\ payload' = [c \in Challenges |-> IF c \in S THEN FALSE ELSE payload[c]]
    /\ UNCHANGED attempts

\* Mutant: attempt_count__gt, the last attempt's lease is never exhausted.
ExhaustedLate(c) == ob[c] = "leased" /\ lapsed[c] /\ attempts[c] > MaxAttempts

Exhausted(c) == ob[c] = "leased" /\ lapsed[c] /\ attempts[c] >= MaxAttempts

\* SKIP LOCKED passes over a row somebody holds.
TakeExhausted(w, c) ==
    /\ pc[w] = "polled"
    /\ Exhausted(c)
    /\ LockOutbox(w, c)
    /\ Move(w, "condemning")
    /\ task' = [task EXCEPT ![w] = c]
    /\ UNCHANGED <<rowVars, aim, scopeLock, chLock, ghosts, circuit>>

NoneExhausted(w) ==
    /\ pc[w] = "polled"
    /\ \A c \in Challenges : Exhausted(c) => obLock[c] # Nobody
    /\ Move(w, "claiming")
    /\ UNCHANGED <<rowVars, task, aim, locks, ghosts, circuit>>

\* next_attempt_at only delays: a pending row is due at any later time.
Claimable(c) ==
    /\ ob[c] = "pending" \/ (ob[c] = "leased" /\ lapsed[c])
    /\ attempts[c] < MaxAttempts
    /\ obLock[c] = Nobody

Lease(w, c) ==
    /\ pc[w] = "claiming"
    /\ Claimable(c)
    /\ ob' = [ob EXCEPT ![c] = "leased"]
    /\ owner' = [owner EXCEPT ![c] = w]
    /\ lapsed' = [lapsed EXCEPT ![c] = FALSE]
    /\ Move(w, "sending")
    /\ task' = [task EXCEPT ![w] = c]
    /\ sends' = [sends EXCEPT ![c] = @ + 1]

\* Mutant: the attempt is not counted when it begins (RecordFailure would be the place).
ClaimUncounted(w, c) ==
    /\ Lease(w, c)
    /\ sends[c] <= MaxAttempts
    /\ UNCHANGED <<codeVars, attempts, payload, registered, aim, locks, crashes, mailed, seen, circuit>>

Claim(w, c) ==
    /\ Lease(w, c)
    /\ attempts' = [attempts EXCEPT ![c] = @ + 1]
    /\ UNCHANGED <<codeVars, payload, registered, aim, locks, crashes, mailed, seen, circuit>>

NothingToClaim(w) ==
    /\ pc[w] = "claiming"
    /\ \A c \in Challenges : ~Claimable(c)
    /\ Move(w, "idle")
    /\ UNCHANGED <<rowVars, task, aim, locks, ghosts, circuit>>

\* sender.send returns: accepted, a permanent refusal, or a failure that may hide an
\* acceptance.  No lock is held, the lease may lapse meanwhile.  A failure of the provider, not
\* of the one mail, opens the circuit (finish_provider_attempt) unless the permit is out of
\* date or the worker dies before it reports.
Send(w) ==
    /\ pc[w] = "sending"
    /\ \/ /\ Move(w, "accepted")
          /\ mailed' = [mailed EXCEPT ![task[w]] = TRUE]
          /\ UNCHANGED circuit
       \/ /\ Move(w, "rejected")
          /\ UNCHANGED <<mailed, circuit>>
       \/ /\ Move(w, "failed")
          /\ mailed' \in {mailed, [mailed EXCEPT ![task[w]] = TRUE]}
          /\ circuit' \in {circuit, "open"}
    /\ UNCHANGED <<rowVars, task, aim, locks, crashes, sends, seen>>

\* Mutant: no stale check.
ClaimIsTrusted(w) == TRUE

\* What the stale checks of _finish_delivery and _record_failure ask.
ClaimHolds(w) == ob[task[w]] = "leased" /\ owner[task[w]] = w

FinishLocksScope(w) ==
    /\ pc[w] = "accepted"
    /\ scopeLock = Nobody
    /\ scopeLock' = w
    /\ Move(w, "scoped")
    /\ UNCHANGED <<rowVars, task, aim, obLock, chLock, ghosts, circuit>>

FinishLocksOutbox(w) ==
    /\ pc[w] = "scoped"
    /\ obLock[task[w]] = Nobody
    /\ \/ /\ ClaimHolds(w)
          /\ LockOutbox(w, task[w])
          /\ Move(w, "activating")
          /\ UNCHANGED <<task, scopeLock, chLock>>
       \/ /\ ~ClaimHolds(w)
          /\ Done(w, "idle")
    /\ UNCHANGED <<rowVars, aim, ghosts, circuit>>

\* Mutant: the filter on the purpose is missing.
RivalsOfAny(c) == {d \in Challenges \ {c} : ch[d] = "active"}

Rivals(c) == {d \in Challenges \ {c} : ch[d] = "active" /\ purpose[d] = purpose[c]}

FinishLocksChallenges(w) ==
    /\ pc[w] = "activating"
    /\ LockRows(w, {task[w]} \cup Rivals(task[w]))
    /\ Move(w, "committing")
    /\ UNCHANGED <<rowVars, task, aim, scopeLock, obLock, ghosts, circuit>>

\* The rivals that the UPDATE found, and the worker's own challenge, whatever its state.
FinishCommits(w) ==
    /\ pc[w] = "committing"
    /\ ch' = [d \in Challenges |->
                 CASE d = task[w] -> "active"
                   [] d # task[w] /\ chLock[d] = w -> "superseded"
                   [] OTHER -> ch[d]]
    /\ stale' = [stale EXCEPT ![task[w]] = FALSE]
    /\ CloseOutboxes({task[w]}, "delivered")
    /\ Done(w, "idle")
    /\ UNCHANGED <<purpose, tries, registered, aim, ghosts, circuit>>

\* _record_failure up to its first lock: a stale claim changes nothing, a transient
\* failure with attempts left goes back to the queue, any other is to become terminal.
RecordFailure(w) ==
    /\ pc[w] \in {"failed", "rejected"}
    /\ obLock[task[w]] = Nobody
    /\ \/ /\ ~ClaimHolds(w)
          /\ Done(w, "idle")
          /\ UNCHANGED outVars
       \/ /\ ClaimHolds(w)
          /\ pc[w] = "failed"
          /\ attempts[task[w]] < MaxAttempts
          /\ ob' = [ob EXCEPT ![task[w]] = "pending"]
          /\ owner' = [owner EXCEPT ![task[w]] = Nobody]
          /\ lapsed' = [lapsed EXCEPT ![task[w]] = FALSE]
          /\ Done(w, "idle")
          /\ UNCHANGED <<attempts, payload>>
       \/ /\ ClaimHolds(w)
          /\ pc[w] = "rejected" \/ attempts[task[w]] >= MaxAttempts
          /\ LockOutbox(w, task[w])
          /\ Move(w, "condemning")
          /\ UNCHANGED <<outVars, task, scopeLock, chLock>>
    /\ UNCHANGED <<codeVars, registered, aim, ghosts, circuit>>

\* Mutant: the challenge is left as it is.
CondemnOutboxOnly(w) ==
    /\ pc[w] = "condemning"
    /\ chLock[task[w]] = Nobody
    /\ CloseOutboxes({task[w]}, "delivery_failed")
    /\ Done(w, "idle")
    /\ UNCHANGED <<codeVars, registered, aim, ghosts, circuit>>

\* _terminalize_delivery_failure, with the outbox held, once the challenge row is free.
Condemn(w) ==
    /\ pc[w] = "condemning"
    /\ chLock[task[w]] = Nobody
    /\ ch' = [ch EXCEPT ![task[w]] = IF @ = "pending_delivery" THEN "delivery_failed" ELSE @]
    /\ CloseOutboxes({task[w]}, "delivery_failed")
    /\ Done(w, "idle")
    /\ UNCHANGED <<purpose, tries, stale, registered, aim, ghosts, circuit>>

\* The process dies, by a database error too: nothing in the worker loop catches one.
Crash(w) ==
    /\ pc[w] # "down"
    /\ crashes < MaxCrashes
    /\ crashes' = crashes + 1
    /\ Done(w, "down")
    /\ UNCHANGED <<rowVars, aim, mailed, sends, seen, circuit>>

Restart(w) ==
    /\ pc[w] = "down"
    /\ Move(w, "idle")
    /\ UNCHANGED <<rowVars, task, aim, locks, ghosts, circuit>>

-----------------------------------------------------------------------------
(* register and _reset_password_with_verification, for client k.              *)

\* The transaction is over and so is the call.
Answer(k) ==
    /\ Done(k, "idle")
    /\ aim' = [aim EXCEPT ![k] = "password_reset"]
    /\ seen' = [seen EXCEPT ![k] = {}]

\* A reader of the mail types its code; NoChallenge is any other six digits.  Whether the
\* circuit is closed is asked here and not again.
ConfirmBegins(k, p, x) ==
    /\ pc[k] = "idle"
    /\ circuit = "closed"
    /\ x \in Challenges => mailed[x]
    /\ p = "password_reset" => registered
    /\ Move(k, "confirming")
    /\ task' = [task EXCEPT ![k] = x]
    /\ aim' = [aim EXCEPT ![k] = p]
    /\ UNCHANGED <<rowVars, locks, ghosts, circuit>>

\* Mutant: a confirmation does not take the address's advisory lock.
ConfirmUnscoped(k) ==
    /\ pc[k] = "confirming"
    /\ Move(k, "scoped")
    /\ seen' = [seen EXCEPT ![k] = {c \in Challenges : ch[c] # "none"}]
    /\ UNCHANGED <<rowVars, task, aim, locks, crashes, mailed, sends, circuit>>

ConfirmLocksScope(k) ==
    /\ pc[k] = "confirming"
    /\ scopeLock = Nobody
    /\ scopeLock' = k
    /\ Move(k, "scoped")
    /\ seen' = [seen EXCEPT ![k] = {c \in Challenges : ch[c] # "none"}]
    /\ UNCHANGED <<rowVars, task, aim, obLock, chLock, crashes, mailed, sends, circuit>>

Candidates(k) == {c \in Challenges : ch[c] = "active" /\ purpose[c] = aim[k]}

\* The active challenge, locked: what both operations decide on.
Finds(k, c) == pc[k] = "scoped" /\ c \in Candidates(k) /\ chLock[c] = Nobody

\* Nothing is written: there is no active challenge, the user or its accounts are not
\* eligible (a reset asks that before it looks at the code), or the code is right and the
\* password too weak, the name or the address taken.
ConfirmRefused(k) ==
    /\ pc[k] = "scoped"
    /\ aim[k] = "password_reset" \/ \A c \in Candidates(k) : task[k] = c /\ ~stale[c]
    /\ Answer(k)
    /\ UNCHANGED <<rowVars, crashes, mailed, sends, circuit>>

ConfirmExpired(k, c) ==
    /\ Finds(k, c)
    /\ stale[c]
    /\ ch' = [ch EXCEPT ![c] = "expired"]
    /\ Answer(k)
    /\ UNCHANGED <<purpose, tries, stale, outVars, registered, crashes, mailed, sends, circuit>>

LocksAt(n) == n >= MaxTries

ConfirmWrong(k, c) ==
    /\ Finds(k, c)
    /\ ~stale[c]
    /\ task[k] # c
    /\ tries' = [tries EXCEPT ![c] = @ + 1]
    /\ ch' = [ch EXCEPT ![c] = IF LocksAt(tries[c] + 1) THEN "locked" ELSE @]
    /\ Answer(k)
    /\ UNCHANGED <<purpose, stale, outVars, registered, crashes, mailed, sends, circuit>>

\* User, GameAccount and contact are created and the code is consumed.
RegisterCommits(k, c) ==
    /\ Finds(k, c)
    /\ aim[k] = "registration"
    /\ ~stale[c]
    /\ task[k] = c
    /\ ~registered
    /\ registered' = TRUE
    /\ ch' = [ch EXCEPT ![c] = "consumed"]
    /\ Answer(k)
    /\ UNCHANGED <<purpose, tries, stale, outVars, crashes, mailed, sends, circuit>>

\* Mutant: the reset looks for active challenges only.
UnfinishedActive(c) == {d \in Challenges \ {c} : purpose[d] = "password_reset" /\ ch[d] = "active"}

UnfinishedOthers(c) == {d \in Challenges \ {c} : purpose[d] = "password_reset" /\ ch[d] \in Unfinished}

\* The challenge the code belongs to, then (AuthSession's rows in between) the other
\* unfinished ones of the user.
ResetLocksChallenges(k, c) ==
    /\ Finds(k, c)
    /\ aim[k] = "password_reset"
    /\ ~stale[c]
    /\ task[k] = c
    /\ LockRows(k, {c} \cup UnfinishedOthers(c))
    /\ Move(k, "resetting")
    /\ UNCHANGED <<rowVars, task, aim, scopeLock, obLock, ghosts, circuit>>

\* The locked challenges whose delivery the reset cancels.
Cancelled(k) == {d \in Challenges : chLock[d] = k /\ d # task[k] /\ ob[d] \in Delivering}

ResetCommits(k) ==
    /\ pc[k] = "resetting"
    /\ \A d \in Cancelled(k) : obLock[d] = Nobody
    /\ ch' = [d \in Challenges |->
                 CASE d = task[k] -> "consumed"
                   [] d # task[k] /\ chLock[d] = k -> "superseded"
                   [] OTHER -> ch[d]]
    /\ CloseOutboxes(Cancelled(k), "delivery_failed")
    /\ Answer(k)
    /\ UNCHANGED <<purpose, tries, stale, registered, crashes, mailed, sends, circuit>>

\* The request fails before its commit: a database error, a lost connection.
ConfirmFails(k) ==
    /\ pc[k] # "idle"
    /\ Answer(k)
    /\ UNCHANGED <<rowVars, crashes, mailed, sends, circuit>>

-----------------------------------------------------------------------------
(* Time, the circuit, deadlock.                                              *)

LeaseLapses(c) ==
    /\ ob[c] = "leased"
    /\ ~lapsed[c]
    /\ lapsed' = [lapsed EXCEPT ![c] = TRUE]
    /\ UNCHANGED <<codeVars, ob, owner, attempts, payload, registered, pc, task, aim,
                   locks, ghosts, circuit>>

ChallengeExpires(c) ==
    /\ ch[c] = "active"
    /\ ~stale[c]
    /\ stale' = [stale EXCEPT ![c] = TRUE]
    /\ UNCHANGED <<purpose, ch, tries, outVars, registered, pc, task, aim, locks, ghosts, circuit>>

\* Another worker's attempt fails, of security notifications too.
CircuitOpens ==
    /\ circuit = "closed"
    /\ circuit' = "open"
    /\ UNCHANGED <<rowVars, pc, task, aim, locks, ghosts>>

\* Some worker's probe reaches the provider.
CircuitCloses ==
    /\ circuit = "open"
    /\ circuit' = "closed"
    /\ UNCHANGED <<rowVars, pc, task, aim, locks, ghosts>>

\* A reset holds challenges and wants an outbox, a worker holds that outbox and wants its
\* challenge.
Deadlocked(k, w) ==
    /\ pc[k] = "resetting"
    /\ pc[w] = "condemning"
    /\ task[w] \in Cancelled(k)

\* PostgreSQL aborts one of the two; an aborted worker is down.
BreakDeadlock(k, w) ==
    /\ Deadlocked(k, w)
    /\ ConfirmFails(k) \/ Crash(w)

Finish(w) ==
    FinishLocksScope(w) \/ FinishLocksOutbox(w) \/ FinishLocksChallenges(w) \/ FinishCommits(w)

WorkerStep(w) ==
    \/ Poll(w)
    \/ \E c \in Challenges : TakeExhausted(w, c) \/ Claim(w, c)
    \/ NoneExhausted(w) \/ NothingToClaim(w)
    \/ Send(w)
    \/ Finish(w)
    \/ RecordFailure(w) \/ Condemn(w)
    \/ Restart(w)

Confirm(k) ==
    \/ ConfirmLocksScope(k)
    \/ ConfirmRefused(k)
    \/ \E c \in Challenges :
          ConfirmExpired(k, c) \/ ConfirmWrong(k, c) \/ RegisterCommits(k, c) \/ ResetLocksChallenges(k, c)
    \/ ResetCommits(k)

Next ==
    \/ CircuitOpens \/ CircuitCloses
    \/ \E c \in Challenges :
          \/ \E p \in Purposes : RequestVerification(c, p)
          \/ LeaseLapses(c) \/ ChallengeExpires(c)
    \/ \E w \in Workers : WorkerStep(w) \/ Crash(w)
    \/ \E k \in Clients :
          \/ \E p \in Purposes, x \in Challenges \cup {NoChallenge} : ConfirmBegins(k, p, x)
          \/ Confirm(k) \/ ConfirmFails(k)
          \/ \E w \in Workers : BreakDeadlock(k, w)

Spec == Init /\ [][Next]_vars

-----------------------------------------------------------------------------
(* Properties.                                                               *)

\* What the constraints of migration 0004 ask, and more: at every commit the two rows of a
\* challenge and the encrypted mail agree.  The mail is kept exactly until its delivery ends
\* (docs/new_engine/13, section 10: erased once terminal), a challenge waits exactly as long as
\* its delivery is open, a code that was ever usable is one whose delivery succeeded, an address
\* has one usable code of each purpose however late, twice or out of order the workers finish,
\* and a usable code has survived fewer than MaxTries wrong guesses.
RowsAgree ==
    /\ DeliveryTypeOK
    /\ OneActive(purpose, ch)
    /\ \A c \in Challenges :
        /\ PayloadErased(ob[c], payload[c])
        /\ LeaseComplete(ob[c], owner[c] # Nobody)
        /\ ch[c] = "pending_delivery" <=> ob[c] \in Delivering
        /\ ch[c] \in {"active", "consumed", "expired", "locked"} => ob[c] = "delivered"
        /\ ch[c] = "delivery_failed" => ob[c] = "delivery_failed"
        /\ ch[c] = "active" => tries[c] < MaxTries

\* The worker of a lapsed lease, or of a delivery that a reset cancelled, comes too late: no
\* step of anybody writes what the triggers of migration 0007 refuse, so a challenge or a
\* delivery that has ended keeps its state, and none goes back; an ended challenge also keeps
\* its count of guesses.
GuardsAccept ==
    [][\A c \in Challenges :
          /\ ChallengeGuard(ch[c], ch'[c])
          /\ DeliveryGuard(ob[c], ob'[c])
          /\ ch[c] \in Final => tries'[c] = tries[c]]_vars

\* Crashes and takeovers included, a mail is handed to the provider at most MaxAttempts times.
SendsBounded == \A c \in Challenges : sends[c] <= MaxAttempts

\* A successful reset leaves none of the user's earlier reset codes usable, delivered or
\* still to be delivered: only codes requested while it ran are left.
ResetEndsOlderCodes ==
    [][\A k \in Clients :
          LET c == task[k] IN
          aim[k] = "password_reset" /\ c \in Challenges /\ ch'[c] = "consumed" /\ ch[c] # "consumed" =>
             \A d \in seen[k] : purpose[d] = "password_reset" => ch'[d] \in Final]_vars

\* Process q holds a lock that a statement of p waits for.
WaitsFor(p, q) ==
    \/ pc[p] \in {"accepted", "confirming"} /\ scopeLock = q
    \/ /\ pc[p] \in {"scoped", "failed", "rejected"} /\ p \in Workers
       /\ obLock[task[p]] = q
    \/ pc[p] = "activating" /\ \E c \in {task[p]} \cup Rivals(task[p]) : chLock[c] = q
    \/ pc[p] = "condemning" /\ chLock[task[p]] = q
    \/ /\ pc[p] = "scoped" /\ p \in Clients
       /\ \E c \in Challenges : purpose[c] = aim[p] /\ ch[c] \in Unfinished /\ chLock[c] = q
    \/ pc[p] = "resetting" /\ \E c \in Cancelled(p) : obLock[c] = q

\* The advisory lock orders all that lock several rows but the worker that gives a delivery up
\* (verification_delivery.py:309): processes that all wait for one another include a reset and
\* such a worker that holds an outbox the reset cancels.  No other deadlock, of any number of
\* processes, is there for the database to break.
OneDeadlock ==
    \A S \in SUBSET Processes :
        S # {} /\ (\A p \in S : \E q \in S : WaitsFor(p, q)) =>
            \E k \in Clients, w \in Workers : k \in S /\ w \in S /\ Deadlocked(k, w)

\* The rows implement the promise of CodeLifecycle.  The subject of a code is its purpose: the
\* address is one.  Only register and the reset make a code "used".
Phase(c) ==
    CASE ch[c] = "none" -> "new"
      [] ch[c] = "pending_delivery" -> "requested"
      [] ch[c] = "active" -> "usable"
      [] ch[c] = "consumed" -> "used"
      [] OTHER -> "ended"

Subject(c) == IF ch[c] = "none" THEN "none" ELSE purpose[c]

Promise == INSTANCE CodeLifecycle WITH
    Codes <- Challenges,
    Subjects <- Purposes,
    NoSubject <- "none",
    phase <- [c \in Challenges |-> Phase(c)],
    about <- [c \in Challenges |-> Subject(c)]

ImplementsCodes == Promise!Spec

\* Once the circuit stays closed, every requested mail is delivered or given up, whatever worker
\* crashed holding it, and with its last attempt too.  Closed for good is what ProviderCircuit
\* promises of a provider that is back for good (Recovers); as long as it is down nothing is
\* claimed and no exhausted lease given up, so without that a mail may wait for ever.
DeliveryEnds ==
    <>[](circuit = "closed") => \A c \in Challenges : ob[c] \in Delivering ~> ob[c] \in Delivered

\* Scheduling: the clock runs, workers are restarted and keep polling, the database goes on
\* with a transaction, breaks deadlocks and grants a lock to those who wait for it in turn
\* (strong fairness).  Nothing makes clients act, but one that holds a lock goes on.
Waits(w) ==
    FinishLocksScope(w) \/ FinishLocksOutbox(w) \/ FinishLocksChallenges(w) \/ RecordFailure(w) \/ Condemn(w)

FairSpec ==
    /\ Spec
    /\ \A w \in Workers : WF_vars(WorkerStep(w)) /\ SF_vars(Waits(w))
    /\ \A k \in Clients : WF_vars(Confirm(k)) /\ \A w \in Workers : WF_vars(BreakDeadlock(k, w))
    /\ \A c \in Challenges : WF_vars(LeaseLapses(c))
=============================================================================
