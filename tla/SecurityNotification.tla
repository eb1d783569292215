------------------------- MODULE SecurityNotification -------------------------
(***************************************************************************)
(* SecurityNotificationOutbox and its workers                               *)
(* (identity/security_notifications.py), on top of the circuit whose permits *)
(* they send under: deliver_one_security_notification is the work a         *)
(* notification worker does between prepare_worker_poll and the report of    *)
(* its attempt.                                                             *)
(*                                                                         *)
(* A transaction is a step; the mail is sent between two of them, holding    *)
(* nothing but the lease.  The notices of one user share one contact row.   *)
(* Template and ciphertext are written by the program itself, so a template  *)
(* that does not exist and a key that is gone do not occur.                 *)
(***************************************************************************)
EXTENDS ProviderCircuit, SchemaGuards

CONSTANTS
    Notices,        \* the notifications, one for each password reset
    MaxAttempts     \* AUTH_VERIFICATION_MAX_DELIVERY_ATTEMPTS

ASSUME AttemptsAssumption == MaxAttempts \in Nat \ {0}
ASSUME NotifiersAssumption == IsFiniteSet(Notifiers) /\ "no worker" \notin Notifiers

VARIABLES
    notice,         \* the outbox rows; "asked" is a reset that has not committed
    contact,        \* the contact method is ACTIVE
    job,            \* where a worker stands in deliver_one_security_notification
    mails,          \* mails the provider took: only read by properties
    audits          \* auth.security_notification.delivery_failed events: likewise

noticeVars == <<notice, contact, job, mails, audits>>
allVars    == <<vars, noticeVars>>

NoWorker == "no worker"
NoJob    == [step |-> "none"]
NoRow    == [state |-> "absent", owner |-> NoWorker, due |-> FALSE, attempts |-> 0]

RowStates == {"absent", "asked", "pending", "leased", "delivered", "delivery_failed"}
Results   == {"accepted", "permanent", "deferred", "transient"}

Jobs == [step : {"none", "looked"}] \cup [step : {"claimed"} \cup Results, notice : Notices]

\* due: next_attempt_at (pending) or lease_expires_at (leased) has passed.
Rows == [state : RowStates, owner : Notifiers \cup {NoWorker}, due : BOOLEAN,
         attempts : 0 .. MaxAttempts]

Ended(row) == row.state \in {"delivered", "delivery_failed"}

WorksOn(w, n) == "notice" \in DOMAIN job[w] /\ job[w].notice = n

NoticeInit ==
    /\ Init
    /\ notice = [n \in Notices |-> NoRow]
    /\ contact = TRUE
    /\ job = [w \in Notifiers |-> NoJob]
    /\ mails = [n \in Notices |-> 0]
    /\ audits = [n \in Notices |-> 0]

-----------------------------------------------------------------------------
(* The rows of the outbox and what transactions do to them.                  *)

Failed(row) == [row EXCEPT !.state = "delivery_failed", !.owner = NoWorker, !.due = FALSE]

\* Mutant: one attempt too many is needed.
ExhaustedLate(row) == row.state = "leased" /\ row.due /\ row.attempts > MaxAttempts

Exhausted(row) == row.state = "leased" /\ row.due /\ row.attempts >= MaxAttempts

Claimable(row) == row.state \in {"pending", "leased"} /\ row.due /\ row.attempts < MaxAttempts

\* Mutant: a lease that is taken over is the same attempt.
ClaimedAgain(row, w) ==
    [row EXCEPT !.state = "leased", !.owner = w, !.due = FALSE,
                !.attempts = IF row.state = "leased" THEN @ ELSE @ + 1]

Claimed(row, w) ==
    [row EXCEPT !.state = "leased", !.owner = w, !.due = FALSE, !.attempts = @ + 1]

\* Mutant: a report asks only whether somebody has the lease.
HoldsAny(w, row) == row.state = "leased"

\* The claim is not stale: the row is leased, and to this worker.
Holds(w, row) == row.state = "leased" /\ row.owner = w

\* A failure is final.
Spent(row, result) == result = "permanent" \/ row.attempts >= MaxAttempts

Reported(row, result) ==
    IF result = "accepted"
    THEN [row EXCEPT !.state = "delivered", !.owner = NoWorker, !.due = FALSE]
    ELSE IF Spent(row, result)
         THEN Failed(row)
         ELSE [row EXCEPT !.state = "pending", !.owner = NoWorker, !.due = FALSE]

\* A row that fails for good is audited in the same transaction.
Write(n, row) ==
    /\ notice' = [notice EXCEPT ![n] = row]
    /\ audits' = [audits EXCEPT ![n] = IF row.state = "delivery_failed" THEN @ + 1 ELSE @]

-----------------------------------------------------------------------------
(* deliver_one_security_notification, step by step.                          *)

Doing(w, step) == w \in Notifiers /\ job[w].step = step

\* A worker polls again only when its last call of process_one has returned.
Free(w) == w \in Notifiers => job[w] = NoJob

Poll(w) ==
    /\ Free(w)
    /\ PollClosed(w) \/ PollProbes(w) \/ PollWaits(w)
    /\ UNCHANGED noticeVars

\* The permit is spent without an attempt.
Return(w) == pc' = [pc EXCEPT ![w] = "idle"]

KeepCircuit == UNCHANGED <<state, due, beat, current, up, overtaken, faults>>

\* _terminalize_one_exhausted_lease.
LookExhausted(w) ==
    /\ Doing(w, "none")
    /\ pc[w] = "sending"
    /\ \/ \E n \in Notices :
             /\ Exhausted(notice[n])
             /\ Write(n, Failed(notice[n]))
             /\ Return(w)
             /\ UNCHANGED job
       \/ /\ \A n \in Notices : ~Exhausted(notice[n])
          /\ job' = [job EXCEPT ![w] = [step |-> "looked"]]
          /\ UNCHANGED <<pc, notice, audits>>
    /\ KeepCircuit
    /\ UNCHANGED <<contact, mails>>

\* _claim_security_notification; a contact that is not active ends the row at once.
Claim(w) ==
    /\ Doing(w, "looked")
    /\ \/ \E n \in Notices :
             /\ Claimable(notice[n])
             /\ IF contact
                THEN /\ Write(n, Claimed(notice[n], w))
                     /\ job' = [job EXCEPT ![w] = [step |-> "claimed", notice |-> n]]
                     /\ UNCHANGED pc
                ELSE /\ Write(n, Failed(Claimed(notice[n], w)))
                     /\ job' = [job EXCEPT ![w] = NoJob]
                     /\ Return(w)
       \/ /\ \A n \in Notices : ~Claimable(notice[n])
          /\ job' = [job EXCEPT ![w] = NoJob]
          /\ Return(w)
          /\ UNCHANGED <<notice, audits>>
    /\ KeepCircuit
    /\ UNCHANGED <<contact, mails>>

\* DjangoSecurityNotificationSender.send: the provider takes the mail, refuses it for good or
\* for now, or fails, and then it may have taken the mail before its answer was lost.
Send(w) ==
    /\ Doing(w, "claimed")
    /\ LET n == job[w].notice IN
       \E result \in Results, taken \in BOOLEAN :
          /\ result = "transient" <=> ~up
          /\ result = "accepted" => taken
          /\ result \in {"permanent", "deferred"} => ~taken
          /\ job' = [job EXCEPT ![w] = [step |-> result, notice |-> n]]
          /\ mails' = [mails EXCEPT ![n] = IF taken THEN @ + 1 ELSE @]
          /\ pc' = [pc EXCEPT ![w] = IF result = "transient" THEN "failed" ELSE "idle"]
    /\ KeepCircuit
    /\ UNCHANGED <<notice, contact, audits>>

\* finish_provider_attempt.
ReportToCircuit(w) ==
    /\ FinishAttempt(w)
    /\ UNCHANGED noticeVars

\* _finish_security_notification or _record_security_notification_failure.
ReportToOutbox(w) ==
    /\ \E result \in Results : Doing(w, result)
    /\ pc[w] = "idle"
    /\ LET n == job[w].notice IN
       IF Holds(w, notice[n])
       THEN Write(n, Reported(notice[n], job[w].step))
       ELSE UNCHANGED <<notice, audits>>
    /\ job' = [job EXCEPT ![w] = NoJob]
    /\ UNCHANGED <<vars, contact, mails>>

\* What a delivery worker does under its permit is VerificationDelivery's.
OtherAttempt(w) ==
    /\ w \in Deliverers
    /\ Attempt(w)
    /\ UNCHANGED noticeVars

ProbeOrFinish(w) ==
    /\ Probe(w) \/ FinishProbe(w) \/ Restart(w)
    /\ UNCHANGED noticeVars

WorkerCrashes(w) ==
    /\ Crash(w)
    /\ job' = [v \in Notifiers |-> IF v = w THEN NoJob ELSE job[v]]
    /\ UNCHANGED <<notice, contact, mails, audits>>

-----------------------------------------------------------------------------
(* Time and the rest of the system.                                          *)

\* A password reset asks whether the flow is open before its transaction, and not again.
BeginReset(n) ==
    /\ notice[n] = NoRow
    /\ Operational
    /\ notice' = [notice EXCEPT ![n].state = "asked"]
    /\ UNCHANGED <<vars, contact, job, mails, audits>>

\* The reset commits, with the contact locked; the notice is due at once.
Issue(n) ==
    /\ notice[n].state = "asked"
    /\ contact
    /\ notice' = [notice EXCEPT ![n].state = "pending", ![n].due = TRUE]
    /\ UNCHANGED <<vars, contact, job, mails, audits>>

\* Administration: no code of the program retires a contact.
ContactRetires ==
    /\ contact
    /\ contact' = FALSE
    /\ UNCHANGED <<vars, notice, job, mails, audits>>

LeaseInUse(n) == notice[n].state = "leased" /\ WorksOn(notice[n].owner, n)

\* The backoff of a retry, or the lease of a worker that is gone, runs out.
NoticeDeadline(n) ==
    /\ notice[n].state \in {"pending", "leased"}
    /\ ~notice[n].due
    /\ ~LeaseInUse(n)
    /\ notice' = [notice EXCEPT ![n].due = TRUE]
    /\ UNCHANGED <<vars, contact, job, mails, audits>>

\* A worker outlasts its own lease.
NoticeLeaseRunsOut(n) ==
    /\ LeaseInUse(n)
    /\ ~notice[n].due
    /\ faults < MaxFaults
    /\ faults' = faults + 1
    /\ notice' = [notice EXCEPT ![n].due = TRUE]
    /\ UNCHANGED <<state, due, beat, pc, current, up, overtaken, contact, job, mails, audits>>

CircuitTime ==
    /\ DeadlinePasses \/ LeaseRunsOut \/ ProviderChanges \/ \E r \in Roles : HeartbeatLapses(r)
    /\ UNCHANGED noticeVars

NoticeWork(w) ==
    \/ Poll(w) \/ ProbeOrFinish(w) \/ OtherAttempt(w)
    \/ LookExhausted(w) \/ Claim(w) \/ Send(w)
    \/ ReportToCircuit(w) \/ ReportToOutbox(w)

NoticeNext ==
    \/ \E w \in Workers : NoticeWork(w) \/ WorkerCrashes(w)
    \/ CircuitTime
    \/ \E n \in Notices : BeginReset(n) \/ Issue(n) \/ NoticeDeadline(n) \/ NoticeLeaseRunsOut(n)
    \/ ContactRetires

NoticeSpec == NoticeInit /\ [][NoticeNext]_allVars

-----------------------------------------------------------------------------
(* Properties.                                                               *)

NoticeTypeOK ==
    /\ CircuitTypeOK
    /\ notice \in [Notices -> Rows]
    /\ contact \in BOOLEAN
    /\ job \in [Notifiers -> Jobs]
    /\ mails \in [Notices -> Nat]
    /\ audits \in [Notices -> Nat]

\* What the tables say of a notice agrees however its workers overlap: a lease has an owner, a
\* notice that failed was audited once and no other was, one that counts as delivered was sent,
\* and no worker, dead or late, sends a mail that the attempts of the row do not pay for.
NoticesAgree ==
    /\ NoticeTypeOK
    /\ \A n \in Notices :
          /\ notice[n].state = "leased" <=> notice[n].owner # NoWorker
          /\ audits[n] = IF notice[n].state = "delivery_failed" THEN 1 ELSE 0
          /\ notice[n].state = "delivered" => mails[n] > 0
          /\ mails[n] + Cardinality({w \in Notifiers : Doing(w, "claimed") /\ WorksOn(w, n)})
                <= notice[n].attempts

\* Between its claim and the end of its lease a notice belongs to the worker that claimed it:
\* whatever earlier owners still report, only that worker moves the row, or its lease runs out.
\* And no report, however late, writes what the database refuses: a claim that meets a retired
\* contact saves the row twice.
ReportsRespectRows ==
    [][\A n \in Notices :
          LET old == notice[n]
              new == notice'[n]
          IN  /\ LeaseInUse(n) /\ ~old.due /\ new # old =>
                    \/ new = [old EXCEPT !.due = TRUE]
                    \/ Doing(old.owner, "accepted") /\ new.state = "delivered"
                    \/ \E result \in Results \ {"accepted"} :
                          /\ Doing(old.owner, result)
                          /\ new.state \in {"pending", "delivery_failed"}
              /\ \/ NoticeGuard(old, new)
                 \/ /\ ~contact
                    /\ \E w \in Notifiers :
                          /\ NoticeGuard(old, Claimed(old, w))
                          /\ NoticeGuard(Claimed(old, w), new)]_allVars

\* Once the provider is back for good, every notice is delivered or given up with an audit:
\* neither crashes with the last attempt in hand nor a retired contact leave one behind.
NoticesEnd ==
    <>[]up => \A n \in Notices : notice[n].state = "pending" ~> Ended(notice[n])

\* Scheduling, as in ProviderCircuit: every worker goes on polling (run_worker_loop under
\* --watch and a supervisor), and time passes.
NoticeFairSpec ==
    /\ NoticeSpec
    /\ WF_allVars(CircuitTime /\ DeadlinePasses)
    /\ \A w \in Workers : WF_allVars(NoticeWork(w))
    /\ \A n \in Notices : WF_allVars(NoticeDeadline(n))
=============================================================================
