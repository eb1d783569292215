--------------------------- MODULE ProviderCircuit ---------------------------
(***************************************************************************)
(* AuthenticationBaselineRuntimeState(runtime_key=email): the circuit breaker *)
(* that the two kinds of mail workers share and the heartbeats the public   *)
(* verification flow asks for (identity/authentication_baseline_operations.py). *)
(*                                                                         *)
(* Every transaction locks the one row first, so each is a step.  The probe  *)
(* and the mail attempt run between two transactions, without any lock.     *)
(*                                                                         *)
(* provider_version and provider_probe_token are only compared for equality *)
(* with what a permit carries, and every change of the circuit replaces     *)
(* them: "current" keeps, for each worker, whether its permit still equals  *)
(* the row.  The setting for test mail backends is left out.                *)
(***************************************************************************)
EXTENDS Integers, FiniteSets

CONSTANTS
    Deliverers,     \* process_verification_deliveries workers
    Notifiers,      \* security notification workers
    MaxFaults       \* bound: worker crashes, and probes that outlast their lease

ASSUME CircuitFaultsAssumption == MaxFaults \in Nat
ASSUME RolesAssumption == Deliverers \cap Notifiers = {}

VARIABLES
    state,      \* provider_state, "absent" before the row exists
    due,        \* provider_retry_at (open) or provider_probe_expires_at (probing) has passed
    beat,       \* the roles whose heartbeat is fresh
    pc,
    current,    \* the worker's permit carries the row's version (and probe token)
    up,         \* the provider answers: environment
    overtaken,  \* the circuit changed since the worker got its permit: only read by properties
    faults

vars == <<state, due, beat, pc, current, up, overtaken, faults>>

Workers == Deliverers \cup Notifiers
Roles   == {"verification_delivery", "security_notification"}
Places  == {"idle", "probing", "probed", "unprobed", "sending", "failed", "down"}

Role(w) == IF w \in Deliverers THEN "verification_delivery" ELSE "security_notification"

Probing(w) == pc[w] \in {"probing", "probed", "unprobed"}

CircuitTypeOK ==
    /\ state \in {"absent", "open", "closed", "probing"}
    /\ due \in BOOLEAN
    /\ beat \subseteq Roles
    /\ pc \in [Workers -> Places]
    /\ current \in [Workers -> BOOLEAN]
    /\ up \in BOOLEAN
    /\ overtaken \in [Workers -> BOOLEAN]
    /\ faults \in 0 .. MaxFaults
    \* A live permit is for the circuit as it is, and the probe has one owner.
    /\ \A w \in Workers : current[w] /\ Probing(w) => state = "probing"
    /\ Cardinality({w \in Workers : current[w] /\ Probing(w)}) <= 1

Init ==
    /\ state = "absent"
    /\ due = FALSE
    /\ beat = {}
    /\ pc = [w \in Workers |-> "idle"]
    /\ current = [w \in Workers |-> FALSE]
    /\ up \in BOOLEAN
    /\ overtaken = [w \in Workers |-> FALSE]
    /\ faults = 0

-----------------------------------------------------------------------------
\* The public verification flow is open: require_authentication_baseline_operational.
Operational == state = "closed" /\ beat = Roles

\* provider_version + 1 (and a new token): every permit is out of date except the one w
\* gets from this very change.
Bump(w) == current' = [v \in Workers |-> v = w]

\* What the properties remember of a change.
Overtake(w) == overtaken' = [v \in Workers |-> v # w]

\* Mutant: only an open circuit is probed again.
ProbeDueWhenOpen == state = "absent" \/ (state = "open" /\ due)

\* A row just created is open with a retry that is due at once.
ProbeDue == state = "absent" \/ (state \in {"open", "probing"} /\ due)

Heartbeat(w) == beat' = beat \cup {Role(w)}

PollClosed(w) ==
    /\ pc[w] = "idle"
    /\ state = "closed"
    /\ Heartbeat(w)
    /\ pc' = [pc EXCEPT ![w] = "sending"]
    /\ current' = [current EXCEPT ![w] = TRUE]
    /\ overtaken' = [overtaken EXCEPT ![w] = FALSE]
    /\ UNCHANGED <<state, due, up, faults>>

\* The worker takes the probe, over from an owner whose lease has passed too.
PollProbes(w) ==
    /\ pc[w] = "idle"
    /\ ProbeDue
    /\ Heartbeat(w)
    /\ state' = "probing"
    /\ due' = FALSE
    /\ Bump(w)
    /\ Overtake(w)
    /\ pc' = [pc EXCEPT ![w] = "probing"]
    /\ UNCHANGED <<up, faults>>

PollWaits(w) ==
    /\ pc[w] = "idle"
    /\ state # "closed"
    /\ ~ProbeDue
    /\ Heartbeat(w)
    /\ UNCHANGED <<state, due, pc, current, up, overtaken, faults>>

\* probe_email_provider: connects and authenticates, sends nothing.
Probe(w) ==
    /\ pc[w] = "probing"
    /\ pc' = [pc EXCEPT ![w] = IF up THEN "probed" ELSE "unprobed"]
    /\ UNCHANGED <<state, due, beat, current, up, overtaken, faults>>

ProbeHolds(w) == state = "probing" /\ current[w] /\ ~due

\* _finish_provider_probe; the worker of a success goes on with a new permit.
FinishProbe(w) ==
    /\ pc[w] \in {"probed", "unprobed"}
    /\ \/ /\ ProbeHolds(w)
          /\ state' = IF pc[w] = "probed" THEN "closed" ELSE "open"
          /\ due' = FALSE
          /\ pc' = [pc EXCEPT ![w] = IF @ = "probed" THEN "sending" ELSE "idle"]
          /\ Bump(w)
          /\ Overtake(w)
       \/ /\ ~ProbeHolds(w)
          /\ pc' = [pc EXCEPT ![w] = "idle"]
          /\ UNCHANGED <<state, due, current, overtaken>>
    /\ UNCHANGED <<beat, up, faults>>

\* The work done under a permit: nothing to send, an answer about the one message, or a
\* failure of the provider (connection, HELO, authentication, sender).
Attempt(w) ==
    /\ pc[w] = "sending"
    /\ \/ pc' = [pc EXCEPT ![w] = "idle"]
       \/ ~up /\ pc' = [pc EXCEPT ![w] = "failed"]
    /\ UNCHANGED <<state, due, beat, current, up, overtaken, faults>>

\* Mutant: a failed attempt opens whatever circuit is closed.
AttemptAny(w) == state = "closed"

AttemptHolds(w) == state = "closed" /\ current[w]

\* finish_provider_attempt with TRANSIENT_FAILURE; the other outcomes write nothing.
FinishAttempt(w) ==
    /\ pc[w] = "failed"
    /\ pc' = [pc EXCEPT ![w] = "idle"]
    /\ IF AttemptHolds(w)
       THEN state' = "open" /\ due' = FALSE /\ Bump(w) /\ Overtake(w)
       ELSE UNCHANGED <<state, due, current, overtaken>>
    /\ UNCHANGED <<beat, up, faults>>

Crash(w) ==
    /\ pc[w] # "down"
    /\ faults < MaxFaults
    /\ faults' = faults + 1
    /\ pc' = [pc EXCEPT ![w] = "down"]
    /\ UNCHANGED <<state, due, beat, current, up, overtaken>>

Restart(w) ==
    /\ pc[w] = "down"
    /\ pc' = [pc EXCEPT ![w] = "idle"]
    /\ UNCHANGED <<state, due, beat, current, up, overtaken, faults>>

ProbeOwned == \E w \in Workers : current[w] /\ Probing(w)

\* AUTH_VERIFICATION_PROVIDER_RETRY_SECONDS or ..._PROBE_LEASE_SECONDS pass.
DeadlinePasses ==
    /\ state = "open" \/ (state = "probing" /\ ~ProbeOwned)
    /\ ~due
    /\ due' = TRUE
    /\ UNCHANGED <<state, beat, pc, current, up, overtaken, faults>>

\* A probe that outlasts its lease: its result will be late.
LeaseRunsOut ==
    /\ state = "probing"
    /\ ProbeOwned
    /\ ~due
    /\ faults < MaxFaults
    /\ faults' = faults + 1
    /\ due' = TRUE
    /\ UNCHANGED <<state, beat, pc, current, up, overtaken>>

\* AUTH_VERIFICATION_HEARTBEAT_MAX_AGE_SECONDS pass without a poll of that role.
HeartbeatLapses(r) ==
    /\ r \in beat
    /\ beat' = beat \ {r}
    /\ UNCHANGED <<state, due, pc, current, up, overtaken, faults>>

ProviderChanges ==
    /\ up' = ~up
    /\ UNCHANGED <<state, due, beat, pc, current, overtaken, faults>>

Work(w) ==
    \/ PollClosed(w) \/ PollProbes(w) \/ PollWaits(w)
    \/ Probe(w) \/ FinishProbe(w)
    \/ Attempt(w) \/ FinishAttempt(w)
    \/ Restart(w)

Next ==
    \/ \E w \in Workers : Work(w) \/ Crash(w)
    \/ DeadlinePasses \/ LeaseRunsOut
    \/ \E r \in Roles : HeartbeatLapses(r)
    \/ ProviderChanges

Spec == Init /\ [][Next]_vars

-----------------------------------------------------------------------------
(* Properties.                                                               *)

\* The circuit is fenced against time (docs/new_engine/13, section 10).  A result that comes
\* late changes nothing: once the circuit was opened, closed or taken over for another probe,
\* the worker of an earlier permit neither closes it by its old probe nor opens it by its old
\* failure.  And it closes only on a provider that answered a probe begun after it last
\* opened: it stays shut while the provider is down, whatever crashed meanwhile.
Fenced ==
    [][/\ \A w \in Workers :
             pc[w] \in {"probed", "unprobed", "failed"} /\ overtaken[w] /\ pc'[w] # pc[w] =>
                state' = state /\ due' = due
       /\ state # "closed" /\ state' = "closed" =>
             \E w \in Workers : pc[w] = "probed" /\ ~overtaken[w] /\ pc'[w] = "sending"]_vars

\* A provider that is back for good closes the circuit for good: no crashed probe owner, no
\* lost permit and no late failure leaves the public flow shut.
Recovers == <>[]up => <>[](state = "closed")

\* Scheduling: the clock runs; every worker is restarted, polls again and returns from its
\* network calls, and only finitely many probes outlast their lease.
FairSpec ==
    /\ Spec
    /\ WF_vars(DeadlinePasses)
    /\ \A w \in Workers : WF_vars(Work(w))
=============================================================================
