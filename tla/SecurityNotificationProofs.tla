---------------------- MODULE SecurityNotificationProofs ----------------------
(***************************************************************************)
(* Theorems about ProviderCircuit and SecurityNotification, for any workers, *)
(* notices, attempts and faults: late results of the circuit change nothing,  *)
(* and the tables agree on every notice.                                    *)
(***************************************************************************)
EXTENDS SecurityNotification, FiniteSetTheorems, TLAPS

-----------------------------------------------------------------------------
(* The circuit.                                                              *)

\* A permit that the circuit has overtaken no longer equals the row.
PermitsApart ==
    /\ pc \in [Workers -> Places]
    /\ current \in [Workers -> BOOLEAN]
    /\ overtaken \in [Workers -> BOOLEAN]
    /\ \A w \in Workers : overtaken[w] => ~current[w]

\* What a step may do to the circuit, as Fenced says it.
FencedStep ==
    /\ \A w \in Workers :
          pc[w] \in {"probed", "unprobed", "failed"} /\ overtaken[w] /\ pc'[w] # pc[w] =>
             state' = state /\ due' = due
    /\ state # "closed" /\ state' = "closed" =>
          \E w \in Workers : pc[w] = "probed" /\ ~overtaken[w] /\ pc'[w] = "sending"

\* A step of one worker or of none that leaves the circuit as it is.
LEMMA CircuitKept ==
    ASSUME PermitsApart, pc' \in [Workers -> Places],
           UNCHANGED <<state, due, current, overtaken>>
    PROVE  PermitsApart' /\ FencedStep
    BY DEF PermitsApart, FencedStep

LEMMA PollStep ==
    ASSUME PermitsApart, NEW w \in Workers, PollClosed(w) \/ PollProbes(w) \/ PollWaits(w)
    PROVE  PermitsApart' /\ FencedStep
<1>1. CASE PollClosed(w)
    BY <1>1 DEF PollClosed, PermitsApart, FencedStep, Places
<1>2. CASE PollProbes(w)
  <2>1. /\ pc[w] = "idle" /\ pc' = [pc EXCEPT ![w] = "probing"] /\ state' = "probing"
        /\ current' = [v \in Workers |-> v = w] /\ overtaken' = [v \in Workers |-> v # w]
      BY <1>2 DEF PollProbes, Bump, Overtake
  <2>2. \A v \in Workers : pc'[v] # pc[v] => v = w
      BY <2>1 DEF PermitsApart
  <2>3. PermitsApart'
      BY <2>1 DEF PermitsApart, Places
  <2> QED
      BY <2>1, <2>2, <2>3 DEF FencedStep
<1>3. CASE PollWaits(w)
    BY <1>3, CircuitKept DEF PollWaits, PermitsApart
<1> QED
    BY <1>1, <1>2, <1>3

LEMMA FinishProbeStep ==
    ASSUME PermitsApart, NEW w \in Workers, FinishProbe(w)
    PROVE  PermitsApart' /\ FencedStep
<1>1. CASE ProbeHolds(w)
  <2>1. /\ pc[w] \in {"probed", "unprobed"} /\ current[w]
        /\ state' = IF pc[w] = "probed" THEN "closed" ELSE "open"
        /\ pc' = [pc EXCEPT ![w] = IF pc[w] = "probed" THEN "sending" ELSE "idle"]
        /\ current' = [v \in Workers |-> v = w] /\ overtaken' = [v \in Workers |-> v # w]
      BY <1>1 DEF FinishProbe, ProbeHolds, Bump, Overtake, PermitsApart
  <2>2. ~overtaken[w] /\ \A v \in Workers : pc'[v] # pc[v] => v = w
      BY <2>1 DEF PermitsApart
  <2>3. PermitsApart'
      BY <2>1 DEF PermitsApart, Places
  <2>4. pc[w] = "probed" => pc'[w] = "sending"
      BY <2>1 DEF PermitsApart
  <2> QED
      BY <2>1, <2>2, <2>3, <2>4 DEF FencedStep
<1>2. CASE ~ProbeHolds(w)
    BY <1>2, CircuitKept DEF FinishProbe, PermitsApart, Places
<1> QED
    BY <1>1, <1>2

LEMMA FinishAttemptStep ==
    ASSUME PermitsApart, NEW w \in Workers, FinishAttempt(w)
    PROVE  PermitsApart' /\ FencedStep
<1>1. CASE AttemptHolds(w)
  <2>1. /\ pc[w] = "failed" /\ current[w] /\ state' = "open"
        /\ pc' = [pc EXCEPT ![w] = "idle"]
        /\ current' = [v \in Workers |-> v = w] /\ overtaken' = [v \in Workers |-> v # w]
      BY <1>1 DEF FinishAttempt, AttemptHolds, Bump, Overtake
  <2>2. ~overtaken[w] /\ \A v \in Workers : pc'[v] # pc[v] => v = w
      BY <2>1 DEF PermitsApart
  <2>3. PermitsApart'
      BY <2>1 DEF PermitsApart, Places
  <2> QED
      BY <2>1, <2>2, <2>3 DEF FencedStep
<1>2. CASE ~AttemptHolds(w)
    BY <1>2, CircuitKept DEF FinishAttempt, PermitsApart, Places
<1> QED
    BY <1>1, <1>2

LEMMA TimeStep ==
    ASSUME PermitsApart,
           DeadlinePasses \/ LeaseRunsOut \/ ProviderChanges \/ \E r \in Roles : HeartbeatLapses(r)
    PROVE  PermitsApart' /\ FencedStep
<1>1. UNCHANGED <<state, pc, current, overtaken>>
    BY DEF DeadlinePasses, LeaseRunsOut, ProviderChanges, HeartbeatLapses
<1> QED
    BY <1>1 DEF PermitsApart, FencedStep

\* The steps of a notification worker that keep the circuit.
LEMMA JobKept ==
    ASSUME PermitsApart, NEW w \in Workers,
           LookExhausted(w) \/ Claim(w) \/ Send(w) \/ ReportToOutbox(w)
    PROVE  PermitsApart' /\ FencedStep
<1>1. UNCHANGED <<state, due, current, overtaken>>
    BY DEF LookExhausted, Claim, Send, ReportToOutbox, KeepCircuit, vars
<1>2. \/ pc' = pc
      \/ \E place \in {"idle", "failed"} : pc' = [pc EXCEPT ![w] = place]
    BY DEF LookExhausted, Claim, Send, ReportToOutbox, Return, vars
<1>3. pc' \in [Workers -> Places]
    BY <1>2 DEF PermitsApart, Places
<1> QED
    BY <1>1, <1>3, CircuitKept

LEMMA NextFenced == PermitsApart /\ [NoticeNext]_allVars => PermitsApart' /\ FencedStep
<1> SUFFICES ASSUME PermitsApart, [NoticeNext]_allVars
             PROVE  PermitsApart' /\ FencedStep
    OBVIOUS
<1>1. ASSUME NEW w \in Workers, NoticeWork(w)
      PROVE  PermitsApart' /\ FencedStep
  <2>1. CASE Poll(w)
      BY <2>1, PollStep DEF Poll
  <2>2. CASE ProbeOrFinish(w)
    <3>1. CASE Probe(w) \/ Restart(w)
        BY <3>1, CircuitKept DEF Probe, Restart, PermitsApart, Places
    <3> QED
        BY <2>2, <3>1, FinishProbeStep DEF ProbeOrFinish
  <2>3. CASE OtherAttempt(w)
    <3>1. pc' \in [Workers -> Places]
        BY <2>3 DEF OtherAttempt, Attempt, PermitsApart, Places
    <3> QED
        BY <2>3, <3>1, CircuitKept DEF OtherAttempt, Attempt
  <2>4. CASE ReportToCircuit(w)
      BY <2>4, FinishAttemptStep DEF ReportToCircuit
  <2> QED
      BY <1>1, <2>1, <2>2, <2>3, <2>4, JobKept DEF NoticeWork
<1>2. ASSUME NEW w \in Workers, WorkerCrashes(w)
      PROVE  PermitsApart' /\ FencedStep
    BY <1>2, CircuitKept DEF WorkerCrashes, Crash, PermitsApart, Places
<1>3. CASE CircuitTime
    BY <1>3, TimeStep DEF CircuitTime
<1>4. CASE \/ \E n \in Notices : BeginReset(n) \/ Issue(n) \/ NoticeDeadline(n) \/ NoticeLeaseRunsOut(n)
           \/ ContactRetires
           \/ UNCHANGED allVars
  <2>1. UNCHANGED <<state, due, pc, current, overtaken>>
      BY <1>4 DEF BeginReset, Issue, NoticeDeadline, NoticeLeaseRunsOut, ContactRetires, allVars, vars
  <2> QED
      BY <2>1, CircuitKept DEF PermitsApart
<1> QED
    BY <1>1, <1>2, <1>3, <1>4 DEF NoticeNext

\* A result of the circuit that comes late changes nothing, and the circuit closes only on a
\* probe of its own (authentication_baseline_operations.py, _finish_provider_probe and
\* finish_provider_attempt compare version and token under the row lock).
THEOREM FencedHolds == NoticeSpec => Fenced
<1>1. NoticeInit => PermitsApart
    BY DEF NoticeInit, Init, PermitsApart, Places
<1>2. NoticeSpec => [][FencedStep]_allVars
    BY <1>1, NextFenced, PTL DEF NoticeSpec
<1>3. [FencedStep]_allVars => [FencedStep]_vars
    BY DEF allVars
<1> QED
    BY <1>2, <1>3, PTL DEF Fenced, FencedStep

-----------------------------------------------------------------------------
(* The outbox.                                                               *)

\* The workers that have claimed a notice and not yet sent its mail.
Senders(n) == {w \in Notifiers : job[w] = [step |-> "claimed", notice |-> n]}

NoticeTypes ==
    /\ notice \in [Notices -> Rows]
    /\ job \in [Notifiers -> Jobs]
    /\ mails \in [Notices -> Nat]
    /\ audits \in [Notices -> Nat]

\* What the tables say of one notice.
RowAgrees(n) ==
    /\ notice[n].state = "leased" <=> notice[n].owner # NoWorker
    /\ audits[n] = IF notice[n].state = "delivery_failed" THEN 1 ELSE 0
    /\ notice[n].state = "delivered" => mails[n] > 0

Paid(n) == mails[n] + Cardinality(Senders(n)) <= notice[n].attempts

\* Only a mail the provider took is reported as accepted.
AcceptedWasSent ==
    \A w \in Notifiers : job[w].step = "accepted" => mails[job[w].notice] > 0

AgreeInv ==
    /\ NoticeTypes
    /\ \A n \in Notices : RowAgrees(n) /\ Paid(n)
    /\ AcceptedWasSent

LEMMA JobShape ==
    ASSUME NEW j \in Jobs
    PROVE  /\ j.step \in {"none", "looked", "claimed"} \cup Results
           /\ j.step \in {"claimed"} \cup Results =>
                 j.notice \in Notices /\ j = [step |-> j.step, notice |-> j.notice]
    BY DEF Jobs, Results

\* The invariant counts the workers that the property counts.
LEMMA SendersAreClaimants ==
    ASSUME NoticeTypes, NEW n \in Notices
    PROVE  Senders(n) = {w \in Notifiers : Doing(w, "claimed") /\ WorksOn(w, n)}
<1>1. ASSUME NEW w \in Notifiers
      PROVE  job[w] = [step |-> "claimed", notice |-> n] <=> Doing(w, "claimed") /\ WorksOn(w, n)
  <2>1. job[w] \in Jobs
      BY DEF NoticeTypes
  <2>2. ASSUME Doing(w, "claimed"), WorksOn(w, n)
        PROVE  job[w] = [step |-> "claimed", notice |-> n]
      BY <2>1, <2>2, JobShape DEF Doing, WorksOn
  <2>3. ASSUME job[w] = [step |-> "claimed", notice |-> n]
        PROVE  Doing(w, "claimed") /\ WorksOn(w, n)
      BY <2>3 DEF Doing, WorksOn
  <2> QED
      BY <2>2, <2>3
<1> QED
    BY <1>1 DEF Senders

LEMMA SendersFinite ==
    ASSUME NEW n
    PROVE  /\ IsFiniteSet(Senders(n))
           /\ Cardinality(Senders(n)) \in Nat
    BY NotifiersAssumption, FS_Subset, FS_CardinalityType DEF Senders

LEMMA SendersFinitePrimed ==
    ASSUME NEW n
    PROVE  /\ IsFiniteSet(Senders(n)')
           /\ Cardinality(Senders(n))' \in Nat
    BY NotifiersAssumption, FS_Subset, FS_CardinalityType DEF Senders

\* A step that takes no claim on and sends nothing leaves a notice paid for.
LEMMA PaidKept ==
    ASSUME NoticeTypes, NEW n \in Notices, Paid(n), Senders(n)' \subseteq Senders(n),
           mails'[n] = mails[n], notice'[n].attempts \in Nat,
           notice'[n].attempts >= notice[n].attempts
    PROVE  Paid(n)'
<1>1. Cardinality(Senders(n)') <= Cardinality(Senders(n))
    BY SendersFinite, FS_Subset
<1>2. notice[n].attempts \in Nat /\ mails[n] \in Nat
    BY AttemptsAssumption DEF NoticeTypes, Rows
<1> QED
    BY <1>1, <1>2, SendersFinite, SendersFinitePrimed DEF Paid

\* A worker that works on no claim before or after changes who sends nothing.
LEMMA SendersKept ==
    ASSUME NoticeTypes, NEW w \in Notifiers, job' = [job EXCEPT ![w] = job'[w]],
           job'[w].step # "claimed", NEW n
    PROVE  Senders(n)' \subseteq Senders(n)
<1>1. job'[w] # [step |-> "claimed", notice |-> n]
    OBVIOUS
<1> QED
    BY <1>1 DEF Senders, NoticeTypes

\* Steps that leave the outbox alone.
LEMMA OutboxKept ==
    ASSUME AgreeInv, UNCHANGED <<notice, job, mails, audits>>
    PROVE  AgreeInv'
    BY DEF AgreeInv, NoticeTypes, RowAgrees, Paid, Senders, AcceptedWasSent

\* Steps outside the workers: they move a row without an owner, or only its deadline.
LEMMA RowMoves ==
    ASSUME AgreeInv, NEW n \in Notices, UNCHANGED <<job, mails, audits>>,
           BeginReset(n) \/ Issue(n) \/ NoticeDeadline(n) \/ NoticeLeaseRunsOut(n)
    PROVE  AgreeInv'
<1>1. PICK row \in Rows :
         /\ notice' = [notice EXCEPT ![n] = row]
         /\ row.owner = notice[n].owner
         /\ row.attempts = notice[n].attempts
         /\ \/ row.state = notice[n].state
            \/ /\ notice[n].state \in {"absent", "asked"}
               /\ row.state \in {"asked", "pending"}
  <2>1. notice[n] \in Rows /\ notice \in [Notices -> Rows]
      BY DEF AgreeInv, NoticeTypes
  <2>2. CASE BeginReset(n)
    <3>1. [notice[n] EXCEPT !.state = "asked"] \in Rows
        BY <2>1 DEF Rows, RowStates
    <3>2. notice[n].state = "absent"
        BY <2>2 DEF BeginReset, NoRow
    <3>3. notice' = [notice EXCEPT ![n] = [notice[n] EXCEPT !.state = "asked"]]
        BY <2>2 DEF BeginReset
    <3> QED
        BY <2>1, <3>1, <3>2, <3>3 DEF Rows
  <2>3. CASE Issue(n)
    <3>1. [notice[n] EXCEPT !.state = "pending", !.due = TRUE] \in Rows
        BY <2>1 DEF Rows, RowStates
    <3>2. notice' = [notice EXCEPT ![n] = [notice[n] EXCEPT !.state = "pending", !.due = TRUE]]
        BY <2>1, <2>3 DEF Issue
    <3>3. notice[n].state = "asked"
        BY <2>3 DEF Issue
    <3> QED
        BY <2>1, <3>1, <3>2, <3>3 DEF Rows
  <2>4. CASE NoticeDeadline(n) \/ NoticeLeaseRunsOut(n)
    <3>1. [notice[n] EXCEPT !.due = TRUE] \in Rows
        BY <2>1 DEF Rows
    <3>2. notice' = [notice EXCEPT ![n] = [notice[n] EXCEPT !.due = TRUE]]
        BY <2>4 DEF NoticeDeadline, NoticeLeaseRunsOut
    <3> QED
        BY <2>1, <3>1, <3>2 DEF Rows
  <2> QED
      BY <2>2, <2>3, <2>4
<1>2. NoticeTypes'
    BY <1>1 DEF AgreeInv, NoticeTypes
<1>3. ASSUME NEW m \in Notices
      PROVE  RowAgrees(m)' /\ Paid(m)'
  <2>1. RowAgrees(m)'
      BY <1>1 DEF AgreeInv, NoticeTypes, RowAgrees
  <2>2. notice'[m].attempts = notice[m].attempts
      BY <1>1 DEF AgreeInv, NoticeTypes
  <2>3. Senders(m)' = Senders(m)
      BY DEF Senders
  <2> QED
      BY <2>1, <2>2, <2>3 DEF AgreeInv, Paid
<1> QED
    BY <1>2, <1>3 DEF AgreeInv, AcceptedWasSent

LEMMA FailedRow ==
    ASSUME NEW row \in Rows
    PROVE  /\ Failed(row) \in Rows
           /\ Failed(row).attempts = row.attempts
           /\ Failed(row).state = "delivery_failed"
           /\ Failed(row).owner = NoWorker
    BY DEF Failed, Rows, RowStates

LEMMA ClaimedRow ==
    ASSUME NEW row \in Rows, Claimable(row), NEW w \in Notifiers
    PROVE  /\ Claimed(row, w) \in Rows
           /\ Claimed(row, w).attempts = row.attempts + 1
           /\ row.attempts \in Nat
           /\ Claimed(row, w).state = "leased"
           /\ Claimed(row, w).owner = w
           /\ w # NoWorker
           /\ row.state \in {"pending", "leased"}
<1>1. row.attempts \in 0 .. MaxAttempts /\ row.attempts + 1 \in 0 .. MaxAttempts
    BY AttemptsAssumption DEF Rows, Claimable
<1>2. Claimed(row, w) = [row EXCEPT !.state = "leased", !.owner = w, !.due = FALSE,
                                    !.attempts = row.attempts + 1]
    BY DEF Claimed
<1> HIDE DEF Claimed
<1>3. Claimed(row, w) \in Rows
    BY <1>1, <1>2 DEF Rows, RowStates
<1>4. w # NoWorker
    BY NotifiersAssumption DEF NoWorker
<1> QED
    BY <1>1, <1>2, <1>3, <1>4, AttemptsAssumption DEF Rows, Claimable

\* The steps of a worker: what it does to one row, to its own job and to the mails of one notice.
LEMMA LookStep ==
    ASSUME AgreeInv, NEW w \in Notifiers, LookExhausted(w)
    PROVE  AgreeInv'
<1>1. CASE \E n \in Notices : Exhausted(notice[n]) /\ Write(n, Failed(notice[n])) /\ UNCHANGED job
  <2>1. PICK n \in Notices :
            Exhausted(notice[n]) /\ Write(n, Failed(notice[n])) /\ UNCHANGED job
      BY <1>1
  <2>2. UNCHANGED mails
      BY DEF LookExhausted
  <2>3. /\ Failed(notice[n]) \in Rows
        /\ Failed(notice[n]).attempts = notice[n].attempts
        /\ Failed(notice[n]).state = "delivery_failed"
        /\ Failed(notice[n]).owner = NoWorker
    <3>1. notice[n] \in Rows
        BY DEF AgreeInv, NoticeTypes
    <3> QED
        BY <3>1, FailedRow
  <2>4. NoticeTypes'
      BY <2>1, <2>2, <2>3 DEF Write, AgreeInv, NoticeTypes
  <2>5. ASSUME NEW m \in Notices
        PROVE  RowAgrees(m)' /\ Paid(m)'
    <3>1. RowAgrees(m)'
      <4>1. /\ notice' = [notice EXCEPT ![n] = Failed(notice[n])]
            /\ audits' = [audits EXCEPT ![n] = @ + 1]
          BY <2>1, <2>3 DEF Write
      <4>2. notice[n].state = "leased"
          BY <2>1 DEF Exhausted
      <4> QED
          BY <2>2, <2>3, <4>1, <4>2 DEF AgreeInv, NoticeTypes, RowAgrees
    <3>2. notice'[m].attempts = notice[m].attempts /\ mails'[m] = mails[m]
        BY <2>1, <2>2, <2>3 DEF Write, AgreeInv, NoticeTypes
    <3>3. Senders(m)' = Senders(m)
        BY <2>1 DEF Senders
    <3> QED
        BY <3>1, <3>2, <3>3 DEF AgreeInv, Paid
  <2> QED
      BY <2>1, <2>2, <2>4, <2>5 DEF AgreeInv, AcceptedWasSent
<1>2. CASE job' = [job EXCEPT ![w] = [step |-> "looked"]] /\ UNCHANGED <<notice, audits>>
  <2>1. UNCHANGED mails
      BY DEF LookExhausted
  <2>2. NoticeTypes'
      BY <1>2, <2>1 DEF AgreeInv, NoticeTypes, Jobs
  <2>3. ASSUME NEW m \in Notices
        PROVE  RowAgrees(m)' /\ Paid(m)'
    <3>1. notice[m].attempts \in Nat
        BY AttemptsAssumption DEF AgreeInv, NoticeTypes, Rows
    <3>2. Senders(m)' \subseteq Senders(m)
      <4>1. job'[w] = [step |-> "looked"]
          BY <1>2 DEF AgreeInv, NoticeTypes
      <4>2. job'[w].step = "looked"
          BY <4>1
      <4>3. job' = [job EXCEPT ![w] = job'[w]]
          BY <1>2 DEF AgreeInv, NoticeTypes
      <4> QED
          BY <4>2, <4>3, SendersKept DEF AgreeInv
    <3>3. Paid(m)'
        BY <1>2, <2>1, <3>1, <3>2, PaidKept DEF AgreeInv
    <3> QED
        BY <1>2, <2>1, <3>3 DEF AgreeInv, RowAgrees
  <2>4. AcceptedWasSent'
      BY <1>2, <2>1 DEF AgreeInv, NoticeTypes, AcceptedWasSent
  <2> QED
      BY <2>2, <2>3, <2>4 DEF AgreeInv
<1> QED
    BY <1>1, <1>2 DEF LookExhausted

LEMMA ClaimStep ==
    ASSUME AgreeInv, NEW w \in Notifiers, Claim(w)
    PROVE  AgreeInv'
<1>1. job[w].step = "looked" /\ UNCHANGED mails
    BY DEF Claim, Doing
<1>2. ASSUME NEW n \in Notices, Claimable(notice[n]), Write(n, Claimed(notice[n], w)),
             job' = [job EXCEPT ![w] = [step |-> "claimed", notice |-> n]]
      PROVE  AgreeInv'
  <2>1. /\ Claimed(notice[n], w) \in Rows
        /\ Claimed(notice[n], w).attempts = notice[n].attempts + 1
        /\ notice[n].attempts \in Nat
        /\ Claimed(notice[n], w).state = "leased"
        /\ Claimed(notice[n], w).owner = w
        /\ w # NoWorker
        /\ notice[n].state \in {"pending", "leased"}
    <3>1. notice[n] \in Rows
        BY DEF AgreeInv, NoticeTypes
    <3> QED
        BY <1>2, <3>1, ClaimedRow
  <2>2. NoticeTypes'
    <3>1. [step |-> "claimed", notice |-> n] \in Jobs
        BY DEF Jobs
    <3> QED
        BY <1>1, <1>2, <2>1, <3>1 DEF Write, AgreeInv, NoticeTypes
  <2>3. ASSUME NEW m \in Notices
        PROVE  RowAgrees(m)'
      BY <1>1, <1>2, <2>1 DEF Write, AgreeInv, NoticeTypes, RowAgrees
  <2>4. ASSUME NEW m \in Notices
        PROVE  Paid(m)'
    <3>1. CASE m = n
      <4>1. Senders(n)' \subseteq Senders(n) \cup {w}
          BY <1>2 DEF Senders, AgreeInv, NoticeTypes
      <4>2. /\ IsFiniteSet(Senders(n) \cup {w})
            /\ Cardinality(Senders(n) \cup {w}) \in Nat
            /\ Cardinality(Senders(n) \cup {w}) <= Cardinality(Senders(n)) + 1
        <5>1. IsFiniteSet(Senders(n)) /\ Cardinality(Senders(n)) \in Nat
            BY SendersFinite
        <5>2. /\ IsFiniteSet(Senders(n) \cup {w})
              /\ Cardinality(Senders(n) \cup {w}) = IF w \in Senders(n) THEN Cardinality(Senders(n))
                                                     ELSE Cardinality(Senders(n)) + 1
            BY <5>1, FS_AddElement
        <5> QED
            BY <5>1, <5>2
      <4>3. Cardinality(Senders(n)') <= Cardinality(Senders(n) \cup {w})
          BY <4>1, <4>2, FS_Subset
      <4>4. notice'[n].attempts = notice[n].attempts + 1 /\ mails'[n] = mails[n] /\ mails[n] \in Nat
          BY <1>1, <1>2, <2>1 DEF Write, AgreeInv, NoticeTypes
      <4> QED
          BY <2>1, <3>1, <4>2, <4>3, <4>4, SendersFinite, SendersFinitePrimed DEF AgreeInv, Paid
    <3>2. CASE m # n
      <4>1. Senders(m)' \subseteq Senders(m)
          BY <1>2, <3>2 DEF Senders, AgreeInv, NoticeTypes
      <4>2. notice'[m] = notice[m] /\ mails'[m] = mails[m]
          BY <1>1, <1>2, <3>2 DEF Write, AgreeInv, NoticeTypes
      <4>3. notice[m].attempts \in Nat
          BY AttemptsAssumption DEF AgreeInv, NoticeTypes, Rows
      <4> QED
          BY <4>1, <4>2, <4>3, PaidKept DEF AgreeInv
    <3> QED
        BY <3>1, <3>2
  <2>5. AcceptedWasSent'
      BY <1>1, <1>2 DEF AgreeInv, NoticeTypes, AcceptedWasSent
  <2> QED
      BY <2>2, <2>3, <2>4, <2>5 DEF AgreeInv
<1>3. ASSUME NEW n \in Notices, Claimable(notice[n]), Write(n, Failed(Claimed(notice[n], w))),
             job' = [job EXCEPT ![w] = NoJob]
      PROVE  AgreeInv'
  <2> DEFINE row == Failed(Claimed(notice[n], w))
  <2>1. /\ row \in Rows
        /\ row.attempts = notice[n].attempts + 1
        /\ row.state = "delivery_failed" /\ row.owner = NoWorker
        /\ notice[n].attempts \in Nat
        /\ notice[n].state \in {"pending", "leased"}
    <3>1. notice[n] \in Rows
        BY DEF AgreeInv, NoticeTypes
    <3> QED
        BY <1>3, <3>1, ClaimedRow, FailedRow
  <2>2. /\ notice' = [notice EXCEPT ![n] = row]
        /\ audits' = [audits EXCEPT ![n] = @ + 1]
      BY <1>3, <2>1 DEF Write
  <2> HIDE DEF row
  <2>3. NoticeTypes'
      BY <1>1, <1>3, <2>1, <2>2 DEF AgreeInv, NoticeTypes, Jobs, NoJob
  <2>4. ASSUME NEW m \in Notices
        PROVE  RowAgrees(m)'
      BY <1>1, <1>3, <2>1, <2>2 DEF Claimable, AgreeInv, NoticeTypes, RowAgrees
  <2>5. ASSUME NEW m \in Notices
        PROVE  Paid(m)'
    <3>1. Senders(m)' \subseteq Senders(m)
      <4>1. job'[w] = [step |-> "none"]
          BY <1>3 DEF AgreeInv, NoticeTypes, NoJob
      <4>2. job'[w].step = "none"
          BY <4>1
      <4>3. job' = [job EXCEPT ![w] = job'[w]]
          BY <1>3 DEF AgreeInv, NoticeTypes
      <4> QED
          BY <4>2, <4>3, SendersKept DEF AgreeInv
    <3>2. /\ notice'[m].attempts \in Nat
          /\ notice'[m].attempts >= notice[m].attempts
        BY <2>1, <2>2, AttemptsAssumption DEF AgreeInv, NoticeTypes, Rows
    <3> QED
        BY <1>1, <3>1, <3>2, PaidKept DEF AgreeInv
  <2>6. AcceptedWasSent'
      BY <1>1, <1>3 DEF AgreeInv, NoticeTypes, AcceptedWasSent, NoJob
  <2> QED
      BY <2>3, <2>4, <2>5, <2>6 DEF AgreeInv
<1>4. CASE job' = [job EXCEPT ![w] = NoJob] /\ UNCHANGED <<notice, audits>>
  <2>1. NoticeTypes'
      BY <1>1, <1>4 DEF AgreeInv, NoticeTypes, Jobs, NoJob
  <2>2. ASSUME NEW m \in Notices
        PROVE  RowAgrees(m)' /\ Paid(m)'
    <3>1. notice[m].attempts \in Nat
        BY AttemptsAssumption DEF AgreeInv, NoticeTypes, Rows
    <3>2. Senders(m)' \subseteq Senders(m)
      <4>1. job'[w] = [step |-> "none"]
          BY <1>4 DEF AgreeInv, NoticeTypes, NoJob
      <4>2. job'[w].step = "none"
          BY <4>1
      <4>3. job' = [job EXCEPT ![w] = job'[w]]
          BY <1>4 DEF AgreeInv, NoticeTypes
      <4> QED
          BY <4>2, <4>3, SendersKept DEF AgreeInv
    <3>3. Paid(m)'
        BY <1>1, <1>4, <3>1, <3>2, PaidKept DEF AgreeInv
    <3> QED
        BY <1>1, <1>4, <3>3 DEF AgreeInv, RowAgrees
  <2>3. AcceptedWasSent'
      BY <1>1, <1>4 DEF AgreeInv, NoticeTypes, AcceptedWasSent, NoJob
  <2> QED
      BY <2>1, <2>2, <2>3 DEF AgreeInv
<1> QED
    BY <1>2, <1>3, <1>4 DEF Claim

LEMMA SendStep ==
    ASSUME AgreeInv, NEW w \in Notifiers, Send(w)
    PROVE  AgreeInv'
<1>1. job[w] \in Jobs /\ job[w].step = "claimed" /\ UNCHANGED <<notice, audits>>
    BY DEF Send, Doing, AgreeInv, NoticeTypes
<1>2. PICK n \in Notices : n = job[w].notice /\ job[w] = [step |-> "claimed", notice |-> n]
    BY <1>1, JobShape
<1>3. PICK result \in Results, taken \in BOOLEAN :
         /\ result = "accepted" => taken
         /\ job' = [job EXCEPT ![w] = [step |-> result, notice |-> n]]
         /\ mails' = [mails EXCEPT ![n] = IF taken THEN @ + 1 ELSE @]
    BY <1>2 DEF Send
<1>4. NoticeTypes'
  <2>1. [step |-> result, notice |-> n] \in Jobs
      BY DEF Jobs
  <2> QED
      BY <1>1, <1>3, <2>1 DEF AgreeInv, NoticeTypes
<1>5. \A m \in Notices : mails[m] \in Nat /\ mails'[m] \in Nat /\ mails'[m] >= mails[m]
    BY <1>3 DEF AgreeInv, NoticeTypes
<1>6. ASSUME NEW m \in Notices
      PROVE  RowAgrees(m)'
    BY <1>1, <1>5 DEF AgreeInv, RowAgrees
<1>7. ASSUME NEW m \in Notices
      PROVE  Paid(m)'
  <2>1. result # "claimed"
      BY DEF Results
  <2>2. [step |-> result, notice |-> n] # [step |-> "claimed", notice |-> m]
      BY <2>1
  <2>3. Senders(m)' \subseteq Senders(m) \ {w}
      BY <1>3, <2>2 DEF Senders, AgreeInv, NoticeTypes
  <2>4. IsFiniteSet(Senders(m)) /\ Cardinality(Senders(m)) \in Nat
      BY SendersFinite
  <2>5. /\ IsFiniteSet(Senders(m) \ {w})
        /\ Cardinality(Senders(m) \ {w}) = IF w \in Senders(m) THEN Cardinality(Senders(m)) - 1
                                           ELSE Cardinality(Senders(m))
      BY <2>4, FS_RemoveElement
  <2>6. Cardinality(Senders(m)') <= Cardinality(Senders(m) \ {w})
      BY <2>3, <2>5, FS_Subset
  <2>7. Cardinality(Senders(m))' \in Nat
      BY SendersFinitePrimed
  <2>8. notice[m].attempts \in Nat
      BY AttemptsAssumption DEF AgreeInv, NoticeTypes, Rows
  <2>9. CASE m = n
    <3>1. w \in Senders(m)
        BY <1>2, <2>9 DEF Senders
    <3>2. mails'[m] <= mails[m] + 1
        BY <1>3, <2>9 DEF AgreeInv, NoticeTypes
    <3> QED
        BY <1>1, <1>5, <2>4, <2>5, <2>6, <2>7, <2>8, <3>1, <3>2 DEF AgreeInv, Paid
  <2>10. CASE m # n
    <3>1. mails'[m] = mails[m]
        BY <1>3, <2>10 DEF AgreeInv, NoticeTypes
    <3>2. Senders(m)' \subseteq Senders(m)
        BY <2>3
    <3> QED
        BY <1>1, <2>8, <3>1, <3>2, PaidKept DEF AgreeInv
  <2> QED
      BY <2>9, <2>10
<1>8. ASSUME NEW v \in Notifiers, job'[v].step = "accepted"
      PROVE  mails'[job'[v].notice] > 0
  <2>1. CASE v = w
    <3>1. job'[v] = [step |-> result, notice |-> n]
        BY <1>3, <2>1 DEF AgreeInv, NoticeTypes
    <3>2. result = "accepted" /\ job'[v].notice = n
        BY <1>8, <3>1
    <3> QED
        BY <1>3, <1>5, <3>2 DEF AgreeInv, NoticeTypes
  <2>2. CASE v # w
    <3>1. job'[v] = job[v] /\ job[v] \in Jobs
        BY <1>3, <2>2 DEF AgreeInv, NoticeTypes
    <3>2. job[v].notice \in Notices /\ mails[job[v].notice] > 0
        BY <1>8, <3>1, JobShape DEF AgreeInv, AcceptedWasSent, Results
    <3> QED
        BY <1>5, <3>1, <3>2
  <2> QED
      BY <2>1, <2>2
<1> QED
    BY <1>4, <1>6, <1>7, <1>8 DEF AgreeInv, AcceptedWasSent

LEMMA ReportStep ==
    ASSUME AgreeInv, NEW w \in Notifiers, ReportToOutbox(w)
    PROVE  AgreeInv'
<1>1. /\ job[w] \in Jobs
      /\ job[w].step \in Results
      /\ job' = [job EXCEPT ![w] = NoJob]
      /\ UNCHANGED mails
    BY DEF ReportToOutbox, Doing, AgreeInv, NoticeTypes
<1>2. PICK n \in Notices : n = job[w].notice
    BY <1>1, JobShape
<1>3. ASSUME NEW m \in Notices
      PROVE  Senders(m)' \subseteq Senders(m)
  <2>1. job'[w] = [step |-> "none"]
      BY <1>1 DEF AgreeInv, NoticeTypes, NoJob
  <2>2. job'[w].step = "none"
      BY <2>1
  <2>3. job' = [job EXCEPT ![w] = job'[w]]
      BY <1>1 DEF AgreeInv, NoticeTypes
  <2> QED
      BY <2>2, <2>3, SendersKept DEF AgreeInv
<1>4. AcceptedWasSent'
    BY <1>1 DEF AgreeInv, NoticeTypes, AcceptedWasSent, NoJob
<1>5. job' \in [Notifiers -> Jobs]
    BY <1>1 DEF AgreeInv, NoticeTypes, Jobs, NoJob
<1>6. CASE Holds(w, notice[n]) /\ Write(n, Reported(notice[n], job[w].step))
  <2> DEFINE row == Reported(notice[n], job[w].step)
  <2>1. /\ row \in Rows
        /\ row.attempts = notice[n].attempts
        /\ row.owner = NoWorker
        /\ row.state \in {"delivered", "delivery_failed", "pending"}
        /\ row.state = "delivered" => job[w].step = "accepted"
    <3>1. notice[n] \in Rows
        BY DEF AgreeInv, NoticeTypes
    <3> QED
        BY <3>1, FailedRow DEF Reported, Rows, RowStates
  <2>2. /\ notice' = [notice EXCEPT ![n] = row]
        /\ audits' = [audits EXCEPT ![n] = IF row.state = "delivery_failed" THEN @ + 1 ELSE @]
      BY <1>6 DEF Write
  <2>3. notice[n].state = "leased" /\ (row.state = "delivered" => mails[n] > 0)
      BY <1>2, <1>6, <2>1 DEF Holds, AgreeInv, AcceptedWasSent
  <2> HIDE DEF row
  <2>4. NoticeTypes'
      BY <1>1, <1>5, <2>1, <2>2 DEF AgreeInv, NoticeTypes
  <2>5. ASSUME NEW m \in Notices
        PROVE  RowAgrees(m)'
      BY <1>1, <2>1, <2>2, <2>3 DEF AgreeInv, NoticeTypes, RowAgrees
  <2>6. ASSUME NEW m \in Notices
        PROVE  Paid(m)'
    <3>1. notice'[m].attempts = notice[m].attempts /\ notice[m].attempts \in Nat
        BY <2>1, <2>2, AttemptsAssumption DEF AgreeInv, NoticeTypes, Rows
    <3> QED
        BY <1>1, <1>3, <3>1, PaidKept DEF AgreeInv
  <2> QED
      BY <1>4, <2>4, <2>5, <2>6 DEF AgreeInv
<1>7. CASE UNCHANGED <<notice, audits>>
  <2>1. ASSUME NEW m \in Notices
        PROVE  RowAgrees(m)' /\ Paid(m)'
    <3>1. notice[m].attempts \in Nat
        BY AttemptsAssumption DEF AgreeInv, NoticeTypes, Rows
    <3>2. Paid(m)'
        BY <1>1, <1>3, <1>7, <3>1, PaidKept DEF AgreeInv
    <3> QED
        BY <1>1, <1>7, <3>2 DEF AgreeInv, RowAgrees
  <2> QED
      BY <1>1, <1>4, <1>5, <1>7, <2>1 DEF AgreeInv, NoticeTypes
<1> QED
    BY <1>2, <1>6, <1>7 DEF ReportToOutbox

\* A crash forgets the job and leaves the row to its lease.
LEMMA CrashStep ==
    ASSUME AgreeInv, NEW w \in Workers, WorkerCrashes(w)
    PROVE  AgreeInv'
<1>1. /\ job' = [v \in Notifiers |-> IF v = w THEN NoJob ELSE job[v]]
      /\ UNCHANGED <<notice, mails, audits>>
    BY DEF WorkerCrashes
<1>2. NoticeTypes'
    BY <1>1 DEF AgreeInv, NoticeTypes, Jobs, NoJob
<1>3. ASSUME NEW m \in Notices
      PROVE  RowAgrees(m)' /\ Paid(m)'
  <2>1. notice[m].attempts \in Nat
      BY AttemptsAssumption DEF AgreeInv, NoticeTypes, Rows
  <2>2. NoJob # [step |-> "claimed", notice |-> m]
    <3>1. NoJob.step = "none"
        BY DEF NoJob
    <3> QED
        BY <3>1
  <2>3. Senders(m)' \subseteq Senders(m)
      BY <1>1, <2>2 DEF Senders
  <2>4. Paid(m)'
      BY <1>1, <2>1, <2>3, PaidKept DEF AgreeInv
  <2> QED
      BY <1>1, <2>4 DEF AgreeInv, RowAgrees
<1>4. AcceptedWasSent'
    BY <1>1 DEF AgreeInv, AcceptedWasSent, NoJob
<1> QED
    BY <1>2, <1>3, <1>4 DEF AgreeInv

LEMMA NextAgrees == AgreeInv /\ [NoticeNext]_allVars => AgreeInv'
<1> SUFFICES ASSUME AgreeInv, [NoticeNext]_allVars
             PROVE  AgreeInv'
    OBVIOUS
<1>1. ASSUME NEW w \in Workers, NoticeWork(w)
      PROVE  AgreeInv'
  <2>1. CASE Poll(w) \/ ProbeOrFinish(w) \/ OtherAttempt(w) \/ ReportToCircuit(w)
      BY <2>1, OutboxKept
      DEF Poll, ProbeOrFinish, OtherAttempt, ReportToCircuit, noticeVars
  <2>2. CASE LookExhausted(w) \/ Claim(w) \/ Send(w) \/ ReportToOutbox(w)
    <3>1. w \in Notifiers
        BY <2>2, Zenon DEF LookExhausted, Claim, Send, ReportToOutbox, Doing
    <3> QED
        BY <2>2, <3>1, LookStep, ClaimStep, SendStep, ReportStep
  <2> QED
      BY <1>1, <2>1, <2>2 DEF NoticeWork
<1>2. ASSUME NEW w \in Workers, WorkerCrashes(w)
      PROVE  AgreeInv'
    BY <1>2, CrashStep
<1>3. ASSUME NEW n \in Notices,
             BeginReset(n) \/ Issue(n) \/ NoticeDeadline(n) \/ NoticeLeaseRunsOut(n)
      PROVE  AgreeInv'
  <2>1. UNCHANGED <<job, mails, audits>>
      BY <1>3 DEF BeginReset, Issue, NoticeDeadline, NoticeLeaseRunsOut
  <2> QED
      BY <1>3, <2>1, RowMoves
<1>4. CASE CircuitTime \/ ContactRetires \/ UNCHANGED allVars
    BY <1>4, OutboxKept DEF CircuitTime, ContactRetires, allVars, noticeVars
<1> QED
    BY <1>1, <1>2, <1>3, <1>4 DEF NoticeNext

LEMMA InitAgrees == NoticeInit => AgreeInv
<1> SUFFICES ASSUME NoticeInit
             PROVE  AgreeInv
    OBVIOUS
<1>1. /\ notice = [n \in Notices |-> NoRow]
      /\ job = [w \in Notifiers |-> NoJob]
      /\ mails = [n \in Notices |-> 0]
      /\ audits = [n \in Notices |-> 0]
    BY DEF NoticeInit
<1>2. NoRow \in Rows /\ NoRow.owner = NoWorker /\ NoRow.state = "absent" /\ NoRow.attempts = 0
    BY AttemptsAssumption DEF NoRow, Rows, RowStates
<1>3. NoJob \in Jobs /\ NoJob.step = "none"
    BY DEF NoJob, Jobs
<1>4. NoticeTypes
    BY <1>1, <1>2, <1>3 DEF NoticeTypes
<1>5. ASSUME NEW n \in Notices
      PROVE  RowAgrees(n) /\ Paid(n)
  <2>1. Senders(n) = {}
      BY <1>1, <1>3 DEF Senders
  <2>2. Cardinality(Senders(n)) = 0
      BY <2>1, FS_EmptySet
  <2> QED
      BY <1>1, <1>2, <2>2 DEF RowAgrees, Paid
<1> QED
    BY <1>1, <1>3, <1>4, <1>5 DEF AgreeInv, AcceptedWasSent

-----------------------------------------------------------------------------
(* Types and the probe's one owner.                                          *)

\* The circuit waits for this worker's probe.
Probes(w) == current[w] /\ Probing(w)

ProbesRight ==
    /\ \A w \in Workers : Probes(w) => state = "probing"
    /\ \A v, w \in Workers : Probes(v) /\ Probes(w) => v = w

CircuitRight ==
    /\ state \in {"absent", "open", "closed", "probing"}
    /\ due \in BOOLEAN /\ beat \subseteq Roles /\ up \in BOOLEAN /\ faults \in 0 .. MaxFaults
    /\ PermitsApart
    /\ ProbesRight

LEMMA CircuitRightTyped == CircuitRight => CircuitTypeOK
<1> SUFFICES ASSUME CircuitRight PROVE CircuitTypeOK
    OBVIOUS
<1> DEFINE Owners == {w \in Workers : current[w] /\ Probing(w)}
<1>2. ASSUME NEW v \in Owners
      PROVE  Cardinality(Owners) = 1
  <2>1. Owners = {v}
      BY DEF CircuitRight, ProbesRight, Probes
  <2> HIDE DEF Owners
  <2> QED
      BY <2>1, FS_Singleton
<1>3. Cardinality(Owners) <= 1
  <2> HIDE DEF Owners
  <2>1. CASE Owners = {}
      BY <2>1, FS_EmptySet
  <2>2. CASE \E v \in Owners : TRUE
      BY <2>2, <1>2
  <2> QED
      BY <2>1, <2>2
<1> QED
    BY <1>3 DEF CircuitRight, CircuitTypeOK, PermitsApart, ProbesRight, Probes

\* A step that starts no probe and leaves the circuit as it is.
LEMMA ProbesKept ==
    ASSUME CircuitRight, UNCHANGED <<state, current>>, pc' \in [Workers -> Places],
           \A w \in Workers : Probing(w)' => Probing(w)
    PROVE  ProbesRight'
    BY DEF CircuitRight, ProbesRight, Probes

LEMMA RoleOf == \A w \in Workers : Role(w) \in Roles
    BY DEF Role, Roles

\* A step of one worker in the circuit.
LEMMA WorkerInCircuit ==
    ASSUME CircuitRight, NEW w \in Workers,
           \/ PollClosed(w) \/ PollProbes(w) \/ PollWaits(w) \/ Probe(w) \/ FinishProbe(w)
           \/ Attempt(w) \/ FinishAttempt(w) \/ Restart(w) \/ Crash(w), PermitsApart'
    PROVE  CircuitRight'
<1>0. /\ pc \in [Workers -> Places] /\ current \in [Workers -> BOOLEAN] /\ pc' \in [Workers -> Places]
      /\ Role(w) \in Roles
    BY RoleOf DEF CircuitRight, PermitsApart
<1>1. /\ state' \in {"absent", "open", "closed", "probing"} /\ due' \in BOOLEAN /\ up' \in BOOLEAN
      /\ faults' \in 0 .. MaxFaults
  <2>1. state' \in {state, "open", "closed", "probing"} /\ due' \in {due, FALSE}
      BY DEF PollClosed, PollProbes, PollWaits, Probe, FinishProbe, Attempt, FinishAttempt, Restart, Crash
  <2>2. up' = up /\ (faults' = faults \/ (faults < MaxFaults /\ faults' = faults + 1))
      BY DEF PollClosed, PollProbes, PollWaits, Probe, FinishProbe, Attempt, FinishAttempt, Restart, Crash
  <2>3. faults' \in 0 .. MaxFaults
      BY <2>2, CircuitFaultsAssumption DEF CircuitRight
  <2> QED
      BY <2>1, <2>2, <2>3 DEF CircuitRight
<1>2. beat' \subseteq Roles
    BY <1>0 DEF CircuitRight, PollClosed, PollProbes, PollWaits, Probe, FinishProbe, Attempt, FinishAttempt,
                Restart, Crash, Heartbeat
<1>3. CASE PollClosed(w)
  <2>1. /\ UNCHANGED state /\ pc'[w] = "sending"
        /\ \A v \in Workers \ {w} : pc'[v] = pc[v] /\ current'[v] = current[v]
      BY <1>0, <1>3 DEF PollClosed
  <2>2. \A v \in Workers : Probes(v)' => Probes(v)
      BY <2>1 DEF Probes, Probing
  <2>3. ProbesRight'
      BY <2>1, <2>2 DEF CircuitRight, ProbesRight
  <2> QED
      BY <1>1, <1>2, <2>3 DEF CircuitRight
<1>4. CASE PollProbes(w)
  <2>1. state' = "probing" /\ \A v \in Workers : current'[v] => v = w
      BY <1>4 DEF PollProbes, Bump
  <2>2. ProbesRight'
      BY <2>1 DEF ProbesRight, Probes
  <2> QED
      BY <1>1, <1>2, <2>2 DEF CircuitRight
<1>5. CASE (FinishProbe(w) /\ ProbeHolds(w)) \/ (FinishAttempt(w) /\ AttemptHolds(w))
  <2>1. pc'[w] \in {"idle", "sending"} /\ \A v \in Workers : current'[v] => v = w
      BY <1>0, <1>5 DEF FinishProbe, FinishAttempt, Bump
  <2>2. \A v \in Workers : ~Probes(v)'
      BY <2>1 DEF Probes, Probing
  <2> QED
      BY <1>1, <1>2, <2>2 DEF CircuitRight, ProbesRight
<1>6. CASE \/ PollWaits(w) \/ Probe(w) \/ Attempt(w) \/ Restart(w) \/ Crash(w)
           \/ (FinishProbe(w) /\ ~ProbeHolds(w))
           \/ (FinishAttempt(w) /\ ~AttemptHolds(w))
  <2>1. UNCHANGED <<state, current>>
      BY <1>6 DEF PollWaits, Probe, Attempt, Restart, Crash, FinishProbe, FinishAttempt
  <2>2. \A v \in Workers : Probing(v)' => Probing(v)
      BY <1>0, <1>6 DEF PollWaits, Probe, Attempt, Restart, Crash, FinishProbe, FinishAttempt, Probing
  <2> QED
      BY <1>0, <1>1, <1>2, <2>1, <2>2, ProbesKept DEF CircuitRight
<1>7. CASE FinishProbe(w)
    BY <1>5, <1>6, <1>7
<1>8. CASE FinishAttempt(w)
    BY <1>5, <1>6, <1>8
<1>9. CASE PollWaits(w) \/ Probe(w) \/ Attempt(w) \/ Restart(w) \/ Crash(w)
    BY <1>6, <1>9
<1> QED
    BY <1>3, <1>4, <1>7, <1>8, <1>9

LEMMA NextCircuit == CircuitRight /\ [NoticeNext]_allVars => CircuitRight'
<1> SUFFICES ASSUME CircuitRight, [NoticeNext]_allVars
             PROVE  CircuitRight'
    OBVIOUS
<1>0. PermitsApart' /\ pc \in [Workers -> Places] /\ pc' \in [Workers -> Places]
    BY NextFenced DEF CircuitRight, PermitsApart
<1>1. ASSUME NEW w \in Workers, NoticeWork(w) \/ WorkerCrashes(w)
      PROVE  CircuitRight'
  <2>1. CASE Poll(w) \/ ProbeOrFinish(w) \/ OtherAttempt(w) \/ ReportToCircuit(w) \/ WorkerCrashes(w)
    <3>1. \/ PollClosed(w) \/ PollProbes(w) \/ PollWaits(w) \/ Probe(w) \/ FinishProbe(w)
          \/ Attempt(w) \/ FinishAttempt(w) \/ Restart(w) \/ Crash(w)
        BY <2>1 DEF Poll, ProbeOrFinish, OtherAttempt, ReportToCircuit, WorkerCrashes
    <3> QED
        BY <1>0, <3>1, WorkerInCircuit
  <2>2. CASE LookExhausted(w) \/ Claim(w) \/ Send(w) \/ ReportToOutbox(w)
    <3>1. UNCHANGED <<state, due, beat, current, up, overtaken, faults>>
        BY <2>2 DEF LookExhausted, Claim, Send, ReportToOutbox, KeepCircuit, vars
    <3>2. \/ pc' = pc
          \/ \E place \in {"idle", "failed"} : pc' = [pc EXCEPT ![w] = place]
        BY <2>2 DEF LookExhausted, Claim, Send, ReportToOutbox, Return, vars
    <3>3. \A v \in Workers : Probing(v)' => Probing(v)
        BY <1>0, <3>2 DEF Probing
    <3> QED
        BY <1>0, <3>1, <3>3, ProbesKept DEF CircuitRight
  <2> QED
      BY <1>1, <2>1, <2>2 DEF NoticeWork
<1>2. CASE \/ CircuitTime
           \/ \E n \in Notices : BeginReset(n) \/ Issue(n) \/ NoticeDeadline(n) \/ NoticeLeaseRunsOut(n)
           \/ ContactRetires
           \/ UNCHANGED allVars
  <2>1. /\ UNCHANGED <<state, pc, current>>
        /\ due' \in {due, TRUE} /\ beat' \subseteq beat /\ up' \in {up, ~up}
        /\ faults' = faults \/ (faults < MaxFaults /\ faults' = faults + 1)
    <3>1. CASE DeadlinePasses \/ LeaseRunsOut
        BY <3>1 DEF DeadlinePasses, LeaseRunsOut
    <3>2. CASE ProviderChanges \/ \E r \in Roles : HeartbeatLapses(r)
        BY <3>2 DEF ProviderChanges, HeartbeatLapses
    <3>3. CASE \E n \in Notices : BeginReset(n) \/ Issue(n) \/ NoticeDeadline(n) \/ NoticeLeaseRunsOut(n)
        BY <3>3 DEF BeginReset, Issue, NoticeDeadline, NoticeLeaseRunsOut, vars
    <3>4. CASE ContactRetires \/ UNCHANGED allVars
        BY <3>4 DEF ContactRetires, allVars, vars
    <3> QED
        BY <1>2, <3>1, <3>2, <3>3, <3>4 DEF CircuitTime
  <2>3. faults' \in 0 .. MaxFaults
      BY <2>1, CircuitFaultsAssumption DEF CircuitRight
  <2>4. due' \in BOOLEAN /\ beat' \subseteq Roles /\ up' \in BOOLEAN
      BY <2>1 DEF CircuitRight
  <2>2. \A v \in Workers : Probing(v)' => Probing(v)
      BY <2>1 DEF Probing
  <2> QED
      BY <1>0, <2>1, <2>2, <2>3, <2>4, ProbesKept DEF CircuitRight
<1> QED
    BY <1>1, <1>2 DEF NoticeNext

\* Circuit, rows and jobs are well typed, a live permit to probe is for the circuit as it is,
\* and the probe has one owner (_prepare_provider_probe replaces the token under the row lock).
LEMMA NoticeTypesHold == NoticeSpec => []NoticeTypeOK
<1> DEFINE Inv == CircuitRight /\ AgreeInv /\ contact \in BOOLEAN
<1>1. NoticeInit => Inv
  <2> SUFFICES ASSUME NoticeInit PROVE CircuitRight /\ contact \in BOOLEAN
      BY InitAgrees
  <2>1. PermitsApart
      BY DEF NoticeInit, Init, PermitsApart, Places
  <2>2. ProbesRight
      BY DEF NoticeInit, Init, ProbesRight, Probes
  <2>3. faults \in 0 .. MaxFaults
      BY CircuitFaultsAssumption DEF NoticeInit, Init
  <2> QED
      BY <2>1, <2>2, <2>3 DEF NoticeInit, Init, CircuitRight
<1>2. Inv /\ [NoticeNext]_allVars => Inv'
  <2> SUFFICES ASSUME contact \in BOOLEAN, [NoticeNext]_allVars PROVE contact' \in BOOLEAN
      BY NextCircuit, NextAgrees
  <2> QED
      BY DEF NoticeNext, NoticeWork, Poll, ProbeOrFinish, OtherAttempt, LookExhausted, Claim, Send,
             ReportToCircuit, ReportToOutbox, WorkerCrashes, CircuitTime, BeginReset, Issue, NoticeDeadline,
             NoticeLeaseRunsOut, ContactRetires, allVars, noticeVars
<1>3. Inv => NoticeTypeOK
    BY CircuitRightTyped DEF AgreeInv, NoticeTypes, NoticeTypeOK
<1> QED
    BY <1>1, <1>2, <1>3, PTL DEF NoticeSpec

\* What the tables say of a notice agrees, however its workers overlap, die or come late
\* (security_notifications.py: claim, finish and failure lock the row and compare the lease).
THEOREM NoticesAgreeHolds == NoticeSpec => []NoticesAgree
<1>1. AgreeInv /\ NoticeTypeOK => NoticesAgree
  <2> SUFFICES ASSUME AgreeInv, NoticeTypeOK, NEW n \in Notices
               PROVE  /\ RowAgrees(n)
                      /\ mails[n] + Cardinality({w \in Notifiers : Doing(w, "claimed") /\ WorksOn(w, n)})
                            <= notice[n].attempts
      BY DEF NoticesAgree, RowAgrees
  <2> QED
      BY SendersAreClaimants DEF AgreeInv, Paid
<1> QED
    BY <1>1, InitAgrees, NextAgrees, NoticeTypesHold, PTL DEF NoticeSpec

-----------------------------------------------------------------------------
(* Reports and leases.                                                       *)

\* A leased row is moved by the report of its owner, or its lease runs out.
OwnerMoves(n) ==
    LeaseInUse(n) /\ ~notice[n].due /\ notice'[n] # notice[n] =>
       \/ notice'[n] = [notice[n] EXCEPT !.due = TRUE]
       \/ Doing(notice[n].owner, "accepted") /\ notice'[n].state = "delivered"
       \/ \E result \in Results \ {"accepted"} :
             /\ Doing(notice[n].owner, result)
             /\ notice'[n].state \in {"pending", "delivery_failed"}

\* What is saved passes the database's guard, in one save or in two.
GuardPasses(n) ==
    \/ NoticeGuard(notice[n], notice'[n])
    \/ /\ ~contact
       /\ \E w \in Notifiers : /\ NoticeGuard(notice[n], Claimed(notice[n], w))
                               /\ NoticeGuard(Claimed(notice[n], w), notice'[n])

RowsRespected == \A n \in Notices : OwnerMoves(n) /\ GuardPasses(n)

\* A step that moves at most one row respects the others.
LEMMA OneRowMoves ==
    ASSUME notice \in [Notices -> Rows], NEW n \in Notices, NEW row,
           notice' = [notice EXCEPT ![n] = row], OwnerMoves(n), GuardPasses(n)
    PROVE  RowsRespected
<1> SUFFICES ASSUME NEW m \in Notices, m # n
             PROVE  OwnerMoves(m) /\ GuardPasses(m)
    BY DEF RowsRespected
<1>1. notice'[m] = notice[m]
    OBVIOUS
<1> QED
    BY <1>1 DEF OwnerMoves, GuardPasses, NoticeGuard

LEMMA RowsStill == notice' = notice => RowsRespected
    BY DEF RowsRespected, OwnerMoves, GuardPasses, NoticeGuard

LEMMA LookRespects ==
    ASSUME AgreeInv, NEW w \in Notifiers, LookExhausted(w)
    PROVE  RowsRespected
<1>1. ASSUME NEW n \in Notices, Exhausted(notice[n]), Write(n, Failed(notice[n]))
      PROVE  RowsRespected
  <2>1. notice \in [Notices -> Rows] /\ notice[n] \in Rows
      BY DEF AgreeInv, NoticeTypes
  <2>2. notice' = [notice EXCEPT ![n] = Failed(notice[n])]
      BY <1>1 DEF Write
  <2>3. notice'[n].state = "delivery_failed" /\ notice[n].state = "leased" /\ notice[n].due
      BY <1>1, <2>1, <2>2, FailedRow DEF Exhausted
  <2>4. OwnerMoves(n) /\ GuardPasses(n)
      BY <2>3 DEF OwnerMoves, GuardPasses, NoticeGuard
  <2> QED
      BY <2>1, <2>2, <2>4, OneRowMoves
<1> QED
    BY <1>1, RowsStill DEF LookExhausted

\* A claim is of a row whose deadline has passed; one that meets a retired contact saves the
\* row as leased first.
LEMMA ClaimRespects ==
    ASSUME AgreeInv, NEW w \in Notifiers, Claim(w)
    PROVE  RowsRespected
<1>1. ASSUME NEW n \in Notices, Claimable(notice[n]),
             \/ notice' = [notice EXCEPT ![n] = Claimed(notice[n], w)]
             \/ ~contact /\ notice' = [notice EXCEPT ![n] = Failed(Claimed(notice[n], w))]
      PROVE  RowsRespected
  <2>1. notice \in [Notices -> Rows] /\ notice[n] \in Rows
      BY DEF AgreeInv, NoticeTypes
  <2>2. /\ notice[n].due /\ notice[n].state \in {"pending", "leased"}
        /\ Claimed(notice[n], w) \in Rows /\ Claimed(notice[n], w).state = "leased"
      BY <1>1, <2>1, ClaimedRow DEF Claimable
  <2>3. Failed(Claimed(notice[n], w)).state = "delivery_failed"
      BY <2>2, FailedRow
  <2>4. OwnerMoves(n)
      BY <2>2 DEF OwnerMoves
  <2>5. NoticeGuard(notice[n], Claimed(notice[n], w))
      BY <2>2 DEF NoticeGuard
  <2>6. NoticeGuard(Claimed(notice[n], w), Failed(Claimed(notice[n], w)))
      BY <2>2, <2>3 DEF NoticeGuard
  <2>7. CASE notice' = [notice EXCEPT ![n] = Claimed(notice[n], w)]
    <3>1. notice'[n] = Claimed(notice[n], w)
        BY <2>1, <2>7
    <3>2. GuardPasses(n)
        BY <2>5, <3>1 DEF GuardPasses
    <3> QED
        BY <2>1, <2>4, <2>7, <3>2, OneRowMoves
  <2>8. CASE ~contact /\ notice' = [notice EXCEPT ![n] = Failed(Claimed(notice[n], w))]
    <3>1. notice'[n] = Failed(Claimed(notice[n], w))
        BY <2>1, <2>8
    <3>2. GuardPasses(n)
        BY <2>5, <2>6, <2>8, <3>1 DEF GuardPasses
    <3> QED
        BY <2>1, <2>4, <2>8, <3>2, OneRowMoves
  <2> QED
      BY <1>1, <2>7, <2>8
<1> QED
    BY <1>1, RowsStill DEF Claim, Write

\* The claim that reports is the claim that owns the row.
LEMMA ReportRespects ==
    ASSUME AgreeInv, NEW w \in Notifiers, ReportToOutbox(w)
    PROVE  RowsRespected
<1>1. job[w] \in Jobs /\ job[w].step \in Results
    BY DEF ReportToOutbox, Doing, AgreeInv, NoticeTypes
<1>2. PICK n \in Notices : n = job[w].notice
    BY <1>1, JobShape
<1>3. CASE Holds(w, notice[n]) /\ Write(n, Reported(notice[n], job[w].step))
  <2>1. notice \in [Notices -> Rows] /\ notice[n] \in Rows
      BY DEF AgreeInv, NoticeTypes
  <2>2. notice' = [notice EXCEPT ![n] = Reported(notice[n], job[w].step)]
      BY <1>3 DEF Write
  <2>3. notice'[n] = Reported(notice[n], job[w].step)
      BY <2>1, <2>2
  <2>4. notice[n].state = "leased" /\ notice[n].owner = w
      BY <1>3 DEF Holds
  <2>5. Failed(notice[n]).state = "delivery_failed"
      BY <2>1, FailedRow
  <2>6. IF job[w].step = "accepted" THEN notice'[n].state = "delivered"
                                    ELSE notice'[n].state \in {"pending", "delivery_failed"}
      BY <2>1, <2>3, <2>5 DEF Reported, Rows
  <2>7. Doing(w, job[w].step)
      BY DEF Doing
  <2>8. OwnerMoves(n)
      BY <1>1, <2>4, <2>6, <2>7 DEF OwnerMoves
  <2>9. GuardPasses(n)
      BY <2>4, <2>6 DEF GuardPasses, NoticeGuard
  <2> QED
      BY <2>1, <2>2, <2>8, <2>9, OneRowMoves
<1>4. CASE notice' = notice
    BY <1>4, RowsStill
<1> QED
    BY <1>2, <1>3, <1>4 DEF ReportToOutbox

LEMMA OutsideRespects ==
    ASSUME AgreeInv, NEW n \in Notices,
           BeginReset(n) \/ Issue(n) \/ NoticeDeadline(n) \/ NoticeLeaseRunsOut(n)
    PROVE  RowsRespected
<1>1. notice \in [Notices -> Rows] /\ notice[n] \in Rows
    BY DEF AgreeInv, NoticeTypes
<1>2. CASE BeginReset(n) \/ Issue(n)
  <2>1. notice[n].state \in NoRowYet
      BY <1>2 DEF BeginReset, Issue, NoRow, NoRowYet
  <2>2. PICK row : notice' = [notice EXCEPT ![n] = row]
    <3>1. CASE BeginReset(n)
        BY <3>1 DEF BeginReset
    <3>2. CASE Issue(n)
      <4>1. notice' = [notice EXCEPT ![n] = [notice[n] EXCEPT !.state = "pending", !.due = TRUE]]
          BY <1>1, <3>2 DEF Issue
      <4> QED
          BY <4>1
    <3> QED
        BY <1>2, <3>1, <3>2
  <2>3. OwnerMoves(n) /\ GuardPasses(n)
      BY <2>1 DEF OwnerMoves, GuardPasses, NoticeGuard, LeaseInUse, NoRowYet
  <2> QED
      BY <1>1, <2>2, <2>3, OneRowMoves
<1>3. CASE NoticeDeadline(n) \/ NoticeLeaseRunsOut(n)
  <2>1. /\ notice' = [notice EXCEPT ![n] = [notice[n] EXCEPT !.due = TRUE]]
        /\ notice[n].state \in {"pending", "leased"}
      BY <1>3 DEF NoticeDeadline, NoticeLeaseRunsOut, LeaseInUse
  <2>2. notice'[n] = [notice[n] EXCEPT !.due = TRUE]
      BY <1>1, <2>1
  <2>3. notice'[n].state = notice[n].state
      BY <1>1, <2>2 DEF Rows
  <2>4. OwnerMoves(n) /\ GuardPasses(n)
      BY <2>1, <2>2, <2>3 DEF OwnerMoves, GuardPasses, NoticeGuard
  <2> QED
      BY <1>1, <2>1, <2>4, OneRowMoves
<1> QED
    BY <1>2, <1>3

LEMMA NextRespects == AgreeInv /\ [NoticeNext]_allVars => RowsRespected
<1> SUFFICES ASSUME AgreeInv, [NoticeNext]_allVars
             PROVE  RowsRespected
    OBVIOUS
<1>1. ASSUME NEW w \in Workers, NoticeWork(w) \/ WorkerCrashes(w)
      PROVE  RowsRespected
  <2>1. CASE \/ Poll(w) \/ ProbeOrFinish(w) \/ OtherAttempt(w) \/ ReportToCircuit(w)
             \/ Send(w) \/ WorkerCrashes(w)
    <3>1. notice' = notice
        BY <2>1 DEF Poll, ProbeOrFinish, OtherAttempt, ReportToCircuit, Send, WorkerCrashes, noticeVars
    <3> QED
        BY <3>1, RowsStill
  <2>2. CASE LookExhausted(w) \/ Claim(w) \/ ReportToOutbox(w)
    <3>1. w \in Notifiers
        BY <2>2, Zenon DEF LookExhausted, Claim, ReportToOutbox, Doing
    <3> QED
        BY <2>2, <3>1, LookRespects, ClaimRespects, ReportRespects
  <2> QED
      BY <1>1, <2>1, <2>2 DEF NoticeWork
<1>2. CASE CircuitTime \/ ContactRetires \/ UNCHANGED allVars
    BY <1>2, RowsStill DEF CircuitTime, ContactRetires, allVars, noticeVars
<1> QED
    BY <1>1, <1>2, OutsideRespects DEF NoticeNext

\* While its lease is good a notice is moved only by the worker that claimed it, and no save
\* of a late worker is one the database refuses (security_notifications.py, _finish and
\* _record_security_notification_failure compare the lease under the row lock; migration 0008).
THEOREM ReportsRespectRowsHold == NoticeSpec => ReportsRespectRows
<1>1. NoticeSpec => [][RowsRespected]_allVars
    BY InitAgrees, NextAgrees, NextRespects, PTL DEF NoticeSpec
<1>2. RowsRespected =>
         \A n \in Notices :
          LET old == notice[n]
              new == notice'[n]
          IN  /\ LeaseInUse(n) /\ ~old.due /\ new # old =>
                    \/ new = [old EXCEPT !.due = TRUE]
                    \/ Doing(old.owner, "accepted") /\ new.state = "delivered"
                    \/ \E result \in Results \ {"accepted"} :
                          /\ Doing(old.owner, result)
                          /\ new.state \in {"pending", "delivery_failed"}
              /\ \/ NoticeGuard(old, new)
                 \/ /\ ~contact
                    /\ \E w \in Notifiers :
                          /\ NoticeGuard(old, Claimed(old, w))
                          /\ NoticeGuard(Claimed(old, w), new)
    BY DEF RowsRespected, OwnerMoves, GuardPasses
<1> QED
    BY <1>1, <1>2, PTL DEF ReportsRespectRows
=============================================================================
