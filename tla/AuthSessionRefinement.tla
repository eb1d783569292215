------------------------- MODULE AuthSessionRefinement -------------------------
(***************************************************************************)
(* AuthSession implements SessionLifecycle, and a retry of a refresh keeps  *)
(* its result: two theorems about what a step may do, from the types, from   *)
(* Coherent and from OneSuccessor (AuthSessionProofs).                      *)
(***************************************************************************)
EXTENDS AuthSessionProofs

-----------------------------------------------------------------------------
(* The refinement.                                                           *)

\* The rows of a session honour the current generation while it is active, and no other.
HonoursCurrent ==
    \A s \in Sessions : Honoured(s) = IF sess[s] = "active" THEN {gen[s]} ELSE {}

LEMMA CoherentHonours == TypeOK /\ Coherent => HonoursCurrent
  <1> SUFFICES ASSUME TypeOK, Coherent, NEW s \in Sessions
               PROVE  Honoured(s) = IF sess[s] = "active" THEN {gen[s]} ELSE {}
    BY DEF HonoursCurrent
  <1>1. CASE sess[s] # "active"
    BY <1>1, EndedHonoursNothing DEF Honoured
  <1>2. CASE sess[s] = "active"
    <2>1. CoherentSession(s) /\ gen[s] \in 0 .. MaxGen /\ gen[s] # 0
      BY <1>2 DEF Coherent, CoherentSession, TypeOK
    <2>2. gen[s] \in Gens
      BY <2>1, MaxGenAssumption DEF Gens
    <2>3. \A g \in Gens : cred[s][g] = "active" <=> g = gen[s]
      BY <1>2, <2>1, MaxGenAssumption DEF CoherentSession, Gens
    <2>4. QED
      BY <1>2, <2>2, <2>3 DEF Honoured
  <1>3. QED
    BY <1>1, <1>2

LEMMA InitPromised == Init => Promise!Init
  <1> SUFFICES ASSUME Init PROVE Promise!Init
    OBVIOUS
  <1>1. \A s \in Sessions : Phase(s) = "new" /\ Honoured(s) = {}
    BY DEF Init, Phase, Honoured
  <1>2. gen = [s \in Sessions |-> 0]
    BY DEF Init
  <1>3. QED
    BY <1>1, <1>2 DEF Promise!Init

\* A step that leaves states and generations alone shows nothing.
LEMMA ShowsNothing ==
    ASSUME HonoursCurrent, HonoursCurrent', sess' = sess, gen' = gen
    PROVE  UNCHANGED Promise!lifecycle
  <1>1. \A s \in Sessions : Honoured(s)' = Honoured(s)
    BY DEF HonoursCurrent
  <1>2. \A s \in Sessions : Phase(s)' = Phase(s)
    BY DEF Phase
  <1>3. QED
    BY <1>1, <1>2 DEF Promise!lifecycle

LEMMA LoginOpens ==
    ASSUME TypeOK, HonoursCurrent, HonoursCurrent', NEW s \in Sessions, LoginCommit(s)
    PROVE  Promise!Open(s)
  <1>1. /\ sess[s] = "none" /\ sess'[s] = "active"
        /\ gen' = [gen EXCEPT ![s] = 1] /\ gen'[s] = 1
        /\ \A x \in Sessions \ {s} : sess'[x] = sess[x] /\ gen'[x] = gen[x]
    BY DEF LoginCommit, TypeOK
  <1>2. /\ Phase(s) = "new" /\ Phase(s)' = "open"
        /\ \A x \in Sessions \ {s} : Phase(x)' = Phase(x)
    BY <1>1 DEF Phase
  <1>3. /\ Honoured(s)' = {1}
        /\ \A x \in Sessions \ {s} : Honoured(x)' = Honoured(x)
    BY <1>1 DEF HonoursCurrent
  <1>4. QED
    BY <1>1, <1>2, <1>3 DEF Promise!Open

LEMMA RotationExchanges ==
    ASSUME TypeOK, HonoursCurrent, HonoursCurrent', NEW s \in Sessions, NEW g \in Gens,
           NEW k \in Keys, RefreshRotates(s, g, k)
    PROVE  Promise!Exchange(s)
  <1>1. /\ sess[s] = "active" /\ sess' = sess
        /\ gen' = [gen EXCEPT ![s] = gen[s] + 1] /\ gen'[s] = gen[s] + 1
        /\ \A x \in Sessions \ {s} : gen'[x] = gen[x]
    BY DEF RefreshRotates, RefreshAllowed, Current, TypeOK
  <1>2. /\ Phase(s) = "open"
        /\ \A x \in Sessions : Phase(x)' = Phase(x)
    BY <1>1 DEF Phase
  <1>3. /\ Honoured(s)' = {gen[s] + 1}
        /\ \A x \in Sessions \ {s} : Honoured(x)' = Honoured(x)
    BY <1>1 DEF HonoursCurrent
  <1>4. QED
    BY <1>1, <1>2, <1>3 DEF Promise!Exchange

\* Every convergence closes the sessions of its scope that are still active: none or several.
LEMMA ConvergenceCloses ==
    ASSUME TypeOK, HonoursCurrent, HonoursCurrent', NEW S, NEW target \in Ended, NEW why,
           Converge(S, target, why), gen' = gen
    PROVE  \E C \in SUBSET Sessions : Promise!Close(C)
  <1> DEFINE C == {s \in Sessions : s \in S /\ sess[s] = "active"}
  <1>1. \A s \in Sessions : sess'[s] = IF s \in C THEN target ELSE sess[s]
    BY DEF Converge
  <1>2. \A s \in C : Phase(s) = "open"
    BY DEF Phase
  <1>3. \A s \in Sessions : Phase(s)' = IF s \in C THEN "closed" ELSE Phase(s)
    BY <1>1 DEF Phase, Ended
  <1>4. \A s \in Sessions : Honoured(s)' = IF s \in C THEN {} ELSE Honoured(s)
    BY <1>1 DEF HonoursCurrent, Ended
  <1>5. C \subseteq Sessions
    OBVIOUS
  <1> HIDE DEF C
  <1>6. Promise!Close(C)
    BY <1>2, <1>3, <1>4, <1>5 DEF Promise!Close
  <1>7. QED
    BY <1>5, <1>6

LEMMA NextPromised ==
    TypeOK /\ HonoursCurrent /\ HonoursCurrent' /\ [Next]_vars => [Promise!Next]_(Promise!lifecycle)
  <1> SUFFICES ASSUME TypeOK, HonoursCurrent, HonoursCurrent', [Next]_vars
               PROVE  Promise!Next \/ UNCHANGED Promise!lifecycle
    OBVIOUS
  <1>1. ASSUME NEW s \in Sessions, LoginCommit(s)
        PROVE  Promise!Next
    BY <1>1, LoginOpens DEF Promise!Next
  <1>2. ASSUME NEW s \in Sessions, NEW g \in Gens, NEW k \in Keys, RefreshRotates(s, g, k)
        PROVE  Promise!Next
    BY <1>2, RotationExchanges DEF Promise!Next
  <1>3. ASSUME NEW s \in Sessions, NEW g \in Gens, NEW k \in Keys,
               RefreshReplayed(s, g, k) \/ RefreshRefused(s, g, k)
        PROVE  Promise!Next
    BY <1>3, ConvergenceCloses DEF RefreshReplayed, RefreshRefused, Ended, Promise!Next
  <1>4. ASSUME NEW S \in SUBSET Sessions, Logout(S)
        PROVE  Promise!Next
    BY <1>4, ConvergenceCloses DEF Logout, Ended, Promise!Next
  <1>5. ASSUME NEW u \in Users, ResetPassword(u)
        PROVE  Promise!Next
    BY <1>5, ConvergenceCloses DEF ResetPassword, Ended, Promise!Next
  <1>6. CASE UNCHANGED sessionVars
    BY <1>6, ShowsNothing DEF sessionVars
  <1>7. QED
    BY <1>1, <1>2, <1>3, <1>4, <1>5, <1>6
       DEF Next, Refresh, LoginBegin, LoginRejected, ExpiryPasses, SetLifecycle, ToggleEnabled, vars

\* The operations of services.py implement the promise of SessionLifecycle: a login opens, a
\* rotation exchanges, every convergence closes what is still open, and all else shows nothing.
THEOREM Implements == Spec => ImplementsLifecycle
  <1>1. QED
    BY InitPromised, NextPromised, CoherentHonours, TypeCorrect, CoherenceHolds, PTL
       DEF Spec, ImplementsLifecycle, Promise!Spec

-----------------------------------------------------------------------------
(* A retry keeps its result.                                                 *)

\* A record names a credential that was issued.
RecordsIssued ==
    \A s \in Sessions, k \in Keys :
        Recorded(s, k) => terminal[s][k].hash \in Gens /\ Issued(s, terminal[s][k].hash)

\* What a step leaves of the session x.
OnlyForward(x) ==
    /\ gen'[x] >= gen[x]
    /\ \A g \in Gens : Issued(x, g) => Issued(x, g)'
    /\ \A k \in Keys :
          \/ terminal'[x][k] = terminal[x][k]
          \/ /\ terminal[x][k] = NoTerminal
             /\ terminal'[x][k].hash \in Gens
             /\ Issued(x, terminal'[x][k].hash)

LEMMA ConvergeForward ==
    ASSUME TypeOK, NEW S, NEW target, NEW why, Converge(S, target, why), NEW x \in Sessions,
           NEW g \in Gens, Issued(x, g)
    PROVE  Issued(x, g)'
  <1>1. cred[x] \in [Gens -> CredState] /\ (cred'[x] = cred[x] \/ cred'[x] = Revoked(cred[x]))
    BY DEF TypeOK, Converge
  <1>2. QED
    BY <1>1, RevokedType DEF Issued

LEMMA NextForward ==
    ASSUME TypeOK, Coherent, [Next]_vars, NEW x \in Sessions
    PROVE  OnlyForward(x)
  <1> USE MaxGenAssumption
  <1>1. ASSUME gen'[x] = gen[x], cred'[x] = cred[x], terminal'[x] = terminal[x]
        PROVE  OnlyForward(x)
    BY <1>1 DEF OnlyForward, Issued, TypeOK
  <1>2. ASSUME NEW s \in Sessions, LoginCommit(s)
        PROVE  OnlyForward(x)
    <2>1. CASE x = s
      <3>1. gen[x] = 0 /\ gen'[x] = 1 /\ terminal' = terminal
        BY <1>2, <2>1 DEF LoginCommit, Coherent, CoherentSession, TypeOK
      <3>2. \A g \in Gens : cred'[x][g] \in {cred[x][g], "active"}
        BY <1>2, <2>1 DEF LoginCommit, TypeOK
      <3>3. QED
        BY <3>1, <3>2 DEF OnlyForward, Issued
    <2>2. CASE x # s
      BY <1>1, <1>2, <2>2 DEF LoginCommit, TypeOK
    <2>3. QED
      BY <2>1, <2>2
  <1>3. ASSUME NEW s \in Sessions, NEW g \in Gens, NEW k \in Keys, RefreshRotates(s, g, k)
        PROVE  OnlyForward(x)
    <2>1. CASE x = s
      <3>1. gen[x] \in Nat /\ gen'[x] = gen[x] + 1
        BY <1>3, <2>1 DEF RefreshRotates, Current, TypeOK
      <3>2. \A h \in Gens : cred'[x][h] \in {cred[x][h], "used", "active"}
        BY <1>3, <2>1 DEF RefreshRotates, Rotate, TypeOK
      <3>3. /\ terminal[x][k] = NoTerminal /\ terminal'[x][k].hash = g /\ Issued(x, g)
            /\ \A j \in Keys \ {k} : terminal'[x][j] = terminal[x][j]
        BY <1>3, <2>1 DEF RefreshRotates, NewRequest, Recorded, Record, TypeOK
      <3>4. \A h \in Gens : Issued(x, h) => Issued(x, h)'
        BY <3>2 DEF Issued
      <3>5. QED
        BY <3>1, <3>3, <3>4 DEF OnlyForward
    <2>2. CASE x # s
      BY <1>1, <1>3, <2>2 DEF RefreshRotates, Record, TypeOK
    <2>3. QED
      BY <2>1, <2>2
  <1>4. ASSUME NEW S, NEW target, NEW why, Converge(S, target, why), gen' = gen
        PROVE  gen'[x] >= gen[x] /\ \A h \in Gens : Issued(x, h) => Issued(x, h)'
    BY <1>4, ConvergeForward DEF TypeOK
  <1>5. ASSUME NEW s \in Sessions, NEW g \in Gens, NEW k \in Keys,
               RefreshReplayed(s, g, k) \/ RefreshRefused(s, g, k)
        PROVE  OnlyForward(x)
    <2>1. NewRequest(s, g, k) /\ Record(s, k, g, 0)
      BY <1>5 DEF RefreshReplayed, RefreshRefused
    <2>2. gen'[x] >= gen[x] /\ \A h \in Gens : Issued(x, h) => Issued(x, h)'
      BY <1>5, <1>4 DEF RefreshReplayed, RefreshRefused
    <2>3. CASE x = s
      <3>1. /\ terminal[x][k] = NoTerminal /\ terminal'[x][k].hash = g /\ Issued(x, g)
            /\ \A j \in Keys \ {k} : terminal'[x][j] = terminal[x][j]
        BY <2>1, <2>3 DEF NewRequest, Recorded, Record, TypeOK
      <3>2. QED
        BY <2>2, <3>1 DEF OnlyForward
    <2>4. CASE x # s
      <3>1. terminal'[x] = terminal[x]
        BY <2>1, <2>4 DEF Record, TypeOK
      <3>2. QED
        BY <2>2, <3>1 DEF OnlyForward
    <2>5. QED
      BY <2>3, <2>4
  <1>6. ASSUME NEW S \in SUBSET Sessions, Logout(S)
        PROVE  OnlyForward(x)
    BY <1>4, <1>6 DEF Logout, OnlyForward
  <1>7. ASSUME NEW u \in Users, ResetPassword(u)
        PROVE  OnlyForward(x)
    BY <1>4, <1>7 DEF ResetPassword, OnlyForward
  <1>8. CASE UNCHANGED sessionVars
    BY <1>1, <1>8 DEF sessionVars
  <1>9. QED
    BY <1>2, <1>3, <1>5, <1>6, <1>7, <1>8
       DEF Next, Refresh, LoginBegin, LoginRejected, ExpiryPasses, SetLifecycle, ToggleEnabled, vars

LEMMA InitRecordsIssued == Init => RecordsIssued
  <1> SUFFICES ASSUME Init PROVE RecordsIssued
    OBVIOUS
  <1>1. \A s \in Sessions, k \in Keys : terminal[s][k] = NoTerminal
    BY DEF Init
  <1>2. QED
    BY <1>1 DEF RecordsIssued, Recorded

LEMMA NextRecordsIssued ==
    TypeOK /\ Coherent /\ RecordsIssued /\ [Next]_vars => RecordsIssued'
  <1> SUFFICES ASSUME TypeOK, Coherent, RecordsIssued, [Next]_vars,
                      NEW s \in Sessions, NEW k \in Keys, Recorded(s, k)'
               PROVE  (terminal[s][k].hash \in Gens /\ Issued(s, terminal[s][k].hash))'
    BY DEF RecordsIssued
  <1>1. OnlyForward(s)
    BY NextForward
  <1>2. CASE terminal'[s][k] = terminal[s][k]
    <2>1. terminal[s][k].hash \in Gens /\ Issued(s, terminal[s][k].hash)
      BY <1>2 DEF Recorded, RecordsIssued
    <2>2. QED
      BY <1>1, <1>2, <2>1 DEF OnlyForward, Issued
  <1>3. CASE terminal'[s][k] # terminal[s][k]
    <2>1. terminal'[s][k].hash \in Gens /\ Issued(s, terminal'[s][k].hash)
      BY <1>1, <1>3 DEF OnlyForward
    <2>2. QED
      BY <1>1, <2>1 DEF OnlyForward, Issued
  <1>4. QED
    BY <1>2, <1>3

\* A successor that is no longer current never is again: the family goes on or has ended.
LEMMA SupersededForGood ==
    ASSUME TypeOK, Coherent, Coherent', TypeOK', [Next]_vars, NEW s \in Sessions,
           NEW h \in Gens, h <= gen[s], ~Current(s, h)
    PROVE  ~Current(s, h)'
  <1>1. gen[s] \in Nat /\ gen'[s] \in Nat /\ gen'[s] >= gen[s] /\ h \in Nat
    BY NextForward, MaxGenAssumption DEF OnlyForward, TypeOK, Gens
  <1>2. CASE h < gen'[s]
    BY <1>1, <1>2 DEF Current
  <1>3. CASE h = gen'[s]
    <2>1. h = gen[s] /\ gen[s] # 0
      BY <1>1, <1>3, MaxGenAssumption DEF Gens
    <2>2. sess[s] \in Ended
      BY <2>1 DEF Current, Coherent, CoherentSession, TypeOK, SessionState, Ended
    <2>3. \A g \in Gens : cred'[s][g] # "active"
      BY <2>2, NextKeepsEnded DEF EndedIsKept
    <2>4. QED
      BY <2>3 DEF Current
  <1>4. QED
    BY <1>1, <1>2, <1>3

\* What the retry of a recorded request is answered, whatever the rows are by now.
RetriesAnswered ==
    \A s \in Sessions, k \in Keys : Recorded(s, k) =>
        LET t == terminal[s][k] IN
        Answer(s, t.hash, k) =
            IF t.succ = 0 THEN Failure("SESSION_REVOKED")
            ELSE IF ~Current(s, t.succ) THEN Failure("REFRESH_REQUEST_SUPERSEDED")
            ELSE IF account[Owner(s)] = "active" /\ sess[s] = "active" /\ ~late[s]
            THEN Success(t.succ) ELSE Failure("SESSION_REVOKED")

LEMMA IssuedAnswered == RecordsIssued => RetriesAnswered
  <1> SUFFICES ASSUME RecordsIssued PROVE RetriesAnswered
    OBVIOUS
  <1>1. \A s \in Sessions, k \in Keys : Recorded(s, k) => Issued(s, terminal[s][k].hash)
    BY DEF RecordsIssued
  <1>2. QED
    BY <1>1 DEF RetriesAnswered, Answer, RecordedAnswer

\* The body of RetryIsStable.
RetryKeeps(s, k) ==
    LET t == terminal[s][k]
        before == Answer(s, t.hash, k)
        after == Answer(s, t.hash, k)'
    IN  Recorded(s, k) =>
           /\ after.code = "OK" => after.succ = t.succ
           /\ t.succ = 0 => after.code = "SESSION_REVOKED"
           /\ before.code = "REFRESH_REQUEST_SUPERSEDED" => after = before

LEMMA NextRetryKeeps ==
    ASSUME TypeOK, TypeOK', Coherent, Coherent', OneSuccessor, RetriesAnswered, RetriesAnswered',
           [Next]_vars, NEW s \in Sessions, NEW k \in Keys
    PROVE  RetryKeeps(s, k)
  <1> SUFFICES ASSUME Recorded(s, k) PROVE RetryKeeps(s, k)
    BY DEF RetryKeeps
  <1> DEFINE t      == terminal[s][k]
             before == Answer(s, t.hash, k)
             after  == Answer(s, t.hash, k)'
             kept   == account'[Owner(s)'] = "active" /\ sess'[s] = "active" /\ ~late'[s]
  <1>1. terminal'[s][k] = terminal[s][k] /\ Recorded(s, k)'
    BY NextForward DEF OnlyForward, Recorded
  <1>2. before = IF t.succ = 0 THEN Failure("SESSION_REVOKED")
                 ELSE IF ~Current(s, t.succ) THEN Failure("REFRESH_REQUEST_SUPERSEDED")
                 ELSE IF account[Owner(s)] = "active" /\ sess[s] = "active" /\ ~late[s]
                 THEN Success(t.succ) ELSE Failure("SESSION_REVOKED")
    BY DEF RetriesAnswered
  <1>3. after = IF t.succ = 0 THEN Failure("SESSION_REVOKED")
                ELSE IF ~Current(s, t.succ)' THEN Failure("REFRESH_REQUEST_SUPERSEDED")
                ELSE IF kept THEN Success(t.succ) ELSE Failure("SESSION_REVOKED")
    BY <1>1 DEF RetriesAnswered, Failure, Success, Owner
  <1>4. t.succ # 0 /\ ~Current(s, t.succ) => ~Current(s, t.succ)'
    <2> SUFFICES ASSUME t.succ # 0, ~Current(s, t.succ)
                 PROVE  ~Current(s, t.succ)'
      OBVIOUS
    <2>1. t.succ \in 0 .. MaxGen /\ t.succ <= gen[s]
      BY DEF OneSuccessor, TypeOK, Terminal
    <2>2. t.succ \in Gens
      BY <2>1, MaxGenAssumption DEF Gens
    <2>3. \A h \in Gens : h <= gen[s] /\ ~Current(s, h) => ~Current(s, h)'
      BY SupersededForGood
    <2>4. ~cred'[s][t.succ] = "active" \/ t.succ # gen'[s]
      BY <2>1, <2>2, <2>3 DEF Current
    <2>5. QED
      BY <1>1, <2>4 DEF Current
  <1> HIDE DEF before, after, kept
  <1>5. /\ after.code = "OK" => after.succ = t.succ
        /\ t.succ = 0 => after.code = "SESSION_REVOKED"
        /\ before.code = "REFRESH_REQUEST_SUPERSEDED" => after = before
    BY <1>2, <1>3, <1>4 DEF Failure, Success
  <1>6. QED
    BY <1>5 DEF RetryKeeps, before, after

\* However late and in whatever order the same request is sent again, refresh never gives it
\* another successor, never a success for a failure, and never anything after SUPERSEDED.
THEOREM RetriesStable == Spec => RetryIsStable
  <1>1. TypeOK /\ TypeOK' /\ Coherent /\ Coherent' /\ OneSuccessor /\ RetriesAnswered
           /\ RetriesAnswered' /\ [Next]_vars => \A s \in Sessions, k \in Keys : RetryKeeps(s, k)
    BY NextRetryKeeps
  <1>2. Spec => []RecordsIssued
    BY InitRecordsIssued, NextRecordsIssued, TypeCorrect, CoherenceHolds, PTL DEF Spec
  <1>3. Spec => [][\A s \in Sessions, k \in Keys : RetryKeeps(s, k)]_vars
    BY <1>1, <1>2, IssuedAnswered, TypeCorrect, CoherenceHolds, OneSuccessorHolds, PTL DEF Spec
  <1>4. QED
    BY <1>3 DEF RetryIsStable, RetryKeeps
=============================================================================
