-------------------------- MODULE AuthSessionProofs --------------------------
(***************************************************************************)
(* Proofs about AuthSession, for every set of users, sessions and keys and *)
(* every bound on generations and resets.                                  *)
(***************************************************************************)
EXTENDS AuthSession, TLAPS

-----------------------------------------------------------------------------
(* Shape of the helpers.                                                     *)

LEMMA RevokedType ==
    ASSUME NEW c \in [Gens -> CredState]
    PROVE  /\ Revoked(c) \in [Gens -> CredState]
           /\ \A g \in Gens : Revoked(c)[g] = IF c[g] = "active" THEN "revoked" ELSE c[g]
  BY DEF Revoked, CredState

LEMMA ConvergeType ==
    ASSUME TypeOK, NEW S, NEW target \in Ended, NEW why \in Reasons, Converge(S, target, why)
    PROVE  /\ cred' \in [Sessions -> [Gens -> CredState]]
           /\ fam' \in [Sessions -> FamilyState]
           /\ sess' \in [Sessions -> SessionState]
           /\ reason' \in [Sessions -> Reasons]
  <1>1. cred' \in [Sessions -> [Gens -> CredState]]
    BY RevokedType DEF Converge, TypeOK
  <1>2. fam' \in [Sessions -> FamilyState]
    BY DEF Converge, TypeOK, FamilyState
  <1>3. sess' \in [Sessions -> SessionState] /\ reason' \in [Sessions -> Reasons]
    BY DEF Converge, TypeOK, SessionState, Ended
  <1>4. QED
    BY <1>1, <1>2, <1>3

LEMMA RecordType ==
    ASSUME TypeOK, NEW s \in Sessions, NEW k \in Keys, NEW g \in 0 .. MaxGen,
           NEW h \in 0 .. MaxGen, Record(s, k, g, h)
    PROVE  terminal' \in [Sessions -> [Keys -> Terminal]]
  BY DEF Record, TypeOK, Terminal

-----------------------------------------------------------------------------
(* Type correctness.                                                         *)

LEMMA InitTypeOK == Init => TypeOK
  <1> SUFFICES ASSUME Init PROVE TypeOK
    OBVIOUS
  <1>1. NoLogin \in Login
    BY MaxEpochAssumption DEF NoLogin, Login
  <1>2. NoTerminal \in Terminal
    BY MaxGenAssumption DEF NoTerminal, Terminal
  <1>3. /\ login \in [Sessions -> Login]
        /\ terminal \in [Sessions -> [Keys -> Terminal]]
    BY <1>1, <1>2 DEF Init
  <1>4. /\ enabled \in [Users -> BOOLEAN]
        /\ late \in [Sessions -> BOOLEAN]
    BY Zenon DEF Init
  <1>5. /\ 0 \in 0 .. MaxEpoch
        /\ 0 \in 0 .. MaxGen
    BY MaxGenAssumption, MaxEpochAssumption
  <1>6. /\ account \in [Users -> Lifecycles]
        /\ epoch \in [Users -> 0 .. MaxEpoch]
    BY <1>5, Zenon DEF Init, Lifecycles
  <1>7. /\ sess \in [Sessions -> SessionState]
        /\ reason \in [Sessions -> Reasons]
        /\ fam \in [Sessions -> FamilyState]
    BY DEF Init, SessionState, Reasons, FamilyState
  <1>8. /\ gen \in [Sessions -> 0 .. MaxGen]
        /\ cred \in [Sessions -> [Gens -> CredState]]
    BY <1>5, Zenon DEF Init, CredState
  <1>9. QED
    BY <1>3, <1>4, <1>6, <1>7, <1>8 DEF TypeOK

LEMMA RefreshTypeOK ==
    ASSUME TypeOK, NEW s \in Sessions, NEW g \in Gens, NEW k \in Keys, Refresh(s, g, k)
    PROVE  TypeOK'
  <1> USE MaxGenAssumption
  <1>0. g \in 0 .. MaxGen /\ 0 \in 0 .. MaxGen
    BY DEF Gens
  <1>1. CASE RefreshReplayed(s, g, k)
    <2>1. terminal' \in [Sessions -> [Keys -> Terminal]]
      BY <1>0, <1>1, RecordType DEF RefreshReplayed
    <2>2. Converge({s}, "revoked", "REFRESH_TOKEN_REPLAYED")
      BY <1>1 DEF RefreshReplayed
    <2>3. QED
      BY <1>1, <2>1, <2>2, ConvergeType DEF RefreshReplayed, userVars, TypeOK, Ended, Reasons
  <1>2. CASE RefreshRefused(s, g, k)
    <2>1. terminal' \in [Sessions -> [Keys -> Terminal]]
      BY <1>0, <1>2, RecordType DEF RefreshRefused
    <2>2. Converge({x \in {s} : ~RefreshAllowed(x)}, "revoked", "SESSION_REVOKED")
      BY <1>2 DEF RefreshRefused
    <2>3. QED
      BY <1>2, <2>1, <2>2, ConvergeType DEF RefreshRefused, userVars, TypeOK, Ended, Reasons
  <1>3. CASE RefreshRotates(s, g, k)
    <2>0. g + 1 \in Gens /\ g + 1 \in 0 .. MaxGen
      BY <1>3 DEF RefreshRotates, Gens
    <2>1. terminal' \in [Sessions -> [Keys -> Terminal]]
      BY <1>0, <1>3, <2>0, RecordType DEF RefreshRotates
    <2>2. cred' \in [Sessions -> [Gens -> CredState]]
      BY <1>3, <2>0 DEF RefreshRotates, Rotate, TypeOK, CredState
    <2>3. gen' \in [Sessions -> 0 .. MaxGen]
      BY <1>3, <2>0 DEF RefreshRotates, TypeOK
    <2>4. QED
      BY <1>3, <2>1, <2>2, <2>3 DEF RefreshRotates, userVars, TypeOK
  <1>4. QED
    BY <1>1, <1>2, <1>3 DEF Refresh

LEMMA NextTypeOK == TypeOK /\ [Next]_vars => TypeOK'
  <1> SUFFICES ASSUME TypeOK, [Next]_vars PROVE TypeOK'
    OBVIOUS
  <1> USE MaxGenAssumption, MaxEpochAssumption
  <1>1. ASSUME NEW s \in Sessions, NEW u \in Users, NEW p \in 0 .. MaxEpoch, LoginBegin(s, u, p)
        PROVE  TypeOK'
    BY <1>1 DEF LoginBegin, TypeOK, Login, userVars, sessionVars
  <1>2. ASSUME NEW s \in Sessions, LoginCommit(s)
        PROVE  TypeOK'
    <2>1. cred' \in [Sessions -> [Gens -> CredState]]
      BY <1>2 DEF LoginCommit, TypeOK, Gens, CredState
    <2>2. gen' \in [Sessions -> 0 .. MaxGen]
      BY <1>2 DEF LoginCommit, TypeOK
    <2>3. QED
      BY <1>2, <2>1, <2>2 DEF LoginCommit, TypeOK, userVars, SessionState, FamilyState
  <1>3. ASSUME NEW s \in Sessions, LoginRejected(s)
        PROVE  TypeOK'
    BY <1>3 DEF LoginRejected, TypeOK, Login, NoLogin, userVars, sessionVars
  <1>4. ASSUME NEW s \in Sessions, NEW g \in Gens, NEW k \in Keys, Refresh(s, g, k)
        PROVE  TypeOK'
    BY <1>4, RefreshTypeOK
  <1>5. ASSUME NEW s \in Sessions, ExpiryPasses(s)
        PROVE  TypeOK'
    BY <1>5 DEF ExpiryPasses, TypeOK, userVars, sessionVars
  <1>6. ASSUME NEW S \in SUBSET Sessions, Logout(S)
        PROVE  TypeOK'
    <2>1. Converge(S, "logged_out", "LOGOUT")
      BY <1>6 DEF Logout
    <2>2. QED
      BY <1>6, <2>1, ConvergeType DEF Logout, userVars, TypeOK, Ended, Reasons
  <1>7. ASSUME NEW u \in Users, ResetPassword(u)
        PROVE  TypeOK'
    <2>1. Converge(SessionsOf(u), "revoked", "PASSWORD_RESET")
      BY <1>7 DEF ResetPassword
    <2>2. epoch' \in [Users -> 0 .. MaxEpoch]
      BY <1>7 DEF ResetPassword, TypeOK
    <2>3. QED
      BY <1>7, <2>1, <2>2, ConvergeType DEF ResetPassword, TypeOK, Ended, Reasons
  <1>8. ASSUME NEW u \in Users, NEW l \in Lifecycles, SetLifecycle(u, l)
        PROVE  TypeOK'
    BY <1>8 DEF SetLifecycle, TypeOK, sessionVars
  <1>9. ASSUME NEW u \in Users, ToggleEnabled(u)
        PROVE  TypeOK'
    BY <1>9 DEF ToggleEnabled, TypeOK, sessionVars
  <1>10. CASE UNCHANGED vars
    BY <1>10 DEF vars, userVars, sessionVars, TypeOK
  <1>11. QED
    BY <1>1, <1>2, <1>3, <1>4, <1>5, <1>6, <1>7, <1>8, <1>9, <1>10 DEF Next

\* Every reachable state is well typed: in particular no operation of the code moves a
\* session, a family or a credential to "expired".
THEOREM TypeCorrect == Spec => []TypeOK
  <1>1. TypeOK /\ [Next]_vars => TypeOK'
    BY NextTypeOK
  <1>2. QED
    BY InitTypeOK, <1>1, PTL DEF Spec

-----------------------------------------------------------------------------
(* Coherence of session, family and credentials.                             *)

LEMMA UntouchedSession ==
    ASSUME NEW s \in Sessions, CoherentSession(s),
           sess'[s] = sess[s], fam'[s] = fam[s], gen'[s] = gen[s], cred'[s] = cred[s]
    PROVE  CoherentSession(s)'
  BY DEF CoherentSession

LEMMA ConvergeCoherent ==
    ASSUME TypeOK, Coherent, NEW S, NEW target \in Ended, NEW why,
           Converge(S, target, why), gen' = gen
    PROVE  Coherent'
  <1> SUFFICES ASSUME NEW s \in Sessions PROVE CoherentSession(s)'
    BY DEF Coherent
  <1>1. CoherentSession(s)
    BY DEF Coherent
  <1>2. CASE s \notin S
    BY <1>1, <1>2, UntouchedSession DEF Converge
  <1>3. CASE s \in S
    <2>1. /\ cred'[s] = Revoked(cred[s])
          /\ fam'[s] = IF fam[s] = "active" THEN "revoked" ELSE fam[s]
          /\ sess'[s] = IF sess[s] = "active" THEN target ELSE sess[s]
      BY <1>3 DEF Converge
    <2>2. \A g \in Gens : cred'[s][g] = IF cred[s][g] = "active" THEN "revoked" ELSE cred[s][g]
      BY <2>1, RevokedType DEF TypeOK
    <2>3. sess'[s] # "active" /\ fam'[s] # "active" /\ (sess'[s] = "none" <=> sess[s] = "none")
                               /\ (fam'[s] = "none" <=> fam[s] = "none")
      BY <2>1 DEF Ended
    <2>4. QED
      BY <1>1, <2>2, <2>3 DEF CoherentSession
  <1>4. QED
    BY <1>2, <1>3

LEMMA RefreshCoherent ==
    ASSUME TypeOK, Coherent, NEW s \in Sessions, NEW g \in Gens, NEW k \in Keys,
           Refresh(s, g, k)
    PROVE  Coherent'
  <1>1. CASE RefreshReplayed(s, g, k)
    BY <1>1, ConvergeCoherent DEF RefreshReplayed, Ended
  <1>2. CASE RefreshRefused(s, g, k)
    BY <1>2, ConvergeCoherent DEF RefreshRefused, Ended
  <1>3. CASE RefreshRotates(s, g, k)
    <2> SUFFICES ASSUME NEW x \in Sessions PROVE CoherentSession(x)'
      BY DEF Coherent
    <2>1. CoherentSession(x)
      BY DEF Coherent
    <2>2. CASE x # s
      BY <1>3, <2>1, <2>2, UntouchedSession DEF RefreshRotates, TypeOK
    <2>3. CASE x = s
      <3>1. /\ g \in Nat /\ g + 1 \in Gens /\ gen[s] = g
            /\ sess[s] = "active" /\ fam[s] = "active"
        BY <1>3, MaxGenAssumption DEF RefreshRotates, RefreshAllowed, Current, Gens
      <3>2. /\ gen'[s] = g + 1
            /\ cred'[s] = [cred[s] EXCEPT ![g] = "used", ![g + 1] = "active"]
            /\ sess'[s] = sess[s] /\ fam'[s] = fam[s]
        BY <1>3 DEF RefreshRotates, Rotate, TypeOK
      <3>3. \A h \in Gens : cred'[s][h] = IF h = g + 1 THEN "active"
                                          ELSE IF h = g THEN "used" ELSE cred[s][h]
        BY <3>2, <3>1 DEF TypeOK
      <3>4. \A h \in Gens : h \in Nat
        BY DEF Gens
      <3>5. CoherentSession(s)
        BY <2>1, <2>3
      <3>6. \A h \in Gens : /\ h < g => cred[s][h] = "used"
                            /\ h > g => cred[s][h] = "none"
        BY <3>1, <3>5 DEF CoherentSession
      <3>7. ASSUME NEW h \in Gens
            PROVE  /\ h < g + 1 => cred'[s][h] = "used"
                   /\ h = g + 1 => cred'[s][h] = "active"
                   /\ h > g + 1 => cred'[s][h] = "none"
        <4>1. h \in Nat /\ g \in Nat
          BY <3>1, <3>4
        <4>2. h < g + 1 => h = g \/ h < g
          BY <4>1
        <4>3. h > g + 1 => h > g /\ h # g /\ h # g + 1
          BY <4>1
        <4>4. h < g => h # g /\ h # g + 1
          BY <4>1
        <4>5. g # g + 1
          BY <4>1
        <4>6. QED
          BY <3>3, <3>6, <4>2, <4>3, <4>4, <4>5, Zenon
      <3>8. CoherentSession(s)'
        BY <3>1, <3>2, <3>7 DEF CoherentSession
      <3>9. QED
        BY <2>3, <3>8
    <2>4. QED
      BY <2>2, <2>3
  <1>4. QED
    BY <1>1, <1>2, <1>3 DEF Refresh

LEMMA NextCoherent == TypeOK /\ Coherent /\ [Next]_vars => Coherent'
  <1> SUFFICES ASSUME TypeOK, Coherent, [Next]_vars PROVE Coherent'
    OBVIOUS
  <1>0. ASSUME UNCHANGED sessionVars
        PROVE  Coherent'
    BY <1>0 DEF sessionVars, Coherent, CoherentSession
  <1>1. ASSUME NEW s \in Sessions, LoginCommit(s)
        PROVE  Coherent'
    <2> SUFFICES ASSUME NEW x \in Sessions PROVE CoherentSession(x)'
      BY DEF Coherent
    <2>1. CoherentSession(x)
      BY DEF Coherent
    <2>2. CASE x # s
      BY <1>1, <2>1, <2>2, UntouchedSession DEF LoginCommit, TypeOK
    <2>3. CASE x = s
      <3>1. sess'[s] = "active" /\ fam'[s] = "active" /\ gen'[s] = 1
        BY <1>1 DEF LoginCommit, TypeOK
      <3>2. \A g \in Gens : cred'[s][g] = IF g = 1 THEN "active" ELSE cred[s][g]
        BY <1>1 DEF LoginCommit, TypeOK
      <3>3. gen[s] = 0 /\ \A g \in Gens : g \in Nat /\ g > 0
        BY <1>1, <2>1, <2>3 DEF LoginCommit, CoherentSession, Gens
      <3>4. QED
        BY <2>1, <2>3, <3>1, <3>2, <3>3 DEF CoherentSession
    <2>4. QED
      BY <2>2, <2>3
  <1>2. ASSUME NEW s \in Sessions, NEW g \in Gens, NEW k \in Keys, Refresh(s, g, k)
        PROVE  Coherent'
    BY <1>2, RefreshCoherent
  <1>3. ASSUME NEW S \in SUBSET Sessions, Logout(S)
        PROVE  Coherent'
    BY <1>3, ConvergeCoherent DEF Logout, Ended
  <1>4. ASSUME NEW u \in Users, ResetPassword(u)
        PROVE  Coherent'
    BY <1>4, ConvergeCoherent DEF ResetPassword, Ended
  <1>5. ASSUME NEW s \in Sessions,
               \/ \E u \in Users, p \in 0 .. MaxEpoch : LoginBegin(s, u, p)
               \/ LoginRejected(s)
               \/ ExpiryPasses(s)
        PROVE  Coherent'
    BY <1>5, <1>0 DEF LoginBegin, LoginRejected, ExpiryPasses
  <1>6. ASSUME NEW u \in Users,
               ToggleEnabled(u) \/ \E l \in Lifecycles : SetLifecycle(u, l)
        PROVE  Coherent'
    BY <1>6, <1>0 DEF ToggleEnabled, SetLifecycle
  <1>7. CASE UNCHANGED vars
    BY <1>7, <1>0 DEF vars
  <1>8. QED
    BY <1>1, <1>2, <1>3, <1>4, <1>5, <1>6, <1>7 DEF Next

\* Session, family and credential rows agree in every reachable state, whatever the
\* order of logins, refreshes, retries, logouts and resets.
THEOREM CoherenceHolds == Spec => []Coherent
  <1>1. Init => Coherent
    <2> SUFFICES ASSUME Init, NEW s \in Sessions PROVE CoherentSession(s)
      BY DEF Coherent
    <2>1. gen[s] = 0 /\ sess[s] = "none" /\ fam[s] = "none"
      BY DEF Init
    <2>2. \A g \in Gens : cred[s][g] = "none"
      BY Zenon DEF Init
    <2>3. \A g \in Gens : g \in Nat /\ g > 0
      BY DEF Gens
    <2>4. QED
      BY <2>1, <2>2, <2>3 DEF CoherentSession
  <1>2. TypeOK /\ Coherent /\ [Next]_vars => Coherent'
    BY NextCoherent
  <1>3. QED
    BY <1>1, <1>2, TypeCorrect, PTL DEF Spec

-----------------------------------------------------------------------------
(* An ended session stays ended.                                             *)

LEMMA EndedHonoursNothing ==
    ASSUME TypeOK, Coherent, NEW s \in Sessions, sess[s] # "active", NEW g \in Gens
    PROVE  cred[s][g] # "active"
  <1>1. CoherentSession(s) /\ gen[s] \in Int /\ g \in Int
    BY DEF Coherent, TypeOK, Gens
  <1>2. g < gen[s] \/ g = gen[s] \/ g > gen[s]
    BY <1>1
  <1>3. QED
    BY <1>1, <1>2 DEF CoherentSession

\* What a step does to the session x when it is one that had ended.
EndedIsKept(x) ==
    sess[x] \in Ended =>
        /\ sess'[x] = sess[x]
        /\ reason'[x] = reason[x]
        /\ \A g \in Gens : cred'[x][g] # "active"

LEMMA ConvergeKeepsEnded ==
    ASSUME TypeOK, Coherent, NEW S, NEW target, NEW why, Converge(S, target, why),
           NEW x \in Sessions
    PROVE  EndedIsKept(x)
  <1> SUFFICES ASSUME sess[x] \in Ended PROVE EndedIsKept(x)
    BY DEF EndedIsKept
  <1>1. sess[x] # "active"
    BY DEF Ended
  <1>2. sess'[x] = sess[x] /\ reason'[x] = reason[x]
    BY <1>1 DEF Converge
  <1>3. ASSUME NEW g \in Gens PROVE cred'[x][g] # "active"
    <2>1. cred[x] \in [Gens -> CredState] /\ cred[x][g] # "active"
      BY <1>1, EndedHonoursNothing DEF TypeOK
    <2>2. cred'[x] = cred[x] \/ cred'[x] = Revoked(cred[x])
      BY DEF Converge
    <2>3. QED
      BY <2>1, <2>2, RevokedType
  <1>4. QED
    BY <1>2, <1>3 DEF EndedIsKept

LEMMA NextKeepsEnded ==
    ASSUME TypeOK, Coherent, [Next]_vars, NEW x \in Sessions
    PROVE  EndedIsKept(x)
  <1>1. ASSUME sess'[x] = sess[x], reason'[x] = reason[x], cred'[x] = cred[x]
        PROVE  EndedIsKept(x)
    BY <1>1, EndedHonoursNothing DEF EndedIsKept, Ended
  <1>2. ASSUME NEW s \in Sessions, LoginCommit(s)
        PROVE  EndedIsKept(x)
    <2>1. CASE x = s
      BY <1>2, <2>1 DEF LoginCommit, EndedIsKept, Ended
    <2>2. CASE x # s
      BY <1>1, <1>2, <2>2 DEF LoginCommit, TypeOK
    <2>3. QED
      BY <2>1, <2>2
  <1>3. ASSUME NEW s \in Sessions, NEW g \in Gens, NEW k \in Keys, RefreshRotates(s, g, k)
        PROVE  EndedIsKept(x)
    <2>1. CASE x = s
      BY <1>3, <2>1 DEF RefreshRotates, RefreshAllowed, EndedIsKept, Ended
    <2>2. CASE x # s
      BY <1>1, <1>3, <2>2 DEF RefreshRotates, TypeOK
    <2>3. QED
      BY <2>1, <2>2
  <1>4. ASSUME NEW s \in Sessions, NEW g \in Gens, NEW k \in Keys,
               RefreshReplayed(s, g, k) \/ RefreshRefused(s, g, k)
        PROVE  EndedIsKept(x)
    BY <1>4, ConvergeKeepsEnded DEF RefreshReplayed, RefreshRefused
  <1>5. ASSUME NEW S \in SUBSET Sessions, Logout(S)
        PROVE  EndedIsKept(x)
    BY <1>5, ConvergeKeepsEnded DEF Logout
  <1>6. ASSUME NEW u \in Users, ResetPassword(u)
        PROVE  EndedIsKept(x)
    BY <1>6, ConvergeKeepsEnded DEF ResetPassword
  <1>7. CASE UNCHANGED sessionVars
    BY <1>7, <1>1 DEF sessionVars
  <1>8. QED
    BY <1>2, <1>3, <1>4, <1>5, <1>6, <1>7
       DEF Next, Refresh, LoginBegin, LoginRejected, ExpiryPasses, SetLifecycle, ToggleEnabled, vars

-----------------------------------------------------------------------------
(* No operation meets a trigger.                                             *)

\* What the triggers look at when a row x is updated.
GuardsPass(x) ==
    /\ SessionGuard(sess[x], sess'[x])
    /\ FamilyGuard(fam[x], fam'[x])
    /\ \A g \in Gens : CredentialGuard(cred[x][g], cred'[x][g])

\* What they look at when a transaction commits.
DeferredChecksPass ==
    \A s \in Sessions : SessionPair(sess[s], fam[s]) /\ FamilyCredentials(fam[s], gen[s], cred[s])

LEMMA RowsAsKnown ==
    ASSUME TypeOK, Coherent, NEW s \in Sessions
    PROVE  /\ \A g \in Gens : g \in Int /\ (cred[s][g] = "none" <=> g > gen[s])
           /\ \A g \in Gens : cred[s][g] = "active" <=> g = gen[s] /\ sess[s] = "active"
           /\ sess[s] # "none" => gen[s] \in Gens
  <1>1. CoherentSession(s) /\ gen[s] \in 0 .. MaxGen /\ sess[s] \in SessionState
    BY DEF Coherent, TypeOK
  <1>2. \A g \in Gens : g \in Int /\ (g < gen[s] \/ g = gen[s] \/ g > gen[s])
    BY <1>1, MaxGenAssumption DEF Gens
  <1>3. sess[s] # "none" => gen[s] \in Gens
    BY <1>1, MaxGenAssumption DEF CoherentSession, Gens
  <1>4. \A g \in Gens : (cred[s][g] = "none" <=> g > gen[s])
    BY <1>1, <1>2 DEF CoherentSession
  <1>5. \A g \in Gens : cred[s][g] = "active" <=> g = gen[s] /\ sess[s] = "active"
    BY <1>1, <1>2 DEF CoherentSession
  <1>6. QED
    BY <1>2, <1>3, <1>4, <1>5

LEMMA CoherentPasses == TypeOK /\ Coherent => DeferredChecksPass
  <1> SUFFICES ASSUME TypeOK, Coherent, NEW s \in Sessions
               PROVE  SessionPair(sess[s], fam[s]) /\ FamilyCredentials(fam[s], gen[s], cred[s])
    BY DEF DeferredChecksPass
  <1>1. CoherentSession(s) /\ DOMAIN cred[s] = Gens
    BY DEF Coherent, TypeOK
  <1>2. /\ sess[s] \in SessionState /\ fam[s] \in FamilyState
        /\ \A g \in Gens : cred[s][g] \in CredState
        /\ gen[s] \in Int
    BY DEF TypeOK
  <1>3. SessionPair(sess[s], fam[s])
    BY <1>1, <1>2 DEF SessionPair, NoRowYet, CoherentSession, SessionState, FamilyState
  <1> DEFINE written == {g \in DOMAIN cred[s] : cred[s][g] \notin NoRowYet}
             active  == {g \in DOMAIN cred[s] : cred[s][g] = "active"}
  <1>4. written = {g \in Gens : g <= gen[s]}
    BY <1>1, <1>2, RowsAsKnown DEF NoRowYet, CredState
  <1>5. active = IF fam[s] = "active" THEN {gen[s]} ELSE {}
    <2>1. CASE fam[s] = "active"
      BY <1>1, <2>1, RowsAsKnown DEF CoherentSession
    <2>2. CASE fam[s] # "active"
      BY <1>1, <2>2, RowsAsKnown DEF CoherentSession
    <2>3. QED
      BY <2>1, <2>2
  <1>6. fam[s] \in NoRowYet \/ gen[s] \in written
    BY <1>1, <1>2, <1>4, RowsAsKnown DEF NoRowYet, CoherentSession
  <1>7. FamilyCredentials(fam[s], gen[s], cred[s])
    BY <1>4, <1>5, <1>6 DEF FamilyCredentials
  <1>8. QED
    BY <1>3, <1>7

LEMMA ConvergePasses ==
    ASSUME TypeOK, NEW S, NEW target, NEW why, Converge(S, target, why), NEW x \in Sessions
    PROVE  GuardsPass(x)
  <1>1. ASSUME NEW g \in Gens PROVE CredentialGuard(cred[x][g], cred'[x][g])
    <2>1. cred[x] \in [Gens -> CredState] /\ (cred'[x] = cred[x] \/ cred'[x] = Revoked(cred[x]))
      BY DEF TypeOK, Converge
    <2>2. QED
      BY <2>1, RevokedType DEF CredentialGuard
  <1>2. QED
    BY <1>1 DEF Converge, GuardsPass, SessionGuard, FamilyGuard

LEMMA NextPasses ==
    ASSUME TypeOK, Coherent, [Next]_vars, NEW x \in Sessions
    PROVE  GuardsPass(x)
  <1>1. ASSUME sess'[x] = sess[x], fam'[x] = fam[x], cred'[x] = cred[x]
        PROVE  GuardsPass(x)
    BY <1>1 DEF GuardsPass, SessionGuard, FamilyGuard, CredentialGuard
  <1>2. ASSUME NEW s \in Sessions, LoginCommit(s)
        PROVE  GuardsPass(x)
    <2>1. CASE x = s
      <3>1. gen[x] = 0 /\ fam[x] = "none" /\ sess[x] = "none"
        BY <1>2, <2>1 DEF LoginCommit, Coherent, CoherentSession
      <3>2. \A g \in Gens : cred[x][g] = "none"
        BY <3>1, RowsAsKnown DEF Gens
      <3>3. QED
        BY <3>1, <3>2 DEF GuardsPass, SessionGuard, FamilyGuard, CredentialGuard, NoRowYet
    <2>2. CASE x # s
      BY <1>1, <1>2, <2>2 DEF LoginCommit, TypeOK
    <2>3. QED
      BY <2>1, <2>2
  <1>3. ASSUME NEW s \in Sessions, NEW g \in Gens, NEW k \in Keys, RefreshRotates(s, g, k)
        PROVE  GuardsPass(x)
    <2>1. CASE x = s
      <3>1. /\ g + 1 \in Gens /\ g + 1 > gen[s] /\ cred[s][g] = "active"
            /\ sess' = sess /\ fam' = fam
        BY <1>3, MaxGenAssumption DEF RefreshRotates, Current, Gens
      <3>2. cred[s][g + 1] = "none"
        BY <3>1, RowsAsKnown
      <3>3. \A h \in Gens : h # g /\ h # g + 1 => cred'[s][h] = cred[s][h]
        BY <1>3 DEF RefreshRotates, Rotate, TypeOK
      <3>4. \A h \in Gens : CredentialGuard(cred[s][h], cred'[s][h])
        BY <3>1, <3>2, <3>3 DEF CredentialGuard, NoRowYet
      <3>5. QED
        BY <2>1, <3>1, <3>4 DEF GuardsPass, SessionGuard, FamilyGuard
    <2>2. CASE x # s
      BY <1>1, <1>3, <2>2 DEF RefreshRotates, TypeOK
    <2>3. QED
      BY <2>1, <2>2
  <1>4. ASSUME NEW s \in Sessions, NEW g \in Gens, NEW k \in Keys,
               RefreshReplayed(s, g, k) \/ RefreshRefused(s, g, k)
        PROVE  GuardsPass(x)
    BY <1>4, ConvergePasses DEF RefreshReplayed, RefreshRefused
  <1>5. ASSUME NEW S \in SUBSET Sessions, Logout(S)
        PROVE  GuardsPass(x)
    BY <1>5, ConvergePasses DEF Logout
  <1>6. ASSUME NEW u \in Users, ResetPassword(u)
        PROVE  GuardsPass(x)
    BY <1>6, ConvergePasses DEF ResetPassword
  <1>7. CASE UNCHANGED sessionVars
    BY <1>7, <1>1 DEF sessionVars
  <1>8. QED
    BY <1>2, <1>3, <1>4, <1>5, <1>6, <1>7
       DEF Next, Refresh, LoginBegin, LoginRejected, ExpiryPasses, SetLifecycle, ToggleEnabled, vars

\* No step of any operation revives an ended session, rewrites its reason or makes one of
\* its credentials active: _converge_authentication_control guards each row with its own
\* state, and rotation demands an active session.  So none of their writes is one that the
\* triggers of the migrations refuse: the deferred ones ask what Coherent says, the others that
\* an ended row be left alone.
THEOREM EndedIsFinal == Spec => NoResurrection
  <1>1. TypeOK /\ Coherent /\ [Next]_vars => \A x \in Sessions : GuardsPass(x) /\ EndedIsKept(x)
    BY NextPasses, NextKeepsEnded
  <1>2. TypeOK /\ Coherent => DeferredChecksPass
    BY CoherentPasses
  <1>3. (\A x \in Sessions : GuardsPass(x) /\ EndedIsKept(x)) /\ DeferredChecksPass' =>
           \A s \in Sessions :
              /\ sess[s] \in Ended => reason'[s] = reason[s]
              /\ SessionGuard(sess[s], sess'[s])
              /\ FamilyGuard(fam[s], fam'[s])
              /\ \A g \in Gens : CredentialGuard(cred[s][g], cred'[s][g])
              /\ SessionPair(sess'[s], fam'[s])
              /\ FamilyCredentials(fam'[s], gen'[s], cred'[s])
    BY DEF GuardsPass, EndedIsKept, DeferredChecksPass
  <1>4. QED
    BY <1>1, <1>2, <1>3, TypeCorrect, CoherenceHolds, PTL DEF Spec, NoResurrection

-----------------------------------------------------------------------------
(* One successor per credential.                                             *)

LEMMA SuccessorTypes ==
    ASSUME TypeOK
    PROVE  /\ \A s \in Sessions, k \in Keys : terminal[s][k].succ \in Nat /\ gen[s] \in Nat
           /\ \A g \in Gens : g \in Nat /\ g > 0
  BY DEF TypeOK, Terminal, Gens

LEMMA SuccessorKept ==
    ASSUME TypeOK, OneSuccessor, terminal' = terminal,
           \A s \in Sessions : gen'[s] = gen[s] \/ (gen[s] = 0 /\ gen'[s] = 1)
    PROVE  OneSuccessor'
  <1> SUFFICES ASSUME NEW s \in Sessions
               PROVE  /\ \A k \in Keys : terminal[s][k].succ # 0 => gen'[s] = gen[s]
                      /\ \A g \in Gens : g < gen'[s] => g < gen[s]
    BY DEF OneSuccessor
  <1>1. ASSUME NEW k \in Keys, terminal[s][k].succ # 0
        PROVE  gen'[s] = gen[s]
    BY <1>1, SuccessorTypes DEF OneSuccessor
  <1>2. \A g \in Gens : g < gen'[s] => g < gen[s]
    BY SuccessorTypes
  <1>3. QED
    BY <1>1, <1>2

LEMMA FailureRecorded ==
    ASSUME TypeOK, OneSuccessor, gen' = gen,
           NEW s \in Sessions, NEW k \in Keys, NEW g \in Gens, ~Recorded(s, k), Record(s, k, g, 0)
    PROVE  OneSuccessor'
  <1>1. \A x \in Sessions, j \in Keys :
           terminal'[x][j] = IF x = s /\ j = k THEN [hash |-> g, succ |-> 0] ELSE terminal[x][j]
    BY DEF Record, TypeOK
  <1>2. terminal[s][k].succ = 0
    BY DEF Recorded, NoTerminal
  <1>3. ASSUME NEW x \in Sessions, NEW j \in Keys
        PROVE  /\ terminal'[x][j].succ = terminal[x][j].succ
               /\ terminal[x][j].succ # 0 => terminal'[x][j].hash = terminal[x][j].hash
    BY <1>1, <1>2
  <1>4. ASSUME NEW x \in Sessions, NEW j \in Keys, NEW h \in Gens,
               terminal[x][j].hash = h, terminal[x][j].succ = h + 1
        PROVE  terminal'[x][j].hash = h /\ terminal'[x][j].succ = h + 1
    BY <1>3, <1>4, SuccessorTypes
  <1>5. QED
    BY <1>3, <1>4 DEF OneSuccessor

LEMMA RotationRecorded ==
    ASSUME TypeOK, OneSuccessor,
           NEW s \in Sessions, NEW k \in Keys, NEW g \in Gens, RefreshRotates(s, g, k)
    PROVE  OneSuccessor'
  <1>0. terminal[s][k].succ = 0 /\ terminal[s][k].hash = 0
    BY DEF RefreshRotates, NewRequest, Recorded, NoTerminal
  <1>1. \A x \in Sessions, j \in Keys :
           terminal'[x][j] = IF x = s /\ j = k THEN [hash |-> g, succ |-> g + 1] ELSE terminal[x][j]
    BY DEF RefreshRotates, Record, TypeOK
  <1>2. \A x \in Sessions : gen'[x] = IF x = s THEN g + 1 ELSE gen[x]
    BY DEF RefreshRotates, TypeOK
  <1>3. gen[s] = g /\ g \in Nat
    BY DEF RefreshRotates, Current, Gens
  <1>4. \A x \in Sessions, j \in Keys : terminal[x][j].succ \in Nat /\ gen[x] \in Nat
    BY DEF TypeOK, Terminal
  <1>5. ASSUME NEW x \in Sessions, NEW j \in Keys, terminal'[x][j].succ # 0
        PROVE  /\ terminal'[x][j].succ = terminal'[x][j].hash + 1
               /\ terminal'[x][j].succ <= gen'[x]
    <2>1. CASE x = s /\ j = k
      BY <1>1, <1>2, <1>3, <2>1
    <2>2. CASE ~(x = s /\ j = k)
      BY <1>1, <1>2, <1>3, <1>4, <1>5, <2>2 DEF OneSuccessor
    <2>3. QED
      BY <2>1, <2>2
  <1>6. ASSUME NEW x \in Sessions, NEW i \in Keys, NEW j \in Keys,
               terminal'[x][i].succ = terminal'[x][j].succ, terminal'[x][i].succ # 0
        PROVE  i = j
    <2>1. CASE x = s
      <3>1. \A l \in Keys : terminal[s][l].succ <= g
        BY <1>3, <1>4 DEF OneSuccessor
      <3>2. \A l \in Keys : l # k => terminal'[s][l].succ # g + 1
        BY <1>1, <1>3, <1>4, <3>1
      <3>3. terminal'[s][k].succ = g + 1
        BY <1>1
      <3>4. CASE i = k \/ j = k
        BY <1>6, <2>1, <3>2, <3>3, <3>4
      <3>5. CASE i # k /\ j # k
        BY <1>1, <1>6, <2>1, <3>5 DEF OneSuccessor
      <3>6. QED
        BY <3>4, <3>5
    <2>2. CASE x # s
      BY <1>1, <1>6, <2>2 DEF OneSuccessor
    <2>3. QED
      BY <2>1, <2>2
  <1>7. ASSUME NEW x \in Sessions, NEW h \in Gens, h < gen'[x]
        PROVE  \E j \in Keys : terminal'[x][j].hash = h /\ terminal'[x][j].succ = h + 1
    <2>1. CASE x = s /\ h = g
      BY <1>1, <2>1
    <2>2. CASE ~(x = s /\ h = g)
      <3>1. h < gen[x]
        BY <1>2, <1>3, <1>7, <2>2, SuccessorTypes
      <3>2. PICK j \in Keys : terminal[x][j].hash = h /\ terminal[x][j].succ = h + 1
        BY <3>1 DEF OneSuccessor
      <3>3. ~(x = s /\ j = k)
        BY <1>0, <3>2, SuccessorTypes
      <3>4. QED
        BY <1>1, <3>2, <3>3
    <2>3. QED
      BY <2>1, <2>2
  <1>8. QED
    BY <1>5, <1>6, <1>7 DEF OneSuccessor

LEMMA NextOneSuccessor == TypeOK /\ Coherent /\ OneSuccessor /\ [Next]_vars => OneSuccessor'
  <1> SUFFICES ASSUME TypeOK, Coherent, OneSuccessor, [Next]_vars PROVE OneSuccessor'
    OBVIOUS
  <1>1. ASSUME terminal' = terminal, gen' = gen
        PROVE  OneSuccessor'
    BY <1>1, SuccessorKept
  <1>2. ASSUME NEW s \in Sessions, LoginCommit(s)
        PROVE  OneSuccessor'
    <2>1. gen[s] = 0
      BY <1>2 DEF LoginCommit, Coherent, CoherentSession
    <2>2. \A x \in Sessions : gen'[x] = gen[x] \/ (gen[x] = 0 /\ gen'[x] = 1)
      BY <1>2, <2>1 DEF LoginCommit, TypeOK
    <2>3. QED
      BY <1>2, <2>2, SuccessorKept DEF LoginCommit
  <1>3. ASSUME NEW s \in Sessions, NEW g \in Gens, NEW k \in Keys, RefreshRotates(s, g, k)
        PROVE  OneSuccessor'
    BY <1>3, RotationRecorded
  <1>4. ASSUME NEW s \in Sessions, NEW g \in Gens, NEW k \in Keys,
               RefreshReplayed(s, g, k) \/ RefreshRefused(s, g, k)
        PROVE  OneSuccessor'
    BY <1>4, FailureRecorded DEF RefreshReplayed, RefreshRefused, NewRequest
  <1>5. ASSUME NEW S \in SUBSET Sessions, Logout(S)
        PROVE  OneSuccessor'
    BY <1>1, <1>5 DEF Logout
  <1>6. ASSUME NEW u \in Users, ResetPassword(u)
        PROVE  OneSuccessor'
    BY <1>1, <1>6 DEF ResetPassword
  <1>7. CASE UNCHANGED sessionVars
    BY <1>1, <1>7 DEF sessionVars
  <1>8. QED
    BY <1>2, <1>3, <1>4, <1>5, <1>6, <1>7
       DEF Next, Refresh, LoginBegin, LoginRejected, ExpiryPasses, SetLifecycle, ToggleEnabled, vars

\* Whatever keys are used and in whatever order requests are retried, a credential is
\* exchanged by one request only, and each success is recorded with the next generation.
THEOREM OneSuccessorHolds == Spec => []OneSuccessor
  <1>1. Init => OneSuccessor
    <2> SUFFICES ASSUME Init PROVE OneSuccessor
      OBVIOUS
    <2>1. \A s \in Sessions, k \in Keys : terminal[s][k] = NoTerminal
      BY Zenon DEF Init
    <2>2. NoTerminal.succ = 0
      BY DEF NoTerminal
    <2>3. \A s \in Sessions, k \in Keys : terminal[s][k].succ = 0
      BY <2>1, <2>2, Zenon
    <2>4. \A s \in Sessions, g \in Gens : ~(g < gen[s])
      <3>1. \A s \in Sessions : gen[s] = 0
        BY Zenon DEF Init
      <3>2. \A g \in Gens : g \in Int /\ g > 0
        BY DEF Gens
      <3>3. QED
        BY <3>1, <3>2
    <2>5. QED
      BY <2>3, <2>4 DEF OneSuccessor
  <1>2. TypeOK /\ Coherent /\ OneSuccessor /\ [Next]_vars => OneSuccessor'
    BY NextOneSuccessor
  <1>3. QED
    BY <1>1, <1>2, TypeCorrect, CoherenceHolds, PTL DEF Spec

-----------------------------------------------------------------------------
(* No session outlives the password it was opened with.                      *)

\* The strengthening: a login that has begun, and so every session row, names a user.
OwnerKnown ==
    \A s \in Sessions : sess[s] # "none" \/ login[s] # NoLogin => Owner(s) \in Users

PasswordInv == OwnerKnown /\ CurrentPasswordOnly

LEMMA ConvergePassword ==
    ASSUME TypeOK, PasswordInv, NEW S, NEW target \in Ended, NEW why,
           Converge(S, target, why), login' = login,
           \A s \in Sessions : sess[s] = "active" /\ s \notin S => epoch'[Owner(s)] = epoch[Owner(s)]
    PROVE  PasswordInv'
  <1>1. ASSUME NEW s \in Sessions
        PROVE  /\ sess'[s] = "none" <=> sess[s] = "none"
               /\ sess'[s] = "active" => sess[s] = "active" /\ s \notin S
    BY DEF Converge, Ended
  <1>2. OwnerKnown'
    BY <1>1 DEF PasswordInv, OwnerKnown, Owner
  <1>3. CurrentPasswordOnly'
    BY <1>1 DEF PasswordInv, CurrentPasswordOnly, Owner
  <1>4. QED
    BY <1>2, <1>3 DEF PasswordInv

LEMMA ResetPassword_PasswordInv ==
    ASSUME TypeOK, PasswordInv, NEW u \in Users, ResetPassword(u)
    PROVE  PasswordInv'
  <1>1. ASSUME NEW s \in Sessions, sess[s] = "active", s \notin SessionsOf(u)
        PROVE  epoch'[Owner(s)] = epoch[Owner(s)]
    <2>1. Owner(s) \in Users /\ Owner(s) # u
      BY <1>1 DEF SessionsOf, PasswordInv, OwnerKnown
    <2>2. QED
      BY <2>1 DEF ResetPassword, TypeOK
  <1>2. QED
    BY <1>1, ConvergePassword DEF ResetPassword, Ended

LEMMA NextPasswordInv == TypeOK /\ PasswordInv /\ [Next]_vars => PasswordInv'
  <1> SUFFICES ASSUME TypeOK, PasswordInv, [Next]_vars PROVE PasswordInv'
    OBVIOUS
  <1>1. ASSUME login' = login, sess' = sess, epoch' = epoch
        PROVE  PasswordInv'
    BY <1>1 DEF PasswordInv, OwnerKnown, CurrentPasswordOnly, Owner
  <1>2. ASSUME NEW s \in Sessions, sess[s] = "none", sess' = sess, epoch' = epoch,
               NEW l, login' = [login EXCEPT ![s] = l], l = NoLogin \/ l.user \in Users
        PROVE  PasswordInv'
    BY <1>2 DEF PasswordInv, OwnerKnown, CurrentPasswordOnly, Owner, TypeOK
  <1>3. ASSUME NEW s \in Sessions, NEW u \in Users, NEW p \in 0 .. MaxEpoch, LoginBegin(s, u, p)
        PROVE  PasswordInv'
    BY <1>2, <1>3 DEF LoginBegin, userVars, sessionVars
  <1>4. ASSUME NEW s \in Sessions, LoginRejected(s)
        PROVE  PasswordInv'
    BY <1>2, <1>4 DEF LoginRejected, userVars, sessionVars
  <1>5. ASSUME NEW s \in Sessions, LoginCommit(s)
        PROVE  PasswordInv'
    BY <1>5 DEF LoginCommit, PasswordAccepted, PasswordInv, OwnerKnown, CurrentPasswordOnly,
                Owner, TypeOK, userVars
  <1>6. ASSUME NEW s \in Sessions, NEW g \in Gens, NEW k \in Keys,
               RefreshReplayed(s, g, k) \/ RefreshRefused(s, g, k)
        PROVE  PasswordInv'
    BY <1>6, ConvergePassword DEF RefreshReplayed, RefreshRefused, userVars, Ended
  <1>7. ASSUME NEW s \in Sessions, NEW g \in Gens, NEW k \in Keys, RefreshRotates(s, g, k)
        PROVE  PasswordInv'
    BY <1>1, <1>7 DEF RefreshRotates, userVars
  <1>8. ASSUME NEW S \in SUBSET Sessions, Logout(S)
        PROVE  PasswordInv'
    BY <1>8, ConvergePassword DEF Logout, userVars, Ended
  <1>9. ASSUME NEW u \in Users, ResetPassword(u)
        PROVE  PasswordInv'
    BY <1>9, ResetPassword_PasswordInv
  <1>10. CASE login' = login /\ sess' = sess /\ epoch' = epoch
    BY <1>1, <1>10
  <1>11. QED
    BY <1>3, <1>4, <1>5, <1>6, <1>7, <1>8, <1>9, <1>10
       DEF Next, Refresh, ExpiryPasses, SetLifecycle, ToggleEnabled, vars, userVars, sessionVars

\* An active session was always opened with the password that is current now: login checks
\* the hash it reads under the user lock, and a reset revokes every session of the user in
\* the transaction that replaces the hash.
THEOREM CurrentPasswordHolds == Spec => []CurrentPasswordOnly
  <1>1. Init => PasswordInv
    BY DEF Init, PasswordInv, OwnerKnown, CurrentPasswordOnly
  <1>2. TypeOK /\ PasswordInv /\ [Next]_vars => PasswordInv'
    BY NextPasswordInv
  <1>3. PasswordInv => CurrentPasswordOnly
    BY DEF PasswordInv
  <1>4. QED
    BY <1>1, <1>2, <1>3, TypeCorrect, PTL DEF Spec
=============================================================================
