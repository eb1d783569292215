---------------------- MODULE RefreshCoordinatorProofs ----------------------
(***************************************************************************)
(* Theorems about RefreshCoordinator, for any tabs, sessions and bounds.     *)
(*                                                                         *)
(* Base says how the wire, the lock, the slot and the server's rows fit      *)
(* together whatever the users do; HonestRight what holds until somebody     *)
(* logs out, when every refresh on the wire is still harmless.               *)
(***************************************************************************)
EXTENDS RefreshCoordinator, FiniteSetTheorems, TLAPS

-----------------------------------------------------------------------------
(* What holds whatever the users do.                                         *)

Recorded(s, k) == terminal[s][k] # Server!NoTerminal

\* The rows of AuthSession in this composition: nothing expires, no account is locked.
RowsRight ==
    /\ Server!TypeOK
    /\ Server!Coherent
    /\ \A u \in {User} : account[u] = "active"
    /\ \A s \in Sessions :
          /\ ~late[s]
          /\ login[s] # Server!NoLogin => login[s].user = User
          /\ sess[s] # "none" => login[s] # Server!NoLogin
    /\ \A s \in Sessions, k \in 1 .. MaxKeys : Recorded(s, k) =>
          /\ k <= minted /\ terminal[s][k].hash # 0
          /\ terminal[s][k].succ = 0 => sess[s] # "none" /\ sess[s] # "active"
          /\ terminal[s][k].succ # 0 =>
                terminal[s][k].succ = terminal[s][k].hash + 1 /\ terminal[s][k].succ <= gen[s]

\* Credentials the server has issued, and no credential.
Real(c) == c = NoCookie \/ (c \in Cookies /\ c[1] \in Sessions /\ c[2] <= gen[c[1]])

CookiesRight ==
    /\ Real(cookie)
    /\ \A r \in wire : Real(r.cookie)
    /\ \A t \in Tabs : reply[t] # NoReply => Real(reply[t].sent) /\ \A c \in reply[t].set : Real(c)

\* Tabs that may still generate a key.
Minting == {t \in Tabs : pc[t] \in {"locking", "denied", "waiting"} \/ reply[t].expired}

Refreshes == {r \in wire : r.kind = "refresh"}

\* A tab has one request out or one answer coming.
WireRight ==
    /\ \A t \in Tabs : reply[t] # NoReply => pc[t] \in InFlight
    /\ \A r \in wire : r.live =>
          /\ reply[r.tab] = NoReply
          /\ r.kind = "refresh" => pc[r.tab] = "calling"
          /\ r.kind = "login" => pc[r.tab] = "loggingIn"
          /\ r.kind = "logout" => pc[r.tab] \in {"quitting", "loggingOut"}
    /\ \A r1, r2 \in wire : r1.live /\ r2.live /\ r1.tab = r2.tab => r1 = r2
    /\ \A r \in Refreshes : r.key \in 1 .. minted

KeysRight ==
    /\ pending \in {0, minted}
    /\ \A t \in Tabs : pc[t] \in {"owner", "calling"} => minted # 0
    /\ minted + Cardinality(Minting) <= MaxKeys

\* The first logout is on record before its effects.
LogoutsRight ==
    "logout" \notin history =>
        /\ \A t \in Tabs : pc[t] \notin {"quitting", "loggingOut"}
        /\ \A r \in wire : r.kind # "logout"

-----------------------------------------------------------------------------
(* What holds until somebody logs out.                                       *)

\* The cookie of the refresh a tab is waiting for.
Asked(c) ==
    \/ \E r \in Refreshes : r.live /\ r.cookie = c
    \/ \E t \in Tabs : pc[t] = "calling" /\ reply[t] # NoReply /\ reply[t].sent = c

\* Sessions a later request can still name.
Within(s) == cookie[1] = s \/ \E c \in Cookies : Asked(c) /\ c[1] = s

\* A session that was opened and never refreshed.
Fresh(s) ==
    /\ gen[s] = 1
    /\ \A r \in Refreshes : r.cookie[1] # s
    /\ \A c \in Cookies : Asked(c) => c[1] # s

\* No request that the server has not executed can be taken for a replay: it names the
\* current credential, or its key has a record.
RequestsRight ==
    /\ \A r \in Refreshes : r.cookie # NoCookie /\ sess[r.cookie[1]] = "active" =>
          r.cookie[2] = gen[r.cookie[1]] \/ Recorded(r.cookie[1], r.key)
    /\ \A r1, r2 \in Refreshes :
          /\ r1.cookie # NoCookie /\ r1.cookie[1] = r2.cookie[1] /\ sess[r1.cookie[1]] = "active"
          /\ ~Recorded(r1.cookie[1], r1.key) /\ ~Recorded(r2.cookie[1], r2.key)
          => r1.key = r2.key
    /\ \A r \in Refreshes :
          /\ r.cookie # NoCookie /\ Within(r.cookie[1]) /\ sess[r.cookie[1]] = "active"
          /\ ~Recorded(r.cookie[1], r.key)
          => r.key = minted /\ pending = minted

OwnerRight ==
    /\ \A t \in Tabs : pc[t] \in {"owner", "overdue", "calling"} => pending = minted /\ minted # 0
    /\ \A r \in Refreshes : r.live => r.key = minted

\* The cookie is that of the refresh under way, or of a login that came in between.
CookieRight ==
    \A c \in Cookies : Asked(c) /\ cookie[1] # c[1] /\ cookie # NoCookie =>
        Fresh(cookie[1]) /\ cookie[2] = 1

LoginsRight ==
    \A t \in Tabs : pc[t] = "loggingIn" /\ reply[t] # NoReply /\ ~reply[t].stored =>
        \A c \in reply[t].set :
            /\ c # NoCookie /\ c[2] = 1 /\ Fresh(c[1]) /\ cookie[1] # c[1]
            /\ \A u \in Tabs \ {t} : pc[u] = "loggingIn" /\ ~reply[u].stored => c \notin reply[u].set

AnswerRight(a) ==
    /\ a.code = "OK" =>
          /\ a.sent # NoCookie /\ a.session = a.sent[1]
          /\ a.set = {<<a.sent[1], a.sent[2] + 1>>}
          /\ terminal[a.session][minted] = [hash |-> a.sent[2], succ |-> a.sent[2] + 1]
          /\ sess[a.session] = "active" => gen[a.session] = a.sent[2] + 1
          /\ a.stored /\ cookie[1] = a.session => cookie[2] = a.sent[2] + 1
    /\ a.code # "OK" => a.stored /\ a.set = {}
    /\ a.code = "SESSION_REVOKED" => a.sent # NoCookie /\ sess[a.sent[1]] # "active"
    /\ a.code = "REFRESH_UNAVAILABLE" => a.sent = NoCookie
    /\ a.code \in Ambiguous => a.sent # NoCookie /\ a.session = a.sent[1]

AnswersRight == \A t \in Tabs : pc[t] = "calling" /\ reply[t] # NoReply => AnswerRight(reply[t])

\* Nothing was torn: a cookie whose key has a record is the one the record names.
Untorn ==
    /\ cookie # NoCookie /\ pending # 0 /\ Recorded(cookie[1], pending) /\ sess[cookie[1]] = "active" =>
          \/ terminal[cookie[1]][pending].hash = cookie[2] /\ gen[cookie[1]] = cookie[2] + 1
          \/ \E t \in Tabs : pc[t] = "calling" /\ reply[t].stored /\ reply[t].code = "OK"
    /\ \A r \in Refreshes : r.live /\ r.cookie # NoCookie
                             /\ Recorded(r.cookie[1], r.key) /\ sess[r.cookie[1]] = "active" =>
          terminal[r.cookie[1]][r.key].hash = r.cookie[2] /\ gen[r.cookie[1]] = r.cookie[2] + 1
    /\ \A t \in Tabs : pc[t] = "calling" /\ reply[t].code \in Ambiguous => sess[reply[t].session] # "active"

HonestRight ==
    /\ RequestsRight /\ OwnerRight /\ CookieRight /\ LoginsRight /\ AnswersRight
    /\ RetryRecovers
    /\ \A s \in Sessions : reason[s] # "REFRESH_TOKEN_REPLAYED"
    /\ history = {} => Untorn

Base == BrowserTypeOK /\ RowsRight /\ CookiesRight /\ WireRight /\ KeysRight /\ LogoutsRight

BrowserInv == Base /\ ("logout" \notin history => HonestRight)

-----------------------------------------------------------------------------
(* The server's rows: AuthSessionProofs and AuthSessionRefinement carry over.  *)

Rows == INSTANCE AuthSessionRefinement
            WITH Users <- {User}, Keys <- 1 .. MaxKeys, MaxGen <- MaxKeys + 1

LEMMA RowsAssumptions == MaxKeys + 1 \in Nat \ {0} /\ NoUser \notin {User} /\ MaxEpoch \in Nat
  BY MaxKeysAssumption, NoValueAssumption, MaxEpochAssumption

\* The server's steps in this composition.
Serves ==
    \/ \E s \in Sessions : Server!LoginCommit(s) \/ Server!LoginRejected(s)
    \/ \E s \in Sessions, u \in {User}, p \in 0 .. MaxEpoch : Server!LoginBegin(s, u, p)
    \/ \E s \in Sessions, g \in 1 .. MaxKeys + 1, k \in 1 .. MaxKeys : Server!Refresh(s, g, k)
    \/ \E S \in SUBSET Sessions : Server!Logout(S)
    \/ Server!ResetPassword(User)

\* The same definitions, instantiated twice.
LEMMA SameRows ==
    /\ Server!TypeOK <=> Rows!TypeOK
    /\ Server!Coherent <=> Rows!Coherent
    /\ Server!Init <=> Rows!Init
    /\ Serves => Rows!Next
<1>1. Server!TypeOK <=> Rows!TypeOK
  BY Zenon DEF Server!TypeOK, Rows!TypeOK, Server!Lifecycles, Rows!Lifecycles, Server!Login, Rows!Login,
     Server!SessionState, Rows!SessionState, Server!Reasons, Rows!Reasons, Server!FamilyState,
     Rows!FamilyState, Server!Gens, Rows!Gens, Server!CredState, Rows!CredState, Server!Terminal,
     Rows!Terminal
<1>2. Server!Coherent <=> Rows!Coherent
  BY Zenon DEF Server!Coherent, Rows!Coherent, Server!CoherentSession, Rows!CoherentSession,
     Server!Gens, Rows!Gens
<1>3. Server!Init <=> Rows!Init
  BY Zenon DEF Server!Init, Rows!Init, Server!NoLogin, Rows!NoLogin, Server!Gens, Rows!Gens,
     Server!NoTerminal, Rows!NoTerminal
<1>4. ASSUME Serves PROVE Rows!Next
  <2> USE DEF Server!userVars, Rows!userVars, Server!sessionVars, Rows!sessionVars, Server!NoLogin,
          Rows!NoLogin, Server!Owner, Rows!Owner, Server!Eligible, Rows!Eligible,
          Server!PasswordAccepted, Rows!PasswordAccepted, Server!Gens, Rows!Gens
  <2>1. \A s \in Sessions : Server!LoginCommit(s) => Rows!LoginCommit(s)
    BY Zenon DEF Server!LoginCommit, Rows!LoginCommit
  <2>2. \A s \in Sessions : Server!LoginRejected(s) => Rows!LoginRejected(s)
    BY Zenon DEF Server!LoginRejected, Rows!LoginRejected
  <2>3. \A s \in Sessions, u \in {User}, p \in 0 .. MaxEpoch :
            Server!LoginBegin(s, u, p) => Rows!LoginBegin(s, u, p)
    BY Zenon DEF Server!LoginBegin, Rows!LoginBegin
  <2>4. ASSUME NEW s, NEW g, NEW k, Server!Refresh(s, g, k) PROVE Rows!Refresh(s, g, k)
    BY <2>4, Zenon DEF Server!Refresh, Rows!Refresh, Server!RefreshReplayed, Rows!RefreshReplayed,
       Server!NewRequest, Rows!NewRequest, Server!Issued, Rows!Issued, Server!Recorded, Rows!Recorded,
       Server!NoTerminal, Rows!NoTerminal, Server!Replayed, Rows!Replayed, Server!Converge,
       Rows!Converge, Server!Revoked, Rows!Revoked, Server!Record, Rows!Record,
       Server!RefreshRefused, Rows!RefreshRefused, Server!RefreshAllowed, Rows!RefreshAllowed,
       Server!Current, Rows!Current, Server!RefreshRotates, Rows!RefreshRotates, Server!Rotate,
       Rows!Rotate
  <2>5. \A S \in SUBSET Sessions : Server!Logout(S) => Rows!Logout(S)
    <3>1. \A S \in SUBSET Sessions : Server!Cardinality(S) = Rows!Cardinality(S)
      BY Zenon DEF Server!Cardinality, Rows!Cardinality
    <3> QED BY <3>1, Zenon DEF Server!Logout, Rows!Logout, Server!Converge, Rows!Converge,
               Server!Revoked, Rows!Revoked
  <2>6. Server!ResetPassword(User) => Rows!ResetPassword(User)
    BY Zenon DEF Server!ResetPassword, Rows!ResetPassword, Server!SessionsOf, Rows!SessionsOf,
       Server!Converge, Rows!Converge, Server!Revoked, Rows!Revoked
  <2> QED BY <1>4, <2>1, <2>2, <2>3, <2>4, <2>5, <2>6, Zenon DEF Serves, Rows!Next
<1> QED BY <1>1, <1>2, <1>3, <1>4

LEMMA ServerStep ==
    ASSUME Server!TypeOK, Server!Coherent, Serves
    PROVE  Server!TypeOK' /\ Server!Coherent'
<1>1. Rows!TypeOK /\ Rows!Coherent /\ [Rows!Next]_(Rows!vars)
  BY SameRows
<1>2. Rows!TypeOK' /\ Rows!Coherent'
  BY <1>1, Rows!NextTypeOK, Rows!NextCoherent, RowsAssumptions
<1>3. Server!TypeOK' <=> Rows!TypeOK'
  BY Zenon DEF Server!TypeOK, Rows!TypeOK, Server!Lifecycles, Rows!Lifecycles, Server!Login, Rows!Login,
     Server!SessionState, Rows!SessionState, Server!Reasons, Rows!Reasons, Server!FamilyState,
     Rows!FamilyState, Server!Gens, Rows!Gens, Server!CredState, Rows!CredState, Server!Terminal,
     Rows!Terminal
<1>4. Server!Coherent' <=> Rows!Coherent'
  BY Zenon DEF Server!Coherent, Rows!Coherent, Server!CoherentSession, Rows!CoherentSession,
     Server!Gens, Rows!Gens
<1> QED BY <1>2, <1>3, <1>4

-----------------------------------------------------------------------------
(* What the server's steps do to the rows.                                   *)

LEMMA RowOf ==
    ASSUME Server!TypeOK, Server!Coherent, NEW s \in Sessions
    PROVE  /\ gen[s] \in 0 .. MaxKeys + 1
           /\ sess[s] \in {"none", "active", "revoked", "logged_out"}
           /\ sess[s] = "none" <=> gen[s] = 0
           /\ fam[s] = "active" <=> sess[s] = "active"
           /\ \A g \in 1 .. MaxKeys + 1 :
                 /\ g < gen[s] => cred[s][g] = "used"
                 /\ g = gen[s] => cred[s][g] = IF sess[s] = "active" THEN "active" ELSE "revoked"
  BY MaxKeysAssumption
  DEF Server!TypeOK, Server!Coherent, Server!CoherentSession, Server!Gens, Server!SessionState

LEMMA RowAfter ==
    ASSUME Server!TypeOK', Server!Coherent', NEW s \in Sessions
    PROVE  /\ gen'[s] \in 0 .. MaxKeys + 1
           /\ sess'[s] \in {"none", "active", "revoked", "logged_out"}
           /\ sess'[s] = "none" <=> gen'[s] = 0
  BY MaxKeysAssumption
  DEF Server!TypeOK, Server!Coherent, Server!CoherentSession, Server!Gens, Server!SessionState

\* What a refresh under a new key does: an exchange of the current credential, or a refusal.
Exchanges(s, g, k) ==
    /\ sess[s] = "active" /\ g = gen[s]
    /\ gen' = [gen EXCEPT ![s] = g + 1]
    /\ terminal' = [terminal EXCEPT ![s][k] = [hash |-> g, succ |-> g + 1]]
    /\ UNCHANGED <<sess, reason, account, login, late>>

Refuses(s, g, k) ==
    /\ UNCHANGED <<gen, account, login, late>>
    /\ terminal' = [terminal EXCEPT ![s][k] = [hash |-> g, succ |-> 0]]
    /\ sess'[s] # "none" /\ sess'[s] # "active"
    /\ \A x \in Sessions \ {s} : sess'[x] = sess[x]
    /\ \A x \in Sessions :
          reason'[x] = "REFRESH_TOKEN_REPLAYED" =>
              reason[x] = "REFRESH_TOKEN_REPLAYED" \/ (sess[s] = "active" /\ g # gen[s])

LEMMA RefreshEffect ==
    ASSUME RowsRight, NEW s \in Sessions, NEW g \in 1 .. MaxKeys + 1, g <= gen[s],
           NEW k \in 1 .. MaxKeys, Server!Refresh(s, g, k)
    PROVE  /\ ~Recorded(s, k)
           /\ \/ Exchanges(s, g, k) /\ Server!Answer(s, g, k) = [code |-> "OK", succ |-> g + 1]
              \/ Refuses(s, g, k) /\ Server!Answer(s, g, k) = [code |-> "SESSION_REVOKED", succ |-> 0]
<1> USE DEF RowsRight, Server!userVars
<1>0. /\ gen[s] \in 0 .. MaxKeys + 1
      /\ sess[s] \in {"none", "active", "revoked", "logged_out"}
      /\ sess[s] = "none" <=> gen[s] = 0
      /\ fam[s] = "active" <=> sess[s] = "active"
      /\ g < gen[s] => cred[s][g] = "used"
      /\ g = gen[s] => cred[s][g] = IF sess[s] = "active" THEN "active" ELSE "revoked"
  BY RowOf
<1>1. sess[s] # "none" /\ cred[s][g] # "none" /\ g \in Int
  BY <1>0, MaxKeysAssumption
<1>2. ~Recorded(s, k) /\ ~Server!Recorded(s, k) /\ Server!Issued(s, g)
  BY DEF Server!Refresh, Server!RefreshReplayed, Server!RefreshRefused, Server!RefreshRotates,
         Server!NewRequest, Server!Recorded, Recorded
<1>3. Server!Answer(s, g, k) =
          IF ~Server!Replayed(s, g) /\ Server!RefreshAllowed(s) /\ Server!Current(s, g)
          THEN [code |-> "OK", succ |-> g + 1] ELSE [code |-> "SESSION_REVOKED", succ |-> 0]
  BY <1>2 DEF Server!Answer, Server!Success, Server!Failure
<1>4. sess \in [Sessions -> Server!SessionState] /\ reason \in [Sessions -> Server!Reasons]
  BY DEF Server!TypeOK
<1>5. CASE Server!RefreshReplayed(s, g, k)
  <2>1. Server!Replayed(s, g) /\ g # gen[s]
    BY <1>0, <1>5 DEF Server!RefreshReplayed, Server!Replayed
  <2>2. /\ sess' = [y \in Sessions |-> IF y \in {s} /\ sess[y] = "active" THEN "revoked" ELSE sess[y]]
        /\ reason' = [y \in Sessions |-> IF y \in {s} /\ sess[y] = "active"
                                         THEN "REFRESH_TOKEN_REPLAYED" ELSE reason[y]]
        /\ terminal' = [terminal EXCEPT ![s][k] = [hash |-> g, succ |-> 0]]
        /\ UNCHANGED <<gen, account, login, late>>
    BY <1>5 DEF Server!RefreshReplayed, Server!Converge, Server!Record
  <2>3. /\ sess'[s] # "none" /\ sess'[s] # "active"
        /\ \A x \in Sessions \ {s} : sess'[x] = sess[x]
    BY <1>1, <2>2
  <2> QED BY <1>2, <1>3, <2>1, <2>2, <2>3 DEF Refuses
<1>6. CASE Server!RefreshRefused(s, g, k)
  <2>1. ~(Server!RefreshAllowed(s) /\ Server!Current(s, g)) /\ ~Server!Replayed(s, g)
    BY <1>6 DEF Server!RefreshRefused
  <2>2. ~Server!RefreshAllowed(s)
    BY <1>0, <1>1, <2>1 DEF Server!RefreshAllowed, Server!Current, Server!Replayed
  <2>3. /\ sess' = [y \in Sessions |-> IF y \in {x \in {s} : ~Server!RefreshAllowed(x)} /\ sess[y] = "active"
                                       THEN "revoked" ELSE sess[y]]
        /\ reason' = [y \in Sessions |-> IF y \in {x \in {s} : ~Server!RefreshAllowed(x)} /\ sess[y] = "active"
                                         THEN "SESSION_REVOKED" ELSE reason[y]]
        /\ terminal' = [terminal EXCEPT ![s][k] = [hash |-> g, succ |-> 0]]
        /\ UNCHANGED <<gen, account, login, late>>
    BY <1>6 DEF Server!RefreshRefused, Server!Converge, Server!Record
  <2>4. /\ sess'[s] # "none" /\ sess'[s] # "active"
        /\ \A x \in Sessions \ {s} : sess'[x] = sess[x]
    BY <1>1, <2>2, <2>3
  <2>5. \A x \in Sessions : reason'[x] = "REFRESH_TOKEN_REPLAYED" => reason[x] = "REFRESH_TOKEN_REPLAYED"
    BY <2>3
  <2> QED BY <1>2, <1>3, <2>1, <2>3, <2>4, <2>5 DEF Refuses
<1>7. CASE Server!RefreshRotates(s, g, k)
  <2>1. Server!RefreshAllowed(s) /\ Server!Current(s, g)
    BY <1>7 DEF Server!RefreshRotates
  <2>2. Exchanges(s, g, k)
    BY <1>7 DEF Server!RefreshRotates, Server!Record, Server!RefreshAllowed, Server!Current, Exchanges
  <2>3. ~Server!Replayed(s, g)
    BY <2>1 DEF Server!Current, Server!Replayed
  <2> QED BY <1>2, <1>3, <2>1, <2>2, <2>3
<1> QED BY <1>5, <1>6, <1>7 DEF Server!Refresh

LEMMA TerminalTyped ==
    ASSUME RowsRight, NEW s \in Sessions, NEW k \in 1 .. MaxKeys
    PROVE  terminal[s][k] \in [hash : 0 .. MaxKeys + 1, succ : 0 .. MaxKeys + 1]
<1>1. terminal \in [Sessions -> [1 .. MaxKeys -> Server!Terminal]]
  BY DEF RowsRight, Server!TypeOK
<1> QED BY <1>1 DEF Server!Terminal

\* What a recorded request answers: the successor while it is current, a failure of an ended
\* session, or doubt.
LEMMA RecordedEffect ==
    ASSUME RowsRight, NEW s \in Sessions, NEW g \in 1 .. MaxKeys + 1, g <= gen[s],
           NEW k \in 1 .. MaxKeys, Recorded(s, k), NEW a, a = Server!Answer(s, g, k)
    PROVE  \/ /\ a.code = "OK" /\ a.succ = g + 1 /\ gen[s] = g + 1 /\ sess[s] = "active"
              /\ terminal[s][k] = [hash |-> g, succ |-> g + 1]
           \/ a.code = "SESSION_REVOKED" /\ sess[s] # "active"
           \/ /\ a.code \in Ambiguous
              /\ sess[s] = "active" => ~(terminal[s][k].hash = g /\ gen[s] = g + 1)
<1> USE DEF RowsRight
<1>0. /\ gen[s] \in 0 .. MaxKeys + 1
      /\ \A h \in 1 .. MaxKeys + 1 :
            /\ h < gen[s] => cred[s][h] = "used"
            /\ h = gen[s] => cred[s][h] = IF sess[s] = "active" THEN "active" ELSE "revoked"
  BY RowOf
<1>1. cred[s][g] # "none" /\ g \in Int
  BY <1>0, MaxKeysAssumption
<1> DEFINE T == terminal[s][k]
<1>2. /\ T \in [hash : 0 .. MaxKeys + 1, succ : 0 .. MaxKeys + 1]
      /\ T.succ = 0 => sess[s] # "active"
      /\ T.succ # 0 => T.succ = T.hash + 1 /\ T.succ <= gen[s]
  BY DEF Server!TypeOK, Server!Terminal
<1>3. a = Server!RecordedAnswer(s, g, k)
  BY <1>1 DEF Server!Answer, Server!Recorded, Recorded, Server!Issued
<1>4. T = [hash |-> T.hash, succ |-> T.succ] /\ T.hash \in Nat /\ T.succ \in Nat
  BY <1>2, MaxKeysAssumption
<1> HIDE DEF T
<1>5. CASE T.hash # g
  BY <1>3, <1>5 DEF T, Server!RecordedAnswer, Server!Failure, Ambiguous
<1>6. CASE T.hash = g /\ T.succ = 0
  BY <1>2, <1>3, <1>6 DEF T, Server!RecordedAnswer, Server!Failure
<1>7. CASE T.hash = g /\ T.succ # 0 /\ ~Server!Current(s, T.succ)
  <2>1. a.code \in Ambiguous
    BY <1>3, <1>7 DEF T, Server!RecordedAnswer, Server!Failure, Ambiguous
  <2>2. sess[s] = "active" => gen[s] # g + 1
    BY <1>0, <1>1, <1>2, <1>4, <1>7, MaxKeysAssumption DEF Server!Current
  <2> QED BY <2>1, <2>2
<1>8. CASE T.hash = g /\ T.succ # 0 /\ Server!Current(s, T.succ)
  <2>1. T.succ = g + 1 /\ gen[s] = g + 1 /\ T = [hash |-> g, succ |-> g + 1]
    BY <1>1, <1>2, <1>4, <1>8 DEF Server!Current
  <2>2. a = IF account[Server!Owner(s)] = "active" /\ sess[s] = "active" /\ ~late[s]
            THEN [code |-> "OK", succ |-> g + 1] ELSE [code |-> "SESSION_REVOKED", succ |-> 0]
    BY <1>3, <1>8, <2>1 DEF T, Server!RecordedAnswer, Server!Failure, Server!Success
  <2>3. sess[s] = "active" => account[Server!Owner(s)] = "active" /\ ~late[s]
    BY DEF Server!Owner
  <2> QED BY <2>1, <2>2, <2>3 DEF T
<1> QED BY <1>5, <1>6, <1>7, <1>8

\* How rows may change under requests that are still on their way.
RowsKept ==
    \A s \in Sessions :
        /\ gen[s] <= gen'[s]
        /\ sess[s] # "none" => sess'[s] # "none"
        /\ sess[s] # "none" /\ sess[s] # "active" => sess'[s] # "active"
        /\ \A k \in 1 .. MaxKeys : Recorded(s, k) => terminal'[s][k] = terminal[s][k]

LEMMA RowsUntouched ==
    ASSUME RowsRight, UNCHANGED serverVars, minted \in Nat, minted' \in Nat, minted <= minted'
    PROVE  RowsRight' /\ RowsKept
<1> USE DEF RowsRight, serverVars
<1>1. Server!TypeOK'
  BY DEF Server!TypeOK
<1>2. Server!Coherent'
  BY DEF Server!Coherent, Server!CoherentSession
<1>3. \A s \in Sessions : gen[s] \in Int /\ gen'[s] = gen[s]
  BY RowOf, MaxKeysAssumption
<1>4. \A s \in Sessions, k \in 1 .. MaxKeys : Recorded(s, k)' = Recorded(s, k)
  BY DEF Recorded
<1>5. RowsRight'
  BY <1>1, <1>2, <1>4, MaxKeysAssumption
<1>6. RowsKept
  BY <1>3 DEF RowsKept
<1> QED BY <1>5, <1>6

LEMMA RowsConverge ==
    ASSUME RowsRight, Serves, NEW S \in SUBSET Sessions, NEW target \in {"revoked", "logged_out"},
           NEW why, why # "REFRESH_TOKEN_REPLAYED", Server!Converge(S, target, why),
           UNCHANGED <<account, login, gen, terminal, late, minted>>
    PROVE  /\ RowsRight' /\ RowsKept
           /\ \A s \in Sessions :
                 reason'[s] = "REFRESH_TOKEN_REPLAYED" => reason[s] = "REFRESH_TOKEN_REPLAYED"
<1> USE DEF RowsRight
<1>1. Server!TypeOK' /\ Server!Coherent'
  BY ServerStep
<1>2. \A s \in Sessions : gen[s] \in Int /\ gen'[s] = gen[s]
  BY RowOf, MaxKeysAssumption
<1>3. /\ sess' = [s \in Sessions |-> IF s \in S /\ sess[s] = "active" THEN target ELSE sess[s]]
      /\ reason' = [s \in Sessions |-> IF s \in S /\ sess[s] = "active" THEN why ELSE reason[s]]
  BY DEF Server!Converge
<1>4. \A s \in Sessions :
         /\ sess[s] # "none" <=> sess'[s] # "none"
         /\ sess[s] # "none" /\ sess[s] # "active" => sess'[s] # "active"
  BY <1>3
<1>5. \A s \in Sessions, k \in 1 .. MaxKeys : Recorded(s, k)' = Recorded(s, k)
  BY DEF Recorded
<1>6. RowsKept
  BY <1>2, <1>4 DEF RowsKept
<1>7. RowsRight'
  BY <1>1, <1>2, <1>4, <1>5
<1>8. \A s \in Sessions : reason'[s] = "REFRESH_TOKEN_REPLAYED" => reason[s] = "REFRESH_TOKEN_REPLAYED"
  BY <1>3
<1> QED BY <1>6, <1>7, <1>8

\* A reset or a logout ends sessions, and changes nothing else a request depends on.
LEMMA RowsEnd ==
    ASSUME RowsRight, UNCHANGED minted,
           Server!ResetPassword(User) \/ \E S \in SUBSET Sessions : Server!Logout(S)
    PROVE  /\ RowsRight' /\ RowsKept /\ UNCHANGED <<gen, terminal>>
           /\ \A s \in Sessions :
                 reason'[s] = "REFRESH_TOKEN_REPLAYED" => reason[s] = "REFRESH_TOKEN_REPLAYED"
<1>1. CASE Server!ResetPassword(User)
  <2>1. Server!Converge(Server!SessionsOf(User), "revoked", "PASSWORD_RESET")
        /\ UNCHANGED <<account, login, gen, terminal, late>>
    BY <1>1 DEF Server!ResetPassword
  <2>2. Server!SessionsOf(User) \in SUBSET Sessions
    BY DEF Server!SessionsOf
  <2>3. Serves
    BY <1>1 DEF Serves
  <2> QED BY <2>1, <2>2, <2>3, RowsConverge
<1>2. CASE \E S \in SUBSET Sessions : Server!Logout(S)
  <2>1. PICK S \in SUBSET Sessions : Server!Logout(S)
    BY <1>2
  <2>2. Server!Converge(S, "logged_out", "LOGOUT") /\ UNCHANGED <<account, login, gen, terminal, late>>
    BY <2>1 DEF Server!Logout, Server!userVars
  <2>3. Serves
    BY <1>2 DEF Serves
  <2> QED BY <2>2, <2>3, RowsConverge
<1> QED BY <1>1, <1>2

\* A login that begins or is refused.
LEMMA RowsLogin ==
    ASSUME RowsRight, UNCHANGED minted, NEW s \in Sessions,
           Server!LoginRejected(s) \/ Server!LoginBegin(s, User, epoch[User])
    PROVE  RowsRight' /\ RowsKept /\ UNCHANGED <<sess, gen, terminal, reason>>
<1> USE DEF RowsRight
<1>1. Serves
  BY DEF Serves, Server!TypeOK
<1>2. Server!TypeOK' /\ Server!Coherent'
  BY <1>1, ServerStep
<1>3. /\ UNCHANGED <<account, sess, gen, terminal, reason, late>> /\ sess[s] = "none"
      /\ \/ login' = [login EXCEPT ![s] = Server!NoLogin]
         \/ login' = [login EXCEPT ![s] = [user |-> User, presented |-> epoch[User], read |-> epoch[User]]]
  BY DEF Server!LoginRejected, Server!LoginBegin, Server!userVars, Server!sessionVars
<1>4. \A x \in Sessions :
         /\ login'[x] # Server!NoLogin => login'[x].user = User
         /\ x # s => login'[x] = login[x]
  BY <1>3 DEF Server!TypeOK
<1>5. \A x \in Sessions, k \in 1 .. MaxKeys : Recorded(x, k)' = Recorded(x, k)
  BY <1>3 DEF Recorded
<1>6. \A x \in Sessions : gen[x] \in Int /\ gen'[x] = gen[x]
  BY <1>3, RowOf, MaxKeysAssumption
<1>7. RowsKept
  BY <1>3, <1>6 DEF RowsKept
<1>8. RowsRight'
  BY <1>2, <1>3, <1>4, <1>5
<1> QED BY <1>3, <1>7, <1>8

\* A login that opens its session: nobody has asked for a refresh of it.
LEMMA RowsOpen ==
    ASSUME RowsRight, UNCHANGED minted, NEW s \in Sessions, Server!LoginCommit(s)
    PROVE  /\ RowsRight' /\ RowsKept /\ UNCHANGED <<terminal, reason>>
           /\ sess[s] = "none" /\ gen[s] = 0
           /\ gen' = [gen EXCEPT ![s] = 1] /\ sess' = [sess EXCEPT ![s] = "active"]
           /\ \A k \in 1 .. MaxKeys : ~Recorded(s, k)
<1> USE DEF RowsRight
<1>1. Server!TypeOK' /\ Server!Coherent'
  BY ServerStep DEF Serves
<1>2. /\ UNCHANGED <<account, login, terminal, reason, late>> /\ sess[s] = "none"
      /\ login[s] # Server!NoLogin
      /\ gen' = [gen EXCEPT ![s] = 1] /\ sess' = [sess EXCEPT ![s] = "active"]
  BY DEF Server!LoginCommit, Server!userVars
<1>3. gen[s] = 0 /\ gen'[s] = 1 /\ sess'[s] = "active"
      /\ \A x \in Sessions \ {s} : gen'[x] = gen[x] /\ sess'[x] = sess[x]
  BY <1>2, RowOf DEF Server!TypeOK
<1>4. \A x \in Sessions : gen[x] \in Int
  BY RowOf, MaxKeysAssumption
<1>5. \A k \in 1 .. MaxKeys : ~Recorded(s, k)
  <2> SUFFICES ASSUME NEW k \in 1 .. MaxKeys, Recorded(s, k) PROVE FALSE
    OBVIOUS
  <2>1. terminal[s][k] \in [hash : 0 .. MaxKeys + 1, succ : 0 .. MaxKeys + 1]
    BY TerminalTyped
  <2>2. terminal[s][k].succ # 0
    BY <1>2
  <2>3. terminal[s][k].succ = terminal[s][k].hash + 1 /\ terminal[s][k].succ <= 0
    BY <1>3, <2>2
  <2> QED BY <2>1, <2>3, MaxKeysAssumption
<1>6. \A x \in Sessions, k \in 1 .. MaxKeys : Recorded(x, k)' = Recorded(x, k)
  BY <1>2 DEF Recorded
<1>7. RowsKept
  BY <1>2, <1>3, <1>4 DEF RowsKept
<1>8. RowsRight'
  <2>1. \A x \in Sessions, k \in 1 .. MaxKeys : Recorded(x, k)' =>
          /\ k <= minted' /\ terminal'[x][k].hash # 0
          /\ terminal'[x][k].succ = 0 => sess'[x] # "none" /\ sess'[x] # "active"
          /\ terminal'[x][k].succ # 0 =>
                terminal'[x][k].succ = terminal'[x][k].hash + 1 /\ terminal'[x][k].succ <= gen'[x]
    BY <1>2, <1>3, <1>5, <1>6
  <2> QED BY <1>1, <1>2, <1>3, <2>1
<1> QED BY <1>2, <1>3, <1>5, <1>7, <1>8

LEMMA RowsRefresh ==
    ASSUME RowsRight, UNCHANGED minted, minted \in 0 .. MaxKeys, NEW s \in Sessions,
           NEW g \in 1 .. MaxKeys + 1, g <= gen[s], NEW k \in 1 .. minted, Server!Refresh(s, g, k)
    PROVE  RowsRight' /\ RowsKept
<1>0. k \in 1 .. MaxKeys /\ k <= minted /\ minted' = minted
  BY MaxKeysAssumption
<1>1. ~Recorded(s, k) /\ (Exchanges(s, g, k) \/ Refuses(s, g, k))
  BY <1>0, RefreshEffect
<1> USE DEF RowsRight
<1>2. Server!TypeOK' /\ Server!Coherent'
  BY <1>0, ServerStep DEF Serves
<1>3. \A x \in Sessions : gen[x] \in Int /\ gen'[x] \in Int
  BY <1>2, RowOf, RowAfter, MaxKeysAssumption
<1>4. /\ UNCHANGED <<account, login, late>>
      /\ \A x \in Sessions : gen[x] <= gen'[x]
      /\ \A x \in Sessions \ {s} : sess'[x] = sess[x] /\ gen'[x] = gen[x]
      /\ sess'[s] # "none" /\ sess[s] # "none" /\ (sess[s] # "active" => sess'[s] # "active")
  <2>1. gen[s] # 0 /\ sess[s] # "none"
    BY RowOf
  <2>2. CASE Exchanges(s, g, k)
    BY <1>3, <2>1, <2>2 DEF Exchanges, Server!TypeOK
  <2>3. CASE Refuses(s, g, k)
    BY <1>3, <2>1, <2>3 DEF Refuses
  <2> QED BY <1>1, <2>2, <2>3
<1>5. PICK h \in {0, g + 1} :
         /\ terminal' = [terminal EXCEPT ![s][k] = [hash |-> g, succ |-> h]]
         /\ h = 0 => sess'[s] # "active"
         /\ h # 0 => h = g + 1 /\ gen'[s] = g + 1
  <2>1. CASE Exchanges(s, g, k)
    BY <2>1, MaxKeysAssumption DEF Exchanges, Server!TypeOK
  <2>2. CASE Refuses(s, g, k)
    BY <2>2 DEF Refuses
  <2> QED BY <1>1, <2>1, <2>2
<1>6. /\ terminal'[s][k] = [hash |-> g, succ |-> h]
      /\ \A x \in Sessions, j \in 1 .. MaxKeys : x # s \/ j # k => terminal'[x][j] = terminal[x][j]
  BY <1>0, <1>5 DEF Server!TypeOK
<1>7. \A x \in Sessions, j \in 1 .. MaxKeys : x # s \/ j # k => Recorded(x, j)' = Recorded(x, j)
  BY <1>6 DEF Recorded
<1>8. ASSUME NEW x \in Sessions, NEW j \in 1 .. MaxKeys, Recorded(x, j)'
      PROVE  /\ j <= minted' /\ terminal'[x][j].hash # 0
             /\ terminal'[x][j].succ = 0 => sess'[x] # "none" /\ sess'[x] # "active"
             /\ terminal'[x][j].succ # 0 =>
                   terminal'[x][j].succ = terminal'[x][j].hash + 1 /\ terminal'[x][j].succ <= gen'[x]
  <2>1. CASE x = s /\ j = k
    BY <1>0, <1>3, <1>4, <1>5, <1>6, <2>1
  <2>2. CASE ~(x = s /\ j = k)
    <3>1. Recorded(x, j) /\ terminal'[x][j] = terminal[x][j]
      BY <1>6, <1>7, <1>8, <2>2
    <3>2. terminal[x][j].succ \in Int
      <4>1. terminal[x][j] \in [hash : 0 .. MaxKeys + 1, succ : 0 .. MaxKeys + 1]
        BY TerminalTyped
      <4> QED BY <4>1, MaxKeysAssumption
    <3>3. sess[x] # "none" /\ sess[x] # "active" => sess'[x] # "none" /\ sess'[x] # "active"
      BY <1>4
    <3>4. gen[x] <= gen'[x] /\ gen[x] \in Int /\ gen'[x] \in Int
      BY <1>3, <1>4
    <3> QED BY <1>0, <3>1, <3>2, <3>3, <3>4
  <2> QED BY <2>1, <2>2
<1>9. RowsRight'
  BY <1>2, <1>4, <1>8
<1>10. RowsKept
  <2>1. \A x \in Sessions, j \in 1 .. MaxKeys : Recorded(x, j) => terminal'[x][j] = terminal[x][j]
    BY <1>1, <1>6
  <2> QED BY <1>4, <2>1 DEF RowsKept
<1> QED BY <1>9, <1>10

-----------------------------------------------------------------------------
(* Base, step by step: keys, cookies and the moves of the tabs.              *)

USE DEF Move

LEMMA MintingFinite == \A S \in SUBSET Tabs : IsFiniteSet(S) /\ Cardinality(S) \in Nat
  BY TabsAssumption, FS_Subset, FS_CardinalityType

\* The bound on keys: a tab that may still mint one is counted, and one that does is not any more.
LEMMA KeysKept ==
    ASSUME minted \in Nat, minted + Cardinality(Minting) <= MaxKeys,
           minted' = minted, Minting' \subseteq Minting
    PROVE  minted' + Cardinality(Minting') <= MaxKeys
<1>1. Minting \in SUBSET Tabs /\ Minting' \in SUBSET Minting
  BY DEF Minting
<1>2. IsFiniteSet(Minting) /\ Cardinality(Minting) \in Nat /\ Cardinality(Minting') \in Nat
  BY <1>1, MintingFinite
<1>3. Cardinality(Minting') <= Cardinality(Minting)
  BY <1>1, <1>2, FS_Subset
<1> QED BY <1>2, <1>3, MaxKeysAssumption

LEMMA KeysAsked ==
    ASSUME minted \in Nat, KeyLeft, NEW t \in Tabs,
           minted' = minted, Minting' \subseteq Minting \cup {t}
    PROVE  minted' + Cardinality(Minting') <= MaxKeys
<1>0. Minting = {x \in Tabs : pc[x] \in {"locking", "denied", "waiting"} \/ reply[x].expired}
  BY DEF Minting
<1>1. Minting \in SUBSET Tabs /\ Minting' \in SUBSET Tabs
  BY DEF Minting
<1>2. minted + Cardinality(Minting) < MaxKeys
  BY <1>0 DEF KeyLeft
<1>3. /\ IsFiniteSet(Minting \cup {t}) /\ Cardinality(Minting) \in Nat
      /\ Cardinality(Minting \cup {t}) \in Nat /\ Cardinality(Minting') \in Nat
  BY <1>1, MintingFinite
<1>4. Cardinality(Minting \cup {t}) <= Cardinality(Minting) + 1
  BY <1>1, <1>3, MintingFinite, FS_AddElement
<1>5. Cardinality(Minting') <= Cardinality(Minting \cup {t})
  BY <1>3, FS_Subset
<1> QED BY <1>2, <1>3, <1>4, <1>5, MaxKeysAssumption

LEMMA KeysSpent ==
    ASSUME minted \in Nat, minted + Cardinality(Minting) <= MaxKeys, NEW t \in Minting,
           minted' = minted + 1, Minting' \subseteq Minting \ {t}
    PROVE  minted' + Cardinality(Minting') <= MaxKeys /\ minted' \in 1 .. MaxKeys
<1>1. Minting \in SUBSET Tabs /\ Minting \ {t} \in SUBSET Tabs /\ Minting' \in SUBSET Tabs
  BY DEF Minting
<1>2. /\ IsFiniteSet(Minting) /\ IsFiniteSet(Minting \ {t}) /\ Cardinality(Minting) \in Nat
      /\ Cardinality(Minting \ {t}) \in Nat /\ Cardinality(Minting') \in Nat
  BY <1>1, MintingFinite
<1>3. Cardinality(Minting \ {t}) = Cardinality(Minting) - 1
  BY <1>2, FS_RemoveElement
<1>4. Cardinality(Minting') <= Cardinality(Minting \ {t})
  BY <1>2, FS_Subset
<1> QED BY <1>2, <1>3, <1>4, MaxKeysAssumption

\* Credentials stay issued.
RealNext(c) == c = NoCookie \/ (c \in Cookies /\ c[1] \in Sessions /\ c[2] <= gen'[c[1]])

LEMMA RealKept ==
    ASSUME RowsRight, RowsRight', RowsKept, NEW c, Real(c)
    PROVE  RealNext(c)
<1>1. CASE c = NoCookie
  BY <1>1 DEF RealNext
<1>2. CASE c \in Cookies /\ c[1] \in Sessions /\ c[2] <= gen[c[1]]
  <2>1. c[2] \in Int
    <3>1. c = NoCookie \/ c \in Sessions \X (1 .. MaxKeys + 1)
      BY <1>2 DEF Cookies
    <3> QED BY <3>1, MaxKeysAssumption DEF NoCookie
  <2>2. gen[c[1]] \in Int /\ gen'[c[1]] \in Int /\ gen[c[1]] <= gen'[c[1]]
    BY <1>2, RowOf, RowAfter, MaxKeysAssumption DEF RowsRight, RowsKept
  <2> QED BY <1>2, <2>1, <2>2 DEF RealNext
<1> QED BY <1>1, <1>2 DEF Real

LEMMA CookiesKept ==
    ASSUME RealNext(cookie'), \A r \in wire' : RealNext(r.cookie),
           \A t \in Tabs : reply'[t] # NoReply => RealNext(reply'[t].sent) /\ \A c \in reply'[t].set : RealNext(c)
    PROVE  CookiesRight'
  BY DEF CookiesRight, RealNext, Real

\* A tab moves between places where it neither holds the lock nor has a request out.
Quiet == {"closed", "idle", "locking", "denied", "waiting"}

LEMMA QuietBase ==
    ASSUME Base, NEW t \in Tabs, NEW to \in Quiet, pc[t] \in Quiet, Move(t, to),
           UNCHANGED <<serverVars, cookie, pending, aged, lock, token, wire, reply, minted, faults, history, doubted>>,
           to \in {"locking", "denied", "waiting"} => KeyLeft \/ pc[t] \in {"locking", "denied", "waiting"}
    PROVE  Base' /\ RowsKept
<1> USE DEF Base
<1>0. /\ \A x \in Tabs : pc'[x] = IF x = t THEN to ELSE pc[x]
      /\ minted \in Nat /\ UNCHANGED <<cookie, pending, wire, reply, minted, history>>
  BY MaxKeysAssumption DEF BrowserTypeOK
<1>1. BrowserTypeOK'
  <2>1. pc' \in [Tabs -> Places]
    BY DEF BrowserTypeOK, Quiet, Places
  <2>2. \A x \in Tabs : lock' = x <=> pc'[x] \in Holding
    BY <1>0 DEF BrowserTypeOK, Quiet, Holding
  <2> QED BY <2>1, <2>2 DEF BrowserTypeOK
<1>2. RowsRight' /\ RowsKept
  BY <1>0, RowsUntouched
<1>3. CookiesRight'
  BY <1>0, <1>2, RealKept, CookiesKept DEF CookiesRight
<1>4. WireRight'
  BY <1>0 DEF WireRight, Quiet, InFlight, Refreshes, BrowserTypeOK, Request
<1>5. KeysRight'
  <2>1. minted' + Cardinality(Minting') <= MaxKeys
    <3>1. CASE to \in {"locking", "denied", "waiting"} /\ pc[t] \notin {"locking", "denied", "waiting"}
      <4>1. Minting' \subseteq Minting \cup {t}
        BY <1>0 DEF Minting
      <4> QED BY <1>0, <3>1, <4>1, KeysAsked
    <3>2. CASE to \notin {"locking", "denied", "waiting"} \/ pc[t] \in {"locking", "denied", "waiting"}
      <4>1. Minting' \subseteq Minting
        BY <1>0, <3>2 DEF Minting
      <4> QED BY <1>0, <4>1, KeysKept DEF KeysRight
    <3> QED BY <3>1, <3>2
  <2> QED BY <1>0, <2>1 DEF KeysRight, Quiet
<1>6. LogoutsRight'
  BY <1>0 DEF LogoutsRight, Quiet
<1> QED BY <1>1, <1>2, <1>3, <1>4, <1>5, <1>6

QuietStep(t) ==
    StartRefresh(t) \/ Mount(t) \/ LockRefused(t) \/ WaitForOwner(t) \/ OwnerWaitTimesOut(t)

LEMMA QuietSteps ==
    ASSUME Base, NEW t \in Tabs, QuietStep(t)
    PROVE  /\ Base' /\ RowsKept
           /\ pc[t] \in Quiet /\ \E to \in Quiet : Move(t, to)
           /\ UNCHANGED <<serverVars, cookie, pending, aged, lock, token, wire, reply, minted, faults, history, doubted>>
<1>1. CASE StartRefresh(t)
  BY <1>1, QuietBase DEF StartRefresh, Quiet
<1>2. CASE Mount(t)
  BY <1>2, QuietBase DEF Mount, Quiet
<1>3. CASE LockRefused(t)
  BY <1>3, QuietBase DEF LockRefused, Quiet
<1>4. CASE WaitForOwner(t)
  BY <1>4, QuietBase DEF WaitForOwner, Quiet
<1>5. CASE OwnerWaitTimesOut(t)
  BY <1>5, QuietBase DEF OwnerWaitTimesOut, Quiet
<1> QED BY <1>1, <1>2, <1>3, <1>4, <1>5 DEF QuietStep

\* Where the tab that waits for a request of this kind is.
Fits(kind, place) ==
    /\ kind = "refresh" => place = "calling"
    /\ kind = "login" => place = "loggingIn"
    /\ kind = "logout" => place \in {"quitting", "loggingOut"}

\* A step of tab t that leaves its answer behind, may post one request or abandon one, and may
\* wake others.
LEMMA TabBase ==
    ASSUME Base, NEW t \in Tabs, UNCHANGED <<serverVars, cookie>>, BrowserTypeOK',
           minted <= minted', pending' \in {0, minted'}, pc'[t] \in {"owner", "calling"} => minted' # 0,
           minted' + Cardinality(Minting') <= MaxKeys,
           reply'[t] = NoReply,
           \A x \in Tabs \ {t} : /\ reply'[x] = reply[x]
                                 /\ pc'[x] = pc[x] \/ (pc[x] = "waiting" /\ pc'[x] = "idle"),
           \A r \in wire' :
              \/ r \in wire /\ (r.live => r.tab # t)
              \/ /\ r.tab = t /\ r.live /\ Fits(r.kind, pc'[t]) /\ r.cookie = cookie
                 /\ r.kind = "refresh" => r.key \in 1 .. minted'
              \/ ~r.live /\ \E q \in wire : q.kind = r.kind /\ q.cookie = r.cookie /\ q.key = r.key,
           \A r1, r2 \in wire' : r1.live /\ r2.live /\ r1.tab = t /\ r2.tab = t => r1 = r2,
           history \subseteq history',
           "logout" \notin history' =>
              pc'[t] \notin {"quitting", "loggingOut"} /\ \A r \in wire' : r.kind # "logout"
    PROVE  Base' /\ RowsKept
<1> USE DEF Base
<1>0. minted \in Nat /\ minted' \in Nat
  BY MaxKeysAssumption DEF BrowserTypeOK
<1>1. RowsRight' /\ RowsKept
  BY <1>0, RowsUntouched
<1>2. CookiesRight'
  <2>1. \A r \in wire' : Real(r.cookie)
    BY DEF CookiesRight
  <2>2. \A x \in Tabs : reply'[x] # NoReply => Real(reply'[x].sent) /\ \A c \in reply'[x].set : Real(c)
    BY DEF CookiesRight
  <2>3. Real(cookie')
    BY DEF CookiesRight
  <2> HIDE DEF Base
  <2>4. \A c : Real(c) => RealNext(c)
    BY <1>1, RealKept DEF Base
  <2>5. \A r \in wire' : RealNext(r.cookie)
    BY <2>1, <2>4
  <2>6. \A x \in Tabs : reply'[x] # NoReply =>
            RealNext(reply'[x].sent) /\ \A c \in reply'[x].set : RealNext(c)
    BY <2>2, <2>4
  <2> QED BY <2>3, <2>4, <2>5, <2>6, CookiesKept
<1>3. WireRight'
  <2>0. \A r \in wire' : r.tab \in Tabs
    BY DEF BrowserTypeOK, Request
  <2>1. \A x \in Tabs : reply'[x] # NoReply => pc'[x] \in InFlight
    BY DEF WireRight, InFlight
  <2>2. \A r \in wire' : r.live => r.tab = t \/ (r \in wire /\ r.tab \in Tabs \ {t})
    BY <2>0
  <2>3. \A r \in wire' : r.live =>
          /\ reply'[r.tab] = NoReply
          /\ r.kind = "refresh" => pc'[r.tab] = "calling"
          /\ r.kind = "login" => pc'[r.tab] = "loggingIn"
          /\ r.kind = "logout" => pc'[r.tab] \in {"quitting", "loggingOut"}
    <3> SUFFICES ASSUME NEW r \in wire', r.live
                 PROVE  /\ reply'[r.tab] = NoReply
                        /\ r.kind = "refresh" => pc'[r.tab] = "calling"
                        /\ r.kind = "login" => pc'[r.tab] = "loggingIn"
                        /\ r.kind = "logout" => pc'[r.tab] \in {"quitting", "loggingOut"}
      OBVIOUS
    <3>1. CASE r.tab = t
      BY <3>1 DEF Fits
    <3>2. CASE r.tab # t
      <4>1. r \in wire /\ r.tab \in Tabs \ {t}
        BY <2>2, <3>2
      <4> QED BY <4>1 DEF WireRight
    <3> QED BY <3>1, <3>2
  <2>4. \A r1, r2 \in wire' : r1.live /\ r2.live /\ r1.tab = r2.tab => r1 = r2
    BY <2>2 DEF WireRight
  <2>5. \A r \in wire' : r.kind = "refresh" => r.key \in 1 .. minted'
    <3> SUFFICES ASSUME NEW r \in wire', r.kind = "refresh" PROVE r.key \in 1 .. minted'
      OBVIOUS
    <3>1. \A q \in wire : q.kind = "refresh" => q.key \in 1 .. minted'
      BY <1>0 DEF WireRight, Refreshes
    <3> QED BY <3>1
  <2> QED BY <2>1, <2>3, <2>4, <2>5 DEF WireRight, Refreshes
<1>4. KeysRight'
  BY <1>0 DEF KeysRight
<1>5. LogoutsRight'
  BY DEF LogoutsRight
<1> QED BY <1>1, <1>2, <1>3, <1>4, <1>5

\* A tab with an answer, or outside the places in flight, has no request out.
LEMMA NothingOut ==
    ASSUME Base, NEW t \in Tabs, reply[t] # NoReply \/ pc[t] \notin InFlight
    PROVE  /\ \A r \in wire : r.live => r.tab # t
           /\ pc[t] \notin InFlight => reply[t] = NoReply
<1>1. \A r \in wire : r.kind \in {"refresh", "login", "logout"}
  BY DEF Base, BrowserTypeOK, Request
<1> QED BY <1>1 DEF Base, WireRight, InFlight

\* The call of the lock's holder ends.
LEMMA OwnerGone ==
    ASSUME BrowserTypeOK, NEW t \in Tabs, pc[t] \in Holding,
           NEW s \in Sessions \cup {NoSession}, OwnerReturns(t, s)
    PROVE  /\ lock' \in Tabs \cup {NoTab} /\ pc' \in [Tabs -> Places]
           /\ token' \in [Tabs -> Sessions \cup {NoSession}]
           /\ \A x \in Tabs : lock' = x <=> pc'[x] \in Holding
           /\ pc'[t] = "idle"
           /\ \A x \in Tabs \ {t} : pc'[x] = pc[x] \/ (pc[x] = "waiting" /\ pc'[x] = "idle")
<1>1. /\ \A x \in Tabs : pc'[x] = IF x \in Woken \cup {t} THEN "idle" ELSE pc[x]
      /\ lock' = NoTab
  BY DEF OwnerReturns
<1>2. pc' \in [Tabs -> Places] /\ token' \in [Tabs -> Sessions \cup {NoSession}]
  BY DEF OwnerReturns, BrowserTypeOK, Places
<1>3. \A x \in Tabs \ {t} : pc'[x] = pc[x] \/ (pc[x] = "waiting" /\ pc'[x] = "idle")
  BY <1>1 DEF Woken
<1>4. \A x \in Tabs : pc'[x] \notin Holding
  BY <1>1 DEF BrowserTypeOK, Holding
<1> QED BY <1>1, <1>2, <1>3, <1>4, NoValueAssumption

\* The tab's own requests and answers.
LEMMA BecomeOwnerBase ==
    ASSUME Base, NEW t \in Tabs, BecomeOwner(t)
    PROVE  Base' /\ RowsKept
<1> USE DEF BecomeOwner
<1>0. /\ minted \in Nat /\ pc[t] = "locking" /\ t \in Minting /\ pending \in {0, minted}
      /\ minted + Cardinality(Minting) <= MaxKeys /\ pc \in [Tabs -> Places]
  BY MaxKeysAssumption DEF Base, BrowserTypeOK, Minting, KeysRight
<1>1. reply[t] = NoReply /\ \A r \in wire : r.live => r.tab # t
  BY <1>0, NothingOut DEF InFlight
<1>2. /\ pc'[t] \in {"owner", "overdue"} /\ \A x \in Tabs \ {t} : pc'[x] = pc[x]
      /\ reply' = reply /\ wire' = wire /\ history' = history
  BY <1>0
<1>3. Minting' \subseteq Minting \ {t}
  BY <1>1, <1>2 DEF Minting, NoReply
<1>4. /\ minted' + Cardinality(Minting') <= MaxKeys
      /\ minted' \in 1 .. MaxKeys /\ minted <= minted' /\ pending' = minted'
  <2>1. CASE pending = 0
    BY <1>0, <1>3, <2>1, KeysSpent, MaxKeysAssumption
  <2>2. CASE pending # 0
    <3>1. minted' = minted /\ pending' = pending /\ pending = minted
      BY <1>0, <2>2
    <3>2. Minting' \subseteq Minting
      BY <1>3
    <3>3. minted' + Cardinality(Minting') <= MaxKeys
      BY <1>0, <3>1, <3>2, KeysKept
    <3> QED BY <1>0, <2>2, <3>1, <3>3, MaxKeysAssumption DEF Base, BrowserTypeOK
  <2> QED BY <2>1, <2>2
<1>5. BrowserTypeOK'
  <2>1. pc' \in [Tabs -> Places]
    BY <1>0 DEF Places
  <2>2. \A x \in Tabs : lock' = x <=> pc'[x] \in Holding
    BY <1>2, NoValueAssumption DEF Base, BrowserTypeOK, Holding
  <2>3. minted' \in 0 .. MaxKeys /\ pending' \in 0 .. MaxKeys
    BY <1>4
  <2> QED BY <2>1, <2>2, <2>3 DEF Base, BrowserTypeOK
<1>6. "logout" \notin history => \A r \in wire : r.kind # "logout"
  BY DEF Base, LogoutsRight
<1> QED BY <1>0, <1>1, <1>2, <1>4, <1>5, <1>6, MaxKeysAssumption, TabBase

\* A tab posts a request.
LEMMA PostBase ==
    ASSUME Base, NEW t \in Tabs, reply[t] # NoReply \/ pc[t] \notin InFlight,
           NEW kind \in {"refresh", "login", "logout"}, NEW key \in 0 .. MaxKeys,
           NEW session \in Sessions \cup {NoSession}, NEW to \in InFlight, Fits(kind, to),
           pc[t] \in Holding <=> to \in Holding,
           kind = "refresh" => key \in 1 .. minted, kind = "logout" <=> to \in {"quitting", "loggingOut"},
           Post(t, kind, key, session), Move(t, to), UNCHANGED <<serverVars, cookie, lock, token, minted, faults>>,
           pending' \in {0, pending}, aged' \in {aged, FALSE}, doubted' \subseteq Cookies \X (1 .. MaxKeys),
           reply' = [reply EXCEPT ![t] = NoReply],
           history' = IF kind = "logout" THEN history \cup {"logout"} ELSE history
    PROVE  Base' /\ RowsKept
<1>0. /\ minted \in Nat /\ pc \in [Tabs -> Places] /\ reply \in [Tabs -> Answer \cup {NoReply}]
      /\ pending \in {0, minted} /\ minted + Cardinality(Minting) <= MaxKeys
      /\ minted' = minted /\ cookie \in Cookies
  BY MaxKeysAssumption DEF Base, BrowserTypeOK, KeysRight
<1>1. \A r \in wire : r.live => r.tab # t
  BY NothingOut
<1>2. /\ pc'[t] = to /\ \A x \in Tabs \ {t} : pc'[x] = pc[x] /\ reply'[x] = reply[x]
      /\ reply'[t] = NoReply
  BY <1>0
<1> DEFINE q == [tab |-> t, kind |-> kind, cookie |-> cookie, key |-> key,
                 session |-> session, live |-> TRUE]
<1>3. q \in Request /\ wire' = wire \cup {q}
  BY <1>0 DEF Request, Post
<1>4. BrowserTypeOK'
  <2>1. pc' \in [Tabs -> Places] /\ reply' \in [Tabs -> Answer \cup {NoReply}]
    BY <1>0 DEF Places, InFlight
  <2>2. \A x \in Tabs : lock' = x <=> pc'[x] \in Holding
    BY <1>2 DEF Base, BrowserTypeOK
  <2>3. wire' \subseteq Request /\ pending' \in 0 .. MaxKeys /\ aged' \in BOOLEAN /\ history' \subseteq Events
    <3>0. wire \subseteq Request /\ pending \in 0 .. MaxKeys /\ aged \in BOOLEAN /\ history \subseteq Events
      BY DEF Base, BrowserTypeOK
    <3>1. wire' \subseteq Request
      BY <1>3, <3>0
    <3>2. pending' \in 0 .. MaxKeys /\ aged' \in BOOLEAN
      <4>1. pending' \in 0 .. MaxKeys
        BY <3>0, MaxKeysAssumption
      <4>2. aged' \in BOOLEAN
        BY <3>0, Zenon
      <4> QED BY <4>1, <4>2
    <3>3. history' \subseteq Events
      BY <3>0 DEF Events
    <3> QED BY <3>1, <3>2, <3>3
  <2> QED BY <1>0, <2>1, <2>2, <2>3 DEF Base, BrowserTypeOK
<1>5. Minting' \subseteq Minting
  BY <1>2 DEF Minting, NoReply, InFlight
<1>6. minted' + Cardinality(Minting') <= MaxKeys
  BY <1>0, <1>5, KeysKept
<1>7. \A r \in wire' :
         \/ r \in wire /\ (r.live => r.tab # t)
         \/ /\ r.tab = t /\ r.live /\ Fits(r.kind, pc'[t]) /\ r.cookie = cookie
            /\ r.kind = "refresh" => r.key \in 1 .. minted'
  BY <1>0, <1>1, <1>2, <1>3
<1>8. \A r1, r2 \in wire' : r1.live /\ r2.live /\ r1.tab = t /\ r2.tab = t => r1 = r2
  BY <1>1, <1>3
<1>9. history \subseteq history' /\
      ("logout" \notin history' =>
          pc'[t] \notin {"quitting", "loggingOut"} /\ \A r \in wire' : r.kind # "logout")
  BY <1>2, <1>3 DEF Base, LogoutsRight
<1>10. /\ minted <= minted' /\ pending' \in {0, minted'}
       /\ pc'[t] \in {"owner", "calling"} => minted' # 0
  BY <1>0, <1>2 DEF InFlight, Fits
<1> HIDE DEF q
<1> QED BY <1>0, <1>2, <1>4, <1>6, <1>7, <1>8, <1>9, <1>10, TabBase

\* A tab leaves its answer behind and posts nothing.
LEMMA AnswerBase ==
    ASSUME Base, NEW t \in Tabs, reply[t] # NoReply, UNCHANGED <<serverVars, cookie, faults>>,
           BrowserTypeOK', reply' = [reply EXCEPT ![t] = NoReply], wire' = wire, history' = history,
           pc'[t] \in {"idle", "owner"},
           \A x \in Tabs \ {t} : pc'[x] = pc[x] \/ (pc[x] = "waiting" /\ pc'[x] = "idle"),
           pending' \in {0, minted'},
           \/ minted' = minted /\ pc'[t] = "idle"
           \/ minted' = minted + 1 /\ reply[t].expired
    PROVE  Base' /\ RowsKept
<1>0. /\ minted \in Nat /\ reply \in [Tabs -> Answer \cup {NoReply}]
      /\ minted + Cardinality(Minting) <= MaxKeys
  BY MaxKeysAssumption DEF Base, BrowserTypeOK, KeysRight
<1>1. \A r \in wire : r.live => r.tab # t
  BY NothingOut
<1>2. reply'[t] = NoReply /\ \A x \in Tabs \ {t} : reply'[x] = reply[x]
  BY <1>0
<1>3. Minting' \subseteq Minting \ {t}
  BY <1>2 DEF Minting, NoReply
<1>4. /\ minted' + Cardinality(Minting') <= MaxKeys
      /\ minted <= minted' /\ (pc'[t] = "owner" => minted' # 0)
  <2>1. CASE minted' = minted /\ pc'[t] = "idle"
    <3>1. Minting' \subseteq Minting
      BY <1>3
    <3> QED BY <1>0, <2>1, <3>1, KeysKept
  <2>2. CASE minted' = minted + 1 /\ reply[t].expired
    <3>1. t \in Minting
      BY <2>2 DEF Minting
    <3>2. minted' + Cardinality(Minting') <= MaxKeys /\ minted' \in 1 .. MaxKeys
      BY <1>0, <1>3, <2>2, <3>1, KeysSpent
    <3> QED BY <1>0, <2>2, <3>2, MaxKeysAssumption
  <2> QED BY <2>1, <2>2
<1>5. "logout" \notin history => \A r \in wire : r.kind # "logout"
  BY DEF Base, LogoutsRight
<1> QED BY <1>1, <1>2, <1>4, <1>5, TabBase

LEMMA SendRefreshBase ==
    ASSUME Base, NEW t \in Tabs, SendRefresh(t)
    PROVE  Base' /\ RowsKept
<1> USE DEF SendRefresh
<1>0. /\ minted \in 0 .. MaxKeys /\ minted # 0 /\ pc[t] = "owner"
      /\ reply \in [Tabs -> Answer \cup {NoReply}] /\ doubted \subseteq Cookies \X (1 .. MaxKeys)
  BY DEF Base, BrowserTypeOK, KeysRight
<1>1. reply[t] = NoReply
  BY <1>0, NothingOut DEF InFlight
<1>2. reply' = [reply EXCEPT ![t] = NoReply]
  BY <1>0, <1>1
<1>3. minted \in 1 .. minted
  BY <1>0, MaxKeysAssumption
<1> QED BY <1>0, <1>2, <1>3, PostBase, Zenon DEF InFlight, Holding, Fits

LEMMA GiveUpAgedBase ==
    ASSUME Base, NEW t \in Tabs, GiveUpAged(t)
    PROVE  Base' /\ RowsKept
<1> USE DEF GiveUpAged, ClearPending
<1>0. /\ pc[t] = "overdue" /\ 0 \in 0 .. MaxKeys
      /\ reply \in [Tabs -> Answer \cup {NoReply}] /\ doubted \subseteq Cookies \X (1 .. MaxKeys)
  BY MaxKeysAssumption DEF Base, BrowserTypeOK
<1>1. reply[t] = NoReply
  BY <1>0, NothingOut DEF InFlight
<1>2. reply' = [reply EXCEPT ![t] = NoReply]
  BY <1>0, <1>1
<1> QED BY <1>0, <1>2, PostBase, Zenon DEF InFlight, Holding, Fits

LEMMA SubmitBase ==
    ASSUME Base, NEW t \in Tabs, SubmitLogin(t) \/ SubmitLogout(t)
    PROVE  Base' /\ RowsKept
<1>0. /\ pc[t] = "idle" /\ 0 \in 0 .. MaxKeys /\ token[t] \in Sessions \cup {NoSession}
      /\ reply \in [Tabs -> Answer \cup {NoReply}] /\ doubted \subseteq Cookies \X (1 .. MaxKeys)
  BY MaxKeysAssumption DEF Base, BrowserTypeOK, SubmitLogin, SubmitLogout
<1>1. reply[t] = NoReply
  BY <1>0, NothingOut DEF InFlight
<1>2. reply' = [reply EXCEPT ![t] = NoReply]
  BY <1>0, <1>1 DEF SubmitLogin, SubmitLogout
<1>3. CASE SubmitLogin(t)
  BY <1>0, <1>2, <1>3, PostBase, Zenon DEF InFlight, Holding, Fits, SubmitLogin
<1>4. CASE SubmitLogout(t)
  BY <1>0, <1>2, <1>4, PostBase, Zenon DEF InFlight, Holding, Fits, SubmitLogout
<1> QED BY <1>3, <1>4

LEMMA RefreshAnsweredBase ==
    ASSUME Base, NEW t \in Tabs, RefreshAnswered(t)
    PROVE  Base' /\ RowsKept
<1> USE DEF RefreshAnswered, ClearPending
<1>0. /\ pc[t] = "calling" /\ 0 \in 0 .. MaxKeys /\ minted \in 0 .. MaxKeys
      /\ reply \in [Tabs -> Answer \cup {NoReply}] /\ doubted \subseteq Cookies \X (1 .. MaxKeys)
      /\ minted + Cardinality(Minting) <= MaxKeys
  BY MaxKeysAssumption DEF Base, BrowserTypeOK, KeysRight
<1>1. reply[t] # NoReply /\ reply[t] \in Answer
  BY <1>0 DEF NoReply
<1>2. reply' \in [Tabs -> Answer \cup {NoReply}]
  BY <1>0
<1>3. ASSUME NEW s \in Sessions \cup {NoSession}, OwnerReturns(t, s), ClearPending,
             UNCHANGED <<wire, minted, history, doubted>>
      PROVE  Base' /\ RowsKept
  <2>1. /\ lock' \in Tabs \cup {NoTab} /\ pc' \in [Tabs -> Places]
        /\ token' \in [Tabs -> Sessions \cup {NoSession}]
        /\ \A x \in Tabs : lock' = x <=> pc'[x] \in Holding
        /\ pc'[t] = "idle"
        /\ \A x \in Tabs \ {t} : pc'[x] = pc[x] \/ (pc[x] = "waiting" /\ pc'[x] = "idle")
    BY <1>0, <1>3, OwnerGone DEF Base, Holding
  <2>2. BrowserTypeOK'
    BY <1>0, <1>2, <1>3, <2>1 DEF Base, BrowserTypeOK
  <2> QED BY <1>1, <1>3, <2>1, <2>2, AnswerBase
<1>4. CASE reply[t].code = "OK" /\ reply[t].expired /\ pending' = minted + 1 /\ minted' = minted + 1
           /\ aged' = FALSE /\ Move(t, "owner") /\ UNCHANGED <<lock, token, wire, history, doubted>>
  <2>1. t \in Minting
    BY <1>4 DEF Minting
  <2>2. Minting \in SUBSET Tabs
    BY DEF Minting
  <2>3. minted' \in 0 .. MaxKeys
    <3>1. Cardinality(Minting) # 0
      BY <2>1, <2>2, MintingFinite, FS_EmptySet
    <3> QED BY <1>0, <1>4, <2>2, <3>1, MintingFinite, MaxKeysAssumption
  <2>4. /\ pc' \in [Tabs -> Places] /\ pc'[t] = "owner" /\ \A x \in Tabs \ {t} : pc'[x] = pc[x]
    BY <1>4 DEF Base, BrowserTypeOK, Places
  <2>5. \A x \in Tabs : lock' = x <=> pc'[x] \in Holding
    BY <1>0, <1>4, <2>4 DEF Base, BrowserTypeOK, Holding
  <2>6. BrowserTypeOK'
    BY <1>2, <1>4, <2>3, <2>4, <2>5 DEF Base, BrowserTypeOK
  <2> QED BY <1>1, <1>4, <2>4, <2>6, AnswerBase
<1>5. CASE reply[t].code \in Ambiguous /\ ClearPending /\ Move(t, "quitting") /\ Post(t, "logout", 0, NoSession)
           /\ history' = history \cup {"logout"} /\ doubted' = doubted \cup {<<reply[t].sent, minted>>}
           /\ UNCHANGED <<lock, token, minted>>
  <2>1. minted \in 1 .. MaxKeys /\ reply[t].sent \in Cookies
    BY <1>0, <1>1, MaxKeysAssumption DEF Base, KeysRight, Answer
  <2>2. doubted' \subseteq Cookies \X (1 .. MaxKeys)
    BY <1>0, <1>5, <2>1
  <2> QED BY <1>0, <1>1, <1>5, <2>2, PostBase, Zenon DEF InFlight, Holding, Fits
<1> QED BY <1>0, <1>1, <1>3, <1>4, <1>5 DEF Answer

LEMMA OthersAnsweredBase ==
    ASSUME Base, NEW t \in Tabs, QuitAnswered(t) \/ LoginAnswered(t) \/ LogoutAnswered(t)
    PROVE  Base' /\ RowsKept
<1> USE DEF ClearPending
<1>0. /\ pc[t] \in InFlight /\ 0 \in 0 .. MaxKeys /\ pending \in {0, minted} /\ reply[t] # NoReply
      /\ reply \in [Tabs -> Answer \cup {NoReply}] /\ reply[t].stored
  BY MaxKeysAssumption
  DEF Base, BrowserTypeOK, KeysRight, InFlight, NoReply, QuitAnswered, LoginAnswered, LogoutAnswered
<1>1. reply' = [reply EXCEPT ![t] = NoReply] /\ reply' \in [Tabs -> Answer \cup {NoReply}]
      /\ reply[t].session \in Sessions \cup {NoSession}
  BY <1>0 DEF QuitAnswered, LoginAnswered, LogoutAnswered, Answer
<1>2. CASE QuitAnswered(t)
  <2> USE <1>2 DEF QuitAnswered, QuitEnds
  <2>1. /\ lock' \in Tabs \cup {NoTab} /\ pc' \in [Tabs -> Places]
        /\ token' \in [Tabs -> Sessions \cup {NoSession}]
        /\ \A x \in Tabs : lock' = x <=> pc'[x] \in Holding
        /\ pc'[t] = "idle"
        /\ \A x \in Tabs \ {t} : pc'[x] = pc[x] \/ (pc[x] = "waiting" /\ pc'[x] = "idle")
    BY OwnerGone DEF Base, Holding
  <2>2. BrowserTypeOK'
    BY <1>0, <1>1, <2>1 DEF Base, BrowserTypeOK
  <2> QED BY <1>0, <1>1, <2>1, <2>2, AnswerBase
<1>3. CASE LoginAnswered(t) \/ LogoutAnswered(t)
  <2> USE <1>3 DEF LoginAnswered, LogoutAnswered, LogoutEnds
  <2>1. /\ pc[t] \notin Holding /\ Move(t, "idle") /\ UNCHANGED <<serverVars, cookie, lock, wire, minted, faults, history, doubted>>
        /\ pending' \in {0, pending} /\ (aged' = aged \/ aged' = FALSE)
        /\ token' = [token EXCEPT ![t] = reply[t].session] \/ token' = [token EXCEPT ![t] = NoSession]
    BY DEF Holding
  <2>2. pc' \in [Tabs -> Places] /\ pc'[t] = "idle" /\ \A x \in Tabs \ {t} : pc'[x] = pc[x]
    BY <2>1 DEF Base, BrowserTypeOK, Places
  <2>3. token' \in [Tabs -> Sessions \cup {NoSession}]
    BY <1>1, <2>1 DEF Base, BrowserTypeOK
  <2>4. \A x \in Tabs : lock' = x <=> pc'[x] \in Holding
    BY <2>1, <2>2 DEF Base, BrowserTypeOK, Holding
  <2>5. aged' \in BOOLEAN
    BY <2>1, Zenon DEF Base, BrowserTypeOK
  <2>6. BrowserTypeOK'
    BY <1>0, <1>1, <2>1, <2>2, <2>3, <2>4, <2>5 DEF Base, BrowserTypeOK
  <2> QED BY <1>0, <1>1, <2>1, <2>2, <2>6, AnswerBase
<1> QED BY <1>2, <1>3

\* What a tab that stops waiting leaves behind.
LEMMA AbandonLeaves ==
    ASSUME Base, NEW t \in Tabs, Abandon(t)
    PROVE  /\ \A r \in wire' :
                 \/ r \in wire /\ r.tab # t
                 \/ ~r.live /\ \E q \in wire : q.kind = r.kind /\ q.cookie = r.cookie /\ q.key = r.key
           /\ wire' \subseteq Request
           /\ reply'[t] = NoReply /\ \A x \in Tabs \ {t} : reply'[x] = reply[x]
           /\ reply' \in [Tabs -> Answer \cup {NoReply}]
           /\ faults' \in 0 .. MaxFaults /\ history' \subseteq Events /\ history \subseteq history'
           /\ "logout" \in history' => "logout" \in history
<1> USE DEF Abandon
<1>0. /\ wire \subseteq Request /\ reply \in [Tabs -> Answer \cup {NoReply}]
      /\ faults \in 0 .. MaxFaults /\ history \subseteq Events
  BY DEF Base, BrowserTypeOK
<1>1. ASSUME NEW r \in wire'
      PROVE  /\ r \in Request
             /\ \/ r \in wire /\ r.tab # t
                \/ ~r.live /\ \E q \in wire : q.kind = r.kind /\ q.cookie = r.cookie /\ q.key = r.key
  <2>1. PICK q \in wire : r = IF q.tab = t THEN [q EXCEPT !.live = FALSE] ELSE q
    OBVIOUS
  <2>2. q \in Request
    BY <1>0
  <2>3. CASE q.tab = t
    <3>1. r = [q EXCEPT !.live = FALSE]
      BY <2>1, <2>3
    <3> QED BY <2>2, <3>1 DEF Request
  <2>4. CASE q.tab # t
    BY <2>1, <2>2, <2>4
  <2> QED BY <2>3, <2>4
<1>2. faults' \in 0 .. MaxFaults
  BY <1>0, MaxFaultsAssumption
<1>3. history' \subseteq Events /\ history \subseteq history' /\ ("logout" \in history' => "logout" \in history)
  BY <1>0 DEF Events
<1> QED BY <1>0, <1>1, <1>2, <1>3

LEMMA AbandonBase ==
    ASSUME Base, NEW t \in Tabs, Abandon(t), UNCHANGED <<serverVars, cookie, minted, doubted>>,
           pc' \in [Tabs -> Places], pc'[t] \in {"idle", "closed"},
           \A x \in Tabs \ {t} : pc'[x] = pc[x] \/ (pc[x] = "waiting" /\ pc'[x] = "idle"),
           lock' \in Tabs \cup {NoTab}, \A x \in Tabs : lock' = x <=> pc'[x] \in Holding,
           token' \in [Tabs -> Sessions \cup {NoSession}],
           pending' \in {0, pending}, aged' \in BOOLEAN
    PROVE  Base' /\ RowsKept
<1>0. /\ minted \in Nat /\ pending \in {0, minted} /\ 0 \in 0 .. MaxKeys
      /\ minted + Cardinality(Minting) <= MaxKeys
  BY MaxKeysAssumption DEF Base, BrowserTypeOK, KeysRight
<1>1. /\ \A r \in wire' :
            \/ r \in wire /\ r.tab # t
            \/ ~r.live /\ \E q \in wire : q.kind = r.kind /\ q.cookie = r.cookie /\ q.key = r.key
      /\ wire' \subseteq Request
      /\ reply'[t] = NoReply /\ \A x \in Tabs \ {t} : reply'[x] = reply[x]
      /\ reply' \in [Tabs -> Answer \cup {NoReply}]
      /\ faults' \in 0 .. MaxFaults /\ history' \subseteq Events /\ history \subseteq history'
      /\ "logout" \in history' => "logout" \in history
  BY AbandonLeaves
<1>2. BrowserTypeOK'
  BY <1>0, <1>1 DEF Base, BrowserTypeOK
<1>3. Minting' \subseteq Minting
  BY <1>1 DEF Minting, NoReply
<1>4. minted' + Cardinality(Minting') <= MaxKeys
  BY <1>0, <1>3, KeysKept
<1>5. "logout" \notin history' => \A r \in wire' : r.kind # "logout"
  BY <1>1 DEF Base, LogoutsRight
<1> QED BY <1>0, <1>1, <1>2, <1>4, <1>5, TabBase

LEMMA FaultBase ==
    ASSUME Base, NEW t \in Tabs, FetchFails(t) \/ Crash(t)
    PROVE  Base' /\ RowsKept
<1> USE DEF ClearPending
<1>0. /\ 0 \in 0 .. MaxKeys /\ pc \in [Tabs -> Places] /\ token \in [Tabs -> Sessions \cup {NoSession}]
      /\ lock \in Tabs \cup {NoTab} /\ aged \in BOOLEAN
      /\ \A x \in Tabs : lock = x <=> pc[x] \in Holding
  BY MaxKeysAssumption DEF Base, BrowserTypeOK
<1>1. CASE FetchFails(t)
  <2> USE <1>1 DEF FetchFails
  <2>1. ASSUME pc[t] \in Holding, OwnerReturns(t, NoSession), UNCHANGED minted,
               ClearPending \/ UNCHANGED <<pending, aged>>
        PROVE  Base' /\ RowsKept
    <3>1. /\ lock' \in Tabs \cup {NoTab} /\ pc' \in [Tabs -> Places]
          /\ token' \in [Tabs -> Sessions \cup {NoSession}]
          /\ \A x \in Tabs : lock' = x <=> pc'[x] \in Holding
          /\ pc'[t] = "idle"
          /\ \A x \in Tabs \ {t} : pc'[x] = pc[x] \/ (pc[x] = "waiting" /\ pc'[x] = "idle")
      BY <2>1, OwnerGone DEF Base
    <3>2. pending' \in {0, pending} /\ aged' \in BOOLEAN
      BY <1>0, <2>1, Zenon
    <3> QED BY <2>1, <3>1, <3>2, AbandonBase
  <2>2. ASSUME pc[t] \in {"loggingIn", "loggingOut"}, Move(t, "idle"), UNCHANGED <<lock, minted>>,
               token' \in {token, [token EXCEPT ![t] = NoSession]},
               ClearPending \/ UNCHANGED <<pending, aged>>
        PROVE  Base' /\ RowsKept
    <3>1. pc' \in [Tabs -> Places] /\ pc'[t] = "idle" /\ \A x \in Tabs \ {t} : pc'[x] = pc[x]
      BY <1>0, <2>2 DEF Places
    <3>2. \A x \in Tabs : lock' = x <=> pc'[x] \in Holding
      BY <1>0, <2>2, <3>1 DEF Holding
    <3>3. pending' \in {0, pending} /\ aged' \in BOOLEAN
      BY <1>0, <2>2, Zenon
    <3>4. token' \in [Tabs -> Sessions \cup {NoSession}]
      BY <1>0, <2>2
    <3> QED BY <1>0, <2>2, <3>1, <3>2, <3>3, <3>4, AbandonBase
  <2> QED BY <2>1, <2>2 DEF Holding, RefreshUnanswered, QuitEnds, LogoutEnds
<1>2. CASE Crash(t)
  <2> USE <1>2 DEF Crash
  <2>1. pc' \in [Tabs -> Places] /\ pc'[t] = "closed" /\ \A x \in Tabs \ {t} : pc'[x] = pc[x]
    BY <1>0 DEF Places
  <2>2. \A x \in Tabs : lock' = x <=> pc'[x] \in Holding
    BY <1>0, <2>1, NoValueAssumption DEF Holding
  <2>3. token' \in [Tabs -> Sessions \cup {NoSession}] /\ lock' \in Tabs \cup {NoTab} /\ aged' \in BOOLEAN
    BY <1>0
  <2> QED BY <2>1, <2>2, <2>3, AbandonBase
<1> QED BY <1>1, <1>2

LEMMA WindowBase ==
    ASSUME Base, RetryWindowPasses
    PROVE  Base' /\ RowsKept
<1> USE DEF Base, RetryWindowPasses
<1>0. minted \in Nat /\ minted' = minted
  BY MaxKeysAssumption DEF BrowserTypeOK
<1>1. RowsRight' /\ RowsKept
  BY <1>0, RowsUntouched
<1>2. CookiesRight'
  BY <1>1, RealKept, CookiesKept DEF CookiesRight
<1>3. BrowserTypeOK'
  BY DEF BrowserTypeOK
<1>4. WireRight'
  BY DEF WireRight, Refreshes
<1>5. KeysRight'
  <2>1. Minting' = Minting
    BY DEF Minting
  <2> QED BY <2>1 DEF KeysRight
<1>6. LogoutsRight'
  BY DEF LogoutsRight
<1> QED BY <1>1, <1>2, <1>3, <1>4, <1>5, <1>6

LEMMA ResetBase ==
    ASSUME Base, ResetElsewhere
    PROVE  Base' /\ RowsKept
<1> USE DEF Base, ResetElsewhere, tabVars
<1>1. RowsRight' /\ RowsKept
  BY RowsEnd
<1>2. CookiesRight'
  BY <1>1, RealKept, CookiesKept DEF CookiesRight
<1>3. BrowserTypeOK'
  BY DEF BrowserTypeOK
<1>4. WireRight'
  BY DEF WireRight, Refreshes
<1>5. KeysRight'
  <2>1. Minting' = Minting
    BY DEF Minting
  <2> QED BY <2>1 DEF KeysRight
<1>6. LogoutsRight'
  BY DEF LogoutsRight
<1> QED BY <1>1, <1>2, <1>3, <1>4, <1>5, <1>6

LEMMA StoreBase ==
    ASSUME Base, NEW t \in Tabs, StoreCookie(t)
    PROVE  Base' /\ RowsKept
<1> USE DEF Base, StoreCookie
<1>0. /\ minted \in Nat /\ minted' = minted /\ reply[t] \in Answer /\ reply[t] # NoReply
      /\ reply \in [Tabs -> Answer \cup {NoReply}]
  BY MaxKeysAssumption DEF BrowserTypeOK
<1>1. RowsRight' /\ RowsKept
  BY <1>0, RowsUntouched
<1>2. /\ reply'[t] \in Answer /\ reply'[t].code = reply[t].code /\ reply'[t].sent = reply[t].sent
      /\ reply'[t].set = reply[t].set /\ reply'[t].expired = reply[t].expired
      /\ \A x \in Tabs \ {t} : reply'[x] = reply[x]
  BY <1>0 DEF Answer
<1>3. reply'[t] # NoReply
  BY <1>2 DEF Answer, NoReply, Codes
<1>4. \A x \in Tabs : reply'[x] # NoReply <=> reply[x] # NoReply
  BY <1>0, <1>2, <1>3
<1>5. BrowserTypeOK'
  <2>1. reply' \in [Tabs -> Answer \cup {NoReply}]
    BY <1>0, <1>2
  <2>2. cookie' \in Cookies
    BY <1>0 DEF Answer
  <2> QED BY <2>1, <2>2 DEF BrowserTypeOK
<1>6. CookiesRight'
  <2>1. Real(cookie') /\ \A r \in wire' : Real(r.cookie)
    BY <1>0 DEF CookiesRight
  <2>2. \A x \in Tabs : reply'[x] # NoReply => Real(reply'[x].sent) /\ \A c \in reply'[x].set : Real(c)
    BY <1>2, <1>4 DEF CookiesRight
  <2> HIDE DEF Base, StoreCookie
  <2>3. \A c : Real(c) => RealNext(c)
    BY <1>1, RealKept DEF Base
  <2> QED BY <2>1, <2>2, <2>3, CookiesKept
<1>7. WireRight'
  BY <1>4 DEF WireRight, Refreshes, BrowserTypeOK, Request
<1>8. KeysRight'
  <2>1. \A x \in Tabs : reply'[x].expired = reply[x].expired
    BY <1>2
  <2>2. Minting' = Minting
    BY <2>1 DEF Minting
  <2> QED BY <2>2 DEF KeysRight
<1>9. LogoutsRight'
  BY DEF LogoutsRight
<1> QED BY <1>1, <1>5, <1>6, <1>7, <1>8, <1>9

\* The server answers a request, to a tab that waits for it or to nobody.
LEMMA RespondBase ==
    ASSUME Base, RowsRight', RowsKept, NEW r \in wire, NEW code \in Codes,
           NEW s \in Sessions \cup {NoSession}, NEW set \in SUBSET Cookies, NEW expired \in BOOLEAN,
           \A c \in set : RealNext(c), expired => KeyLeft, Respond(r, code, s, set, expired),
           UNCHANGED <<cookie, pending, aged, lock, pc, token, minted, faults, history, doubted>>
    PROVE  Base'
<1> USE DEF Base
<1>0. /\ minted \in Nat /\ reply \in [Tabs -> Answer \cup {NoReply}] /\ r \in Request /\ r.tab \in Tabs
      /\ wire' = wire \ {r}
  BY MaxKeysAssumption DEF BrowserTypeOK, Request, Respond
<1> DEFINE a == [code |-> code, session |-> s, sent |-> r.cookie, set |-> set, expired |-> expired,
                 stored |-> set = {}]
<1>1. a \in Answer /\ a # NoReply /\ a.sent = r.cookie /\ a.set = set /\ a.expired = expired
  <2>1. (set = {}) \in BOOLEAN
    OBVIOUS
  <2>2. a \in Answer
    BY <1>0, <2>1 DEF Answer, Request
  <2>3. "none" \notin Codes
    BY DEF Codes
  <2> QED BY <2>2, <2>3 DEF NoReply
<1>2. /\ reply' = IF r.live THEN [reply EXCEPT ![r.tab] = a] ELSE reply
      /\ \A x \in Tabs : reply'[x] = IF r.live /\ x = r.tab THEN a ELSE reply[x]
  BY <1>0 DEF Respond
<1> HIDE DEF a
<1>3. BrowserTypeOK'
  <2>1. reply' \in [Tabs -> Answer \cup {NoReply}]
    BY <1>0, <1>1, <1>2
  <2> QED BY <1>0, <2>1 DEF BrowserTypeOK
<1>4. CookiesRight'
  <2>0. Real(cookie) /\ (\A q \in wire : Real(q.cookie))
        /\ \A x \in Tabs : reply[x] # NoReply => Real(reply[x].sent) /\ \A c \in reply[x].set : Real(c)
    BY DEF CookiesRight
  <2>1. RowsRight
    OBVIOUS
  <2> HIDE DEF Base
  <2>2. \A c : Real(c) => RealNext(c)
    BY <2>1, RealKept
  <2>3. \A q \in wire' : RealNext(q.cookie)
    BY <1>0, <2>0, <2>2
  <2>4. \A x \in Tabs : reply'[x] # NoReply =>
            RealNext(reply'[x].sent) /\ \A c \in reply'[x].set : RealNext(c)
    BY <1>1, <1>2, <2>0, <2>2
  <2> QED BY <2>0, <2>2, <2>3, <2>4, CookiesKept
<1>5. WireRight'
  <2>0. \A q \in wire : q.tab \in Tabs /\ q.kind \in {"refresh", "login", "logout"}
    BY DEF BrowserTypeOK, Request
  <2>1. \A q \in wire' : q \in wire /\ (q.live /\ r.live => q.tab # r.tab)
    BY <1>0 DEF WireRight
  <2>2. \A x \in Tabs : reply'[x] # NoReply => pc'[x] \in InFlight
    BY <1>0, <1>2, <2>0 DEF WireRight, InFlight
  <2>3. \A q \in wire' : q.live => reply'[q.tab] = NoReply
    BY <1>2, <2>0, <2>1 DEF WireRight
  <2> QED BY <2>1, <2>2, <2>3 DEF WireRight, Refreshes
<1>6. KeysRight'
  <2>1. minted' + Cardinality(Minting') <= MaxKeys
    <3>1. CASE expired
      <4>1. Minting' \subseteq Minting \cup {r.tab}
        BY <1>2 DEF Minting
      <4> QED BY <1>0, <3>1, <4>1, KeysAsked
    <3>2. CASE ~expired
      <4>1. Minting' \subseteq Minting
        BY <1>1, <1>2, <3>2 DEF Minting
      <4> QED BY <1>0, <4>1, KeysKept DEF KeysRight
    <3> QED BY <3>1, <3>2
  <2> QED BY <2>1 DEF KeysRight
<1>7. LogoutsRight'
  BY <1>0 DEF LogoutsRight
<1> QED BY <1>3, <1>4, <1>5, <1>6, <1>7

\* The cookie a refresh carries.
LEMMA Carried ==
    ASSUME Base, NEW r \in Refreshes, r.cookie # NoCookie
    PROVE  /\ r.cookie[1] \in Sessions /\ r.cookie[2] \in 1 .. MaxKeys + 1
           /\ r.cookie = <<r.cookie[1], r.cookie[2]>> /\ r.cookie[2] <= gen[r.cookie[1]]
           /\ r.key \in 1 .. minted /\ r.key \in 1 .. MaxKeys /\ minted \in 0 .. MaxKeys
<1>1. r \in wire /\ Real(r.cookie) /\ r.key \in 1 .. minted /\ minted \in 0 .. MaxKeys
  BY DEF Base, CookiesRight, WireRight, Refreshes, BrowserTypeOK
<1>2. r.cookie \in Sessions \X (1 .. MaxKeys + 1) /\ r.cookie[2] <= gen[r.cookie[1]]
  BY <1>1 DEF Real, Cookies
<1> QED BY <1>1, <1>2, MaxKeysAssumption

LEMMA ServeRefreshBase ==
    ASSUME Base, NEW r \in wire, ServeRefresh(r)
    PROVE  Base' /\ RowsKept
<1> DEFINE s == r.cookie[1]
           g == r.cookie[2]
           a == Server!Answer(s, g, r.key)
           out == IF a.code = "OK" THEN {<<s, a.succ>>} ELSE {}
<1>0. /\ r \in Refreshes /\ RowsRight /\ minted \in 0 .. MaxKeys
      /\ UNCHANGED <<cookie, pending, aged, lock, pc, token, minted, faults, history, doubted>>
  BY DEF ServeRefresh, Refreshes, Base, BrowserTypeOK
<1>1. CASE r.cookie = NoCookie
  <2>1. UNCHANGED serverVars /\ Respond(r, "REFRESH_UNAVAILABLE", NoSession, {}, FALSE)
    BY <1>1 DEF ServeRefresh
  <2>2. RowsRight' /\ RowsKept
    BY <1>0, <2>1, RowsUntouched, MaxKeysAssumption
  <2>3. "REFRESH_UNAVAILABLE" \in Codes
    BY DEF Codes
  <2>4. {} \in SUBSET Cookies /\ NoSession \in Sessions \cup {NoSession} /\ \A c \in {} : RealNext(c)
    OBVIOUS
  <2> HIDE DEF s, g, a, out
  <2> QED BY <1>0, <2>1, <2>2, <2>3, <2>4, RespondBase
<1>2. CASE r.cookie # NoCookie
  <2>0. /\ s \in Sessions /\ g \in 1 .. MaxKeys + 1 /\ g <= gen[s]
        /\ r.key \in 1 .. minted /\ r.key \in 1 .. MaxKeys
    BY <1>0, <1>2, Carried
  <2>1. ASSUME a.code \in Codes, a.code = "OK" => a.succ = g + 1 /\ gen'[s] = g + 1,
               RowsRight', RowsKept, NEW e \in BOOLEAN, e => KeyLeft,
               Respond(r, a.code, s, out, e)
        PROVE  Base'
    <3>1. ASSUME a.code = "OK" PROVE <<s, a.succ>> \in Cookies /\ RealNext(<<s, a.succ>>)
      <4>1. gen'[s] \in 0 .. MaxKeys + 1 /\ g + 1 \in Int
        BY <2>0, <2>1, RowAfter, MaxKeysAssumption DEF RowsRight
      <4>2. g + 1 \in 1 .. MaxKeys + 1 /\ g + 1 <= gen'[s]
        BY <2>0, <2>1, <3>1, <4>1, MaxKeysAssumption
      <4>3. <<s, g + 1>> \in Cookies
        BY <2>0, <4>2 DEF Cookies
      <4> QED BY <2>0, <2>1, <3>1, <4>2, <4>3 DEF RealNext
    <3>2. out \in SUBSET Cookies /\ \A c \in out : RealNext(c)
      BY <3>1
    <3> HIDE DEF s, out, a
    <3> QED BY <1>0, <2>0, <2>1, <3>2, RespondBase
  <2>2. CASE Server!Recorded(s, r.key) /\ UNCHANGED serverVars
             /\ \E e \in BOOLEAN : (e => KeyLeft) /\ Respond(r, a.code, s, out, e)
    <3>1. RowsRight' /\ RowsKept /\ gen' = gen
      BY <1>0, <2>2, RowsUntouched, MaxKeysAssumption DEF serverVars
    <3>2. Recorded(s, r.key)
      BY <2>2 DEF Recorded, Server!Recorded
    <3>3. a.code \in Codes /\ (a.code = "OK" => a.succ = g + 1 /\ gen[s] = g + 1)
      <4> HIDE DEF a, s, g
      <4>1. a = Server!Answer(s, g, r.key)
        BY DEF a
      <4> QED BY <1>0, <2>0, <3>2, <4>1, RecordedEffect DEF Codes, Ambiguous
    <3> QED BY <2>1, <2>2, <3>1, <3>3
  <2>3. CASE Server!Refresh(s, g, r.key) /\ Respond(r, a.code, s, out, FALSE)
    <3>1. RowsRight' /\ RowsKept
      BY <1>0, <2>0, <2>3, RowsRefresh
    <3>2. \/ Exchanges(s, g, r.key) /\ a = [code |-> "OK", succ |-> g + 1]
          \/ a = [code |-> "SESSION_REVOKED", succ |-> 0]
      BY <1>0, <2>0, <2>3, RefreshEffect
    <3>3. gen \in [Sessions -> 0 .. MaxKeys + 1]
      BY <1>0 DEF RowsRight, Server!TypeOK
    <3>4. a.code \in Codes /\ (a.code = "OK" => a.succ = g + 1 /\ gen'[s] = g + 1)
      <4>1. CASE Exchanges(s, g, r.key) /\ a = [code |-> "OK", succ |-> g + 1]
        BY <2>0, <3>3, <4>1 DEF Exchanges, Codes
      <4>2. CASE a = [code |-> "SESSION_REVOKED", succ |-> 0]
        BY <4>2 DEF Codes
      <4> QED BY <3>2, <4>1, <4>2
    <3> QED BY <2>1, <2>3, <3>1, <3>4
  <2> QED BY <1>2, <2>2, <2>3 DEF ServeRefresh
<1> QED BY <1>1, <1>2

LEMMA ServeLoginBase ==
    ASSUME Base, NEW r \in wire, ServeLogin(r)
    PROVE  Base' /\ RowsKept
<1> USE DEF ServeLogin
<1>0. /\ RowsRight /\ minted \in 0 .. MaxKeys /\ r \in Request /\ r.kind = "login" /\ r.tab \in Tabs
      /\ UNCHANGED <<cookie, pending, aged, lock, pc, token, minted, faults, history, doubted>>
      /\ r.session \in Sessions \cup {NoSession} /\ epoch[User] \in 0 .. MaxEpoch
  BY DEF Base, BrowserTypeOK, Request, RowsRight, Server!TypeOK
<1>1. ASSUME NEW s \in Sessions, Server!LoginBegin(s, User, epoch[User]),
             wire' = (wire \ {r}) \cup {[r EXCEPT !.session = s]}, UNCHANGED reply
      PROVE  Base' /\ RowsKept
  <2>1. RowsRight' /\ RowsKept
    BY <1>0, <1>1, RowsLogin
  <2> DEFINE q == [r EXCEPT !.session = s]
  <2>2. /\ q \in Request /\ q.tab = r.tab /\ q.kind = "login" /\ q.live = r.live /\ q.cookie = r.cookie
        /\ wire' = (wire \ {r}) \cup {q}
    BY <1>0, <1>1 DEF Request
  <2> HIDE DEF q
  <2>3. BrowserTypeOK'
    BY <1>0, <1>1, <2>2 DEF Base, BrowserTypeOK
  <2>4. CookiesRight'
    <3>1. \A x \in wire' : \E y \in wire : x.cookie = y.cookie
      BY <2>2
    <3>2. \A c : Real(c) => RealNext(c)
      BY <1>0, <2>1, RealKept
    <3> QED BY <1>0, <1>1, <3>1, <3>2, CookiesKept DEF Base, CookiesRight
  <2>5. WireRight'
    <3>1. \A x \in wire' : x \in wire \/ x = q
      BY <2>2
    <3>2. \A x \in wire' : x.live /\ r.live /\ x.tab = r.tab => x = q
      BY <2>2 DEF Base, WireRight
    <3>3. q.live => r.live /\ reply[q.tab] = NoReply /\ pc[q.tab] = "loggingIn"
      BY <1>0, <2>2 DEF Base, WireRight
    <3>4. \A x \in wire' : x.live =>
            /\ reply'[x.tab] = NoReply
            /\ x.kind = "refresh" => pc'[x.tab] = "calling"
            /\ x.kind = "login" => pc'[x.tab] = "loggingIn"
            /\ x.kind = "logout" => pc'[x.tab] \in {"quitting", "loggingOut"}
      BY <1>0, <1>1, <2>2, <3>1, <3>3 DEF Base, WireRight
    <3>5. \A x, y \in wire' : x.live /\ y.live /\ x.tab = y.tab => x = y
      BY <2>2, <3>1, <3>2, <3>3 DEF Base, WireRight
    <3>6. \A x \in wire' : x.kind = "refresh" => x.key \in 1 .. minted'
      BY <1>0, <2>2, <3>1 DEF Base, WireRight, Refreshes
    <3>7. \A x \in Tabs : reply'[x] # NoReply => pc'[x] \in InFlight
      BY <1>0, <1>1 DEF Base, WireRight
    <3> QED BY <3>4, <3>5, <3>6, <3>7 DEF WireRight, Refreshes
  <2>6. KeysRight'
    <3>1. Minting' = Minting
      BY <1>0, <1>1 DEF Minting
    <3> QED BY <1>0, <3>1 DEF Base, KeysRight
  <2>7. LogoutsRight'
    BY <1>0, <2>2 DEF Base, LogoutsRight
  <2> QED BY <2>1, <2>3, <2>4, <2>5, <2>6, <2>7 DEF Base
<1>2. CASE /\ r.session # NoSession /\ Server!LoginCommit(r.session)
           /\ Respond(r, "OK", r.session, {<<r.session, 1>>}, FALSE)
  <2>1. r.session \in Sessions
    BY <1>0, <1>2
  <2>2. RowsRight' /\ RowsKept /\ gen' = [gen EXCEPT ![r.session] = 1]
    BY <1>0, <1>2, <2>1, RowsOpen
  <2>3. gen'[r.session] = 1
    BY <2>1, <2>2 DEF Base, RowsRight, Server!TypeOK
  <2>4. <<r.session, 1>> \in Cookies /\ RealNext(<<r.session, 1>>) /\ "OK" \in Codes
    BY <2>1, <2>3, MaxKeysAssumption DEF Cookies, RealNext, Codes
  <2>5. {<<r.session, 1>>} \in SUBSET Cookies /\ \A c \in {<<r.session, 1>>} : RealNext(c)
    BY <2>4
  <2> QED BY <1>0, <1>2, <2>2, <2>4, <2>5, RespondBase
<1>3. CASE /\ r.session # NoSession /\ Server!LoginRejected(r.session)
           /\ Respond(r, "AUTH_CREDENTIALS_INVALID", NoSession, {}, FALSE)
  <2>1. r.session \in Sessions
    BY <1>0, <1>3
  <2>2. RowsRight' /\ RowsKept
    BY <1>0, <1>3, <2>1, RowsLogin
  <2>3. /\ {} \in SUBSET Cookies /\ NoSession \in Sessions \cup {NoSession} /\ \A c \in {} : RealNext(c)
        /\ "AUTH_CREDENTIALS_INVALID" \in Codes
    BY DEF Codes
  <2> QED BY <1>0, <1>3, <2>2, <2>3, RespondBase
<1> QED BY <1>1, <1>2, <1>3

LEMMA ServeLogoutBase ==
    ASSUME Base, NEW r \in wire, ServeLogout(r)
    PROVE  Base' /\ RowsKept
<1> USE DEF ServeLogout
<1>0. /\ RowsRight /\ minted \in 0 .. MaxKeys /\ r \in Request
      /\ UNCHANGED <<cookie, pending, aged, lock, pc, token, minted, faults, history, doubted>>
      /\ r.session \in Sessions \cup {NoSession} /\ r.cookie[1] \in Sessions \cup {NoSession}
  BY DEF Base, BrowserTypeOK, Request, Cookies, NoCookie
<1>1. RowsRight' /\ RowsKept
  <2>1. CASE UNCHANGED serverVars
    BY <1>0, <2>1, RowsUntouched, MaxKeysAssumption
  <2>2. CASE Server!Logout({r.cookie[1], r.session} \ {NoSession})
    <3>1. ({r.cookie[1], r.session} \ {NoSession}) \in SUBSET Sessions
      BY <1>0
    <3> QED BY <1>0, <2>2, <3>1, RowsEnd
  <2> QED BY <2>1, <2>2
<1>2. /\ {NoCookie} \in SUBSET Cookies /\ NoSession \in Sessions \cup {NoSession} /\ "OK" \in Codes
      /\ \A c \in {NoCookie} : RealNext(c)
  BY DEF Codes, Cookies, RealNext
<1>3. Respond(r, "OK", NoSession, {NoCookie}, FALSE)
  OBVIOUS
<1> QED BY <1>0, <1>1, <1>2, <1>3, RespondBase

LEMMA BaseStep ==
    ASSUME Base, Next
    PROVE  Base' /\ RowsKept
<1>1. CASE Serve
  BY <1>1, ServeRefreshBase, ServeLoginBase, ServeLogoutBase DEF Serve
<1>2. ASSUME NEW t \in Tabs, Proceed(t) PROVE Base' /\ RowsKept
  BY <1>2, QuietSteps, BecomeOwnerBase, SendRefreshBase, GiveUpAgedBase, RefreshAnsweredBase,
     OthersAnsweredBase, StoreBase DEF Proceed, QuietStep
<1>3. ASSUME NEW t \in Tabs,
             StartRefresh(t) \/ Mount(t) \/ SubmitLogin(t) \/ SubmitLogout(t) \/ FetchFails(t) \/ Crash(t)
      PROVE  Base' /\ RowsKept
  BY <1>3, QuietSteps, SubmitBase, FaultBase DEF QuietStep
<1>4. CASE RetryWindowPasses
  BY <1>4, WindowBase
<1>5. CASE ResetElsewhere
  BY <1>5, ResetBase
<1> QED BY <1>1, <1>2, <1>3, <1>4, <1>5 DEF Next

\* What the proofs keep of a state, whatever happens: types, rows, wire, lock and bounds.
LEMMA InitBase == Init => Base
<1> SUFFICES ASSUME Init PROVE Base
  OBVIOUS
<1> USE DEF Init
<1>1. Server!TypeOK /\ Server!Coherent
  <2>1. Rows!Init
    BY SameRows
  <2>2. Rows!TypeOK
    BY <2>1, Rows!InitTypeOK, RowsAssumptions
  <2>3. ASSUME NEW s \in Sessions PROVE Server!CoherentSession(s)
    <3>1. /\ sess[s] = "none" /\ gen[s] = 0 /\ fam[s] = "none"
          /\ \A g \in 1 .. MaxKeys + 1 : cred[s][g] = "none"
      BY DEF Server!Init, Server!Gens
    <3> QED BY <3>1, MaxKeysAssumption DEF Server!CoherentSession, Server!Gens
  <2> QED BY <2>2, <2>3, SameRows DEF Server!Coherent
<1>2. RowsRight
  <2>1. /\ \A u \in {User} : account[u] = "active"
        /\ \A s \in Sessions : ~late[s] /\ login[s] = Server!NoLogin /\ sess[s] = "none"
        /\ \A s \in Sessions, k \in 1 .. MaxKeys : terminal[s][k] = Server!NoTerminal
    BY DEF Server!Init
  <2> QED BY <1>1, <2>1 DEF RowsRight, Recorded
<1>3. BrowserTypeOK
  <2>1. pc \in [Tabs -> Places] /\ \A x \in Tabs : lock = x <=> pc[x] \in Holding
    BY NoValueAssumption DEF Places, Holding
  <2>2. reply \in [Tabs -> Answer \cup {NoReply}] /\ token \in [Tabs -> Sessions \cup {NoSession}]
    OBVIOUS
  <2>3. cookie \in Cookies /\ aged \in BOOLEAN
    BY Zenon DEF Cookies
  <2>4. 0 \in 0 .. MaxKeys /\ 0 \in 0 .. MaxFaults
    BY MaxKeysAssumption, MaxFaultsAssumption
  <2> QED BY <2>1, <2>2, <2>3, <2>4 DEF BrowserTypeOK
<1>4. CookiesRight
  BY DEF CookiesRight, Real
<1>5. WireRight
  BY DEF WireRight, Refreshes
<1>6. KeysRight
  <2>1. Minting = {}
    BY DEF Minting, NoReply
  <2> QED BY <2>1, FS_EmptySet, MaxKeysAssumption DEF KeysRight
<1>7. LogoutsRight
  BY DEF LogoutsRight
<1> QED BY <1>2, <1>3, <1>4, <1>5, <1>6, <1>7 DEF Base

LEMMA Stutters == ASSUME Base, UNCHANGED vars PROVE Base'
<1> USE DEF Base, vars, tabVars
<1>0. minted \in Nat /\ minted' = minted
  BY MaxKeysAssumption DEF BrowserTypeOK
<1>1. RowsRight' /\ RowsKept
  BY <1>0, RowsUntouched
<1>2. CookiesRight'
  BY <1>1, RealKept, CookiesKept DEF CookiesRight
<1>3. BrowserTypeOK'
  BY DEF BrowserTypeOK
<1>4. WireRight'
  BY DEF WireRight, Refreshes
<1>5. KeysRight'
  <2>1. Minting' = Minting
    BY DEF Minting
  <2> QED BY <2>1 DEF KeysRight
<1>6. LogoutsRight'
  BY DEF LogoutsRight
<1> QED BY <1>1, <1>2, <1>3, <1>4, <1>5, <1>6

\* The tabs, their requests and answers, the lock and the bounds are well typed: one tab at
\* most is in a place that holds the Web Lock, and it is the holder.
THEOREM BrowserTypes == Spec => []BrowserTypeOK
<1>1. Base /\ [Next]_vars => Base'
  BY BaseStep, Stutters
<1>2. Base => BrowserTypeOK
  BY DEF Base
<1> QED BY InitBase, <1>1, <1>2, PTL DEF Spec

-----------------------------------------------------------------------------
(* HonestRight, step by step, as long as nobody logs out.                    *)

\* The cookies in play are those of sessions that were opened.
LEMMA InPlay ==
    ASSUME Base
    PROVE  /\ cookie \in Cookies
           /\ cookie # NoCookie => cookie[1] \in Sessions
           /\ \A c \in Cookies : c # NoCookie <=> c[1] \in Sessions
           /\ \A c \in Cookies : c # NoCookie => c = <<c[1], c[2]>> /\ c[2] \in 1 .. MaxKeys + 1
           /\ \A r \in Refreshes : r.cookie \in Cookies /\ r.key \in 1 .. MaxKeys /\ r.tab \in Tabs
           /\ \A t \in Tabs : reply[t] # NoReply => reply[t].sent \in Cookies /\ reply[t].set \subseteq Cookies
           /\ minted \in 0 .. MaxKeys /\ pending \in 0 .. MaxKeys
<1>1. /\ cookie \in Cookies /\ minted \in 0 .. MaxKeys /\ pending \in 0 .. MaxKeys
      /\ \A t \in Tabs : reply[t] # NoReply => reply[t].sent \in Cookies /\ reply[t].set \subseteq Cookies
      /\ \A r \in Refreshes : r.cookie \in Cookies /\ r.key \in 1 .. minted /\ r.tab \in Tabs
  BY DEF Base, BrowserTypeOK, Answer, Request, Refreshes, WireRight
<1>2. \A c \in Cookies : c # NoCookie => c \in Sessions \X (1 .. MaxKeys + 1)
  BY DEF Cookies
<1>3. \A c \in Cookies : c # NoCookie <=> c[1] \in Sessions
  BY <1>2, NoValueAssumption DEF NoCookie
<1>4. \A r \in Refreshes : r.key \in 1 .. MaxKeys
  BY <1>1, MaxKeysAssumption
<1> QED BY <1>1, <1>2, <1>3, <1>4

\* Steps that leave the cookie, the slot and the exchanges alone, and of requests and answers
\* at most take some away.
HonestFrame ==
    /\ UNCHANGED <<cookie, pending, minted, gen, terminal>>
    /\ \A s \in Sessions : sess'[s] = "active" => sess[s] = "active"
    /\ \A r \in Refreshes' : \E q \in Refreshes : q.cookie = r.cookie /\ q.key = r.key /\ (r.live => q.live)
    /\ \A t \in Tabs : pc'[t] = "calling" => pc[t] = "calling" /\ reply'[t] = reply[t]
    /\ \A t \in Tabs : pc'[t] \in {"owner", "overdue", "calling"} => pc[t] = pc'[t]
    /\ \A t \in Tabs : pc'[t] = "loggingIn" =>
          \/ pc[t] = "loggingIn" /\ reply'[t] = reply[t]
          \/ reply'[t].set = {}
    /\ \A s \in Sessions : reason'[s] = "REFRESH_TOKEN_REPLAYED" => reason[s] = "REFRESH_TOKEN_REPLAYED"
    /\ history \subseteq history'
    /\ \A t \in Tabs : pc[t] = "calling" /\ reply[t].stored /\ reply[t].code = "OK" =>
          pc'[t] = "calling" \/ history' # {}

LEMMA HonestKept ==
    ASSUME Base, HonestRight, HonestFrame
    PROVE  HonestRight'
<1> USE DEF HonestFrame
<1>0. /\ cookie \in Cookies
      /\ cookie # NoCookie => cookie[1] \in Sessions
      /\ \A r \in Refreshes : r.cookie # NoCookie => r.cookie[1] \in Sessions
      /\ \A t \in Tabs : reply[t] # NoReply /\ reply[t].sent # NoCookie => reply[t].sent[1] \in Sessions
  BY InPlay
<1>1. \A c : Asked(c)' => Asked(c)
  BY DEF Asked
<1>2. \A s : Within(s)' => Within(s)
  BY <1>1 DEF Within
<1>3. \A s : Fresh(s) => Fresh(s)'
  BY <1>1 DEF Fresh
<1>4. \A s, k : Recorded(s, k)' = Recorded(s, k)
  BY DEF Recorded
<1>5. RequestsRight'
  <2>1. ASSUME NEW r \in Refreshes', r.cookie # NoCookie, sess'[r.cookie[1]] = "active"
        PROVE  r.cookie[2] = gen'[r.cookie[1]] \/ Recorded(r.cookie[1], r.key)'
    BY <1>0, <1>4, <2>1 DEF HonestRight, RequestsRight
  <2>2. ASSUME NEW r1 \in Refreshes', NEW r2 \in Refreshes', r1.cookie # NoCookie,
               r1.cookie[1] = r2.cookie[1], sess'[r1.cookie[1]] = "active",
               ~Recorded(r1.cookie[1], r1.key)', ~Recorded(r2.cookie[1], r2.key)'
        PROVE  r1.key = r2.key
    BY <1>0, <1>4, <2>2 DEF HonestRight, RequestsRight
  <2>3. ASSUME NEW r \in Refreshes', r.cookie # NoCookie, Within(r.cookie[1])',
               sess'[r.cookie[1]] = "active", ~Recorded(r.cookie[1], r.key)'
        PROVE  r.key = minted' /\ pending' = minted'
    BY <1>0, <1>2, <1>4, <2>3 DEF HonestRight, RequestsRight
  <2> QED BY <2>1, <2>2, <2>3 DEF RequestsRight
<1>6. OwnerRight'
  BY DEF HonestRight, OwnerRight
<1>7. CookieRight'
  BY <1>1, <1>3 DEF HonestRight, CookieRight
<1>8. LoginsRight'
  <2> SUFFICES ASSUME NEW t \in Tabs, pc'[t] = "loggingIn", reply'[t] # NoReply, ~reply'[t].stored,
                      NEW c \in reply'[t].set
               PROVE  /\ c # NoCookie /\ c[2] = 1 /\ Fresh(c[1])' /\ cookie'[1] # c[1]
                      /\ \A u \in Tabs \ {t} : pc'[u] = "loggingIn" /\ ~reply'[u].stored => c \notin reply'[u].set
    BY DEF LoginsRight
  <2>1. pc[t] = "loggingIn" /\ reply'[t] = reply[t]
    OBVIOUS
  <2> QED BY <1>3, <2>1 DEF HonestRight, LoginsRight
<1>9. AnswersRight'
  <2> SUFFICES ASSUME NEW t \in Tabs, pc'[t] = "calling", reply'[t] # NoReply
               PROVE  AnswerRight(reply[t])'
    BY DEF AnswersRight
  <2>1. AnswerRight(reply[t]) /\ reply'[t] = reply[t]
    BY DEF HonestRight, AnswersRight
  <2>2. reply[t].sent # NoCookie => reply[t].sent[1] \in Sessions
    BY <1>0, <2>1
  <2> QED BY <2>1, <2>2 DEF AnswerRight
<1>10. RetryRecovers'
  BY <1>0 DEF HonestRight, RetryRecovers
<1>11. history' = {} => Untorn'
  <2> SUFFICES ASSUME history' = {}, history = {}, Untorn PROVE Untorn'
    BY DEF HonestRight
  <2>1. ASSUME cookie # NoCookie, pending # 0, Recorded(cookie[1], pending)', sess'[cookie[1]] = "active"
        PROVE  \/ terminal'[cookie[1]][pending].hash = cookie[2] /\ gen'[cookie[1]] = cookie[2] + 1
               \/ \E t \in Tabs : pc'[t] = "calling" /\ reply'[t].stored /\ reply'[t].code = "OK"
    BY <1>0, <1>4, <2>1 DEF Untorn
  <2>2. ASSUME NEW r \in Refreshes', r.live, r.cookie # NoCookie, Recorded(r.cookie[1], r.key)',
               sess'[r.cookie[1]] = "active"
        PROVE  terminal'[r.cookie[1]][r.key].hash = r.cookie[2] /\ gen'[r.cookie[1]] = r.cookie[2] + 1
    BY <1>0, <1>4, <2>2 DEF Untorn
  <2>3. ASSUME NEW t \in Tabs, pc'[t] = "calling", reply'[t].code \in Ambiguous
        PROVE  sess'[reply'[t].session] # "active"
    <3>1. reply'[t] = reply[t] /\ pc[t] = "calling" /\ reply[t] # NoReply
      BY <2>3 DEF NoReply, Ambiguous
    <3>2. reply[t].session \in Sessions
      BY <1>0, <2>3, <3>1 DEF HonestRight, AnswersRight, AnswerRight
    <3> QED BY <2>3, <3>1, <3>2 DEF Untorn
  <2> QED BY <2>1, <2>2, <2>3 DEF Untorn
<1>12. \A s \in Sessions : reason'[s] # "REFRESH_TOKEN_REPLAYED"
  BY DEF HonestRight
<1> QED BY <1>5, <1>6, <1>7, <1>8, <1>9, <1>10, <1>11, <1>12 DEF HonestRight

\* A tab that has an answer to its refresh has no other tab beside it that holds the lock.
LEMMA OneOwner ==
    ASSUME Base, NEW t \in Tabs, pc[t] \in Holding
    PROVE  /\ lock = t
           /\ \A x \in Tabs \ {t} : pc[x] \notin {"owner", "overdue", "calling", "quitting"}
  BY DEF Base, BrowserTypeOK, Holding

LEMMA TabFrames ==
    ASSUME Base, HonestRight, "logout" \notin history, NEW t \in Tabs,
           QuietStep(t) \/ SubmitLogin(t) \/ LoginAnswered(t)
    PROVE  HonestFrame
<1>0. pc \in [Tabs -> Places] /\ reply \in [Tabs -> Answer \cup {NoReply}]
  BY DEF Base, BrowserTypeOK
<1>1. CASE QuietStep(t)
  <2>1. /\ pc[t] \in Quiet /\ \E to \in Quiet : Move(t, to)
        /\ UNCHANGED <<serverVars, cookie, pending, aged, lock, token, wire, reply, minted, faults, history, doubted>>
    BY <1>1, QuietSteps
  <2>2. \A x \in Tabs : pc'[x] = pc[x] \/ (x = t /\ pc[x] \in Quiet /\ pc'[x] \in Quiet)
    BY <1>0, <2>1
  <2> QED BY <2>1, <2>2 DEF HonestFrame, Quiet, Refreshes, serverVars
<1>2. CASE SubmitLogin(t)
  <2> USE <1>2 DEF SubmitLogin
  <2>1. pc[t] = "idle" /\ pc'[t] = "loggingIn" /\ \A x \in Tabs \ {t} : pc'[x] = pc[x]
    BY <1>0
  <2>2. reply[t] = NoReply
    BY <2>1, NothingOut DEF InFlight
  <2>3. Refreshes' = Refreshes
    BY DEF Refreshes, Post
  <2> QED BY <2>1, <2>2, <2>3 DEF HonestFrame, serverVars, NoReply
<1>3. CASE LoginAnswered(t)
  <2> USE <1>3 DEF LoginAnswered
  <2>1. pc[t] = "loggingIn" /\ pc'[t] = "idle" /\ \A x \in Tabs \ {t} : pc'[x] = pc[x] /\ reply'[x] = reply[x]
    BY <1>0
  <2> QED BY <2>1 DEF HonestFrame, serverVars, Refreshes
<1> QED BY <1>1, <1>2, <1>3

LEMMA FaultFrames ==
    ASSUME Base, HonestRight, "logout" \notin history, NEW t \in Tabs, FetchFails(t) \/ Crash(t)
    PROVE  HonestFrame
<1>0. pc \in [Tabs -> Places] /\ reply \in [Tabs -> Answer \cup {NoReply}]
  BY DEF Base, BrowserTypeOK
<1>1. Abandon(t) /\ UNCHANGED <<serverVars, cookie>>
  BY DEF FetchFails, Crash
<1>2. /\ UNCHANGED <<pending, minted>> /\ pc'[t] \in {"idle", "closed"}
      /\ \A x \in Tabs \ {t} : pc'[x] = pc[x] \/ (pc[x] = "waiting" /\ pc'[x] = "idle")
  <2>1. CASE Crash(t)
    BY <1>0, <2>1 DEF Crash
  <2>2. CASE FetchFails(t)
    <3>1. pc[t] \in {"calling", "loggingIn"}
      BY <2>2 DEF FetchFails, Base, LogoutsRight, InFlight
    <3>2. CASE pc[t] = "calling"
      <4>1. OwnerReturns(t, NoSession) /\ UNCHANGED <<pending, minted>>
        BY <2>2, <3>2 DEF FetchFails, RefreshUnanswered
      <4>2. BrowserTypeOK /\ pc[t] \in Holding
        BY <3>2 DEF Base, Holding
      <4> QED BY <4>1, <4>2, OwnerGone
    <3>3. CASE pc[t] = "loggingIn"
      BY <1>0, <2>2, <3>3 DEF FetchFails
    <3> QED BY <3>1, <3>2, <3>3
  <2> QED BY <2>1, <2>2
<1>3. /\ \A r \in wire' :
            \/ r \in wire /\ r.tab # t
            \/ ~r.live /\ \E q \in wire : q.kind = r.kind /\ q.cookie = r.cookie /\ q.key = r.key
      /\ \A x \in Tabs \ {t} : reply'[x] = reply[x]
      /\ history \subseteq history'
  BY <1>1, AbandonLeaves
<1>4. \A r \in Refreshes' : \E q \in Refreshes : q.cookie = r.cookie /\ q.key = r.key /\ (r.live => q.live)
  BY <1>3 DEF Refreshes
<1>5. pc[t] = "calling" /\ reply[t].stored /\ reply[t].code = "OK" => history' # {}
  <2> SUFFICES ASSUME pc[t] = "calling", reply[t].stored, reply[t].code = "OK" PROVE history' # {}
    OBVIOUS
  <2>1. reply[t] # NoReply
    BY DEF NoReply
  <2>2. reply[t].set # {}
    BY <2>1 DEF HonestRight, AnswersRight, AnswerRight
  <2> QED BY <1>1, <2>2 DEF Abandon
<1> QED BY <1>1, <1>2, <1>3, <1>4, <1>5 DEF HonestFrame, serverVars

LEMMA OtherFrames ==
    ASSUME Base, HonestRight, "logout" \notin history,
           \/ RetryWindowPasses
           \/ ResetElsewhere
           \/ \E r \in wire, s \in Sessions :
                 /\ r.kind = "login" /\ Server!LoginBegin(s, User, epoch[User])
                 /\ wire' = (wire \ {r}) \cup {[r EXCEPT !.session = s]} /\ UNCHANGED reply
                 /\ UNCHANGED <<cookie, pending, aged, lock, pc, token, minted, faults, history, doubted>>
           \/ \E r \in wire :
                 /\ r.kind = "login" /\ r.session # NoSession /\ Server!LoginRejected(r.session)
                 /\ Respond(r, "AUTH_CREDENTIALS_INVALID", NoSession, {}, FALSE)
                 /\ UNCHANGED <<cookie, pending, aged, lock, pc, token, minted, faults, history, doubted>>
    PROVE  HonestFrame
<1>0. /\ pc \in [Tabs -> Places] /\ reply \in [Tabs -> Answer \cup {NoReply}] /\ wire \subseteq Request
      /\ RowsRight
  BY DEF Base, BrowserTypeOK
<1>1. CASE RetryWindowPasses
  BY <1>1 DEF RetryWindowPasses, HonestFrame, serverVars, Refreshes
<1>2. CASE ResetElsewhere
  <2>1. /\ UNCHANGED <<gen, terminal>> /\ RowsRight' /\ RowsKept
        /\ \A s \in Sessions : reason'[s] = "REFRESH_TOKEN_REPLAYED" => reason[s] = "REFRESH_TOKEN_REPLAYED"
    BY <1>0, <1>2, RowsEnd DEF ResetElsewhere, tabVars
  <2>2. \A s \in Sessions : sess'[s] = "active" => sess[s] = "active"
    <3>1. Server!Converge(Server!SessionsOf(User), "revoked", "PASSWORD_RESET")
      BY <1>2 DEF ResetElsewhere, Server!ResetPassword
    <3> QED BY <3>1 DEF Server!Converge
  <2> QED BY <1>2, <2>1, <2>2 DEF ResetElsewhere, tabVars, HonestFrame, Refreshes
<1>3. ASSUME NEW r \in wire, NEW s \in Sessions, r.kind = "login", Server!LoginBegin(s, User, epoch[User]),
             wire' = (wire \ {r}) \cup {[r EXCEPT !.session = s]}, UNCHANGED reply,
             UNCHANGED <<cookie, pending, aged, lock, pc, token, minted, faults, history, doubted>>
      PROVE  HonestFrame
  <2>1. UNCHANGED <<sess, gen, terminal, reason>>
    BY <1>0, <1>3, RowsLogin
  <2>2. [r EXCEPT !.session = s].kind = "login"
    BY <1>0, <1>3 DEF Request
  <2>3. Refreshes' \subseteq Refreshes
    BY <1>3, <2>2 DEF Refreshes
  <2> QED BY <1>3, <2>1, <2>3 DEF HonestFrame
<1>4. ASSUME NEW r \in wire, r.kind = "login", r.session # NoSession, Server!LoginRejected(r.session),
             Respond(r, "AUTH_CREDENTIALS_INVALID", NoSession, {}, FALSE),
             UNCHANGED <<cookie, pending, aged, lock, pc, token, minted, faults, history, doubted>>
      PROVE  HonestFrame
  <2>1. r.session \in Sessions /\ r.tab \in Tabs
    BY <1>0, <1>4 DEF Request
  <2>2. UNCHANGED <<sess, gen, terminal, reason>>
    BY <1>0, <1>4, <2>1, RowsLogin
  <2>3. Refreshes' \subseteq Refreshes
    BY <1>4 DEF Refreshes, Respond
  <2>4. \A x \in Tabs : reply'[x] = reply[x] \/ (pc[x] = "loggingIn" /\ reply'[x].set = {})
    BY <1>0, <1>4, <2>1 DEF Respond, Base, WireRight
  <2> QED BY <1>4, <2>2, <2>3, <2>4 DEF HonestFrame
<1> QED BY <1>1, <1>2, <1>3, <1>4

\* Nobody waits for a refresh unless a tab is calling.
LEMMA NothingAsked ==
    ASSUME Base, \A x \in Tabs : pc[x] # "calling"
    PROVE  (\A c : ~Asked(c)) /\ \A r \in Refreshes : ~r.live
  BY InPlay DEF Base, WireRight, Refreshes, Asked

LEMMA HonestOwner ==
    ASSUME Base, HonestRight, "logout" \notin history, NEW t \in Tabs, BecomeOwner(t), Base'
    PROVE  HonestRight'
<1> USE DEF BecomeOwner
<1>0. /\ pc \in [Tabs -> Places] /\ minted \in 0 .. MaxKeys /\ minted' \in 0 .. MaxKeys /\ RowsRight
      /\ pending \in {0, minted} /\ \A r \in Refreshes : r.key \in 1 .. minted
  BY DEF Base, BrowserTypeOK, KeysRight, WireRight
<1>1. \A x \in Tabs : pc[x] \notin {"owner", "overdue", "calling"}
  BY NoValueAssumption DEF Base, BrowserTypeOK, Holding
<1>2. /\ pc'[t] \in {"owner", "overdue"} /\ \A x \in Tabs \ {t} : pc'[x] = pc[x]
      /\ UNCHANGED <<cookie, wire, reply, sess, gen, terminal, reason, history>> /\ Refreshes' = Refreshes
  BY <1>0 DEF serverVars, Refreshes
<1>3. pending' = minted' /\ minted' # 0
      /\ (pending # 0 => pending' = pending /\ minted' = minted) /\ (pending = 0 => minted' = minted + 1)
  BY <1>0, MaxKeysAssumption
<1>4. /\ \A c : ~Asked(c) /\ \A r \in Refreshes : ~r.live
      /\ \A c : ~Asked(c)'
  <2>1. (\A c : ~Asked(c)) /\ \A r \in Refreshes : ~r.live
    BY <1>1, NothingAsked
  <2>2. \A c : ~Asked(c)'
    BY <1>1, <1>2, <2>1 DEF Asked
  <2> QED BY <2>1, <2>2
<1>5. \A s, k : Recorded(s, k)' = Recorded(s, k)
  BY <1>2 DEF Recorded
<1>6. RequestsRight'
  <2>1. \A s : Within(s)' => Within(s)
    BY <1>2, <1>4 DEF Within
  <2>2. ASSUME NEW r \in Refreshes', r.cookie # NoCookie, Within(r.cookie[1])',
               sess'[r.cookie[1]] = "active", ~Recorded(r.cookie[1], r.key)'
        PROVE  r.key = minted' /\ pending' = minted'
    <3>1. r.key = minted /\ pending = minted
      BY <1>2, <1>5, <2>1, <2>2 DEF HonestRight, RequestsRight
    <3>2. r.key \in 1 .. minted
      BY <1>0, <1>2
    <3>3. minted # 0
      BY <1>0, <3>1, <3>2
    <3> QED BY <1>3, <3>1, <3>3
  <2> QED BY <1>2, <1>5, <2>2 DEF HonestRight, RequestsRight
<1>7. OwnerRight'
  BY <1>2, <1>3, <1>4 DEF OwnerRight
<1>8. CookieRight'
  BY <1>4 DEF CookieRight
<1>9. LoginsRight'
  <2>1. \A s : Fresh(s) => Fresh(s)'
    BY <1>2, <1>4 DEF Fresh
  <2> QED BY <1>2, <2>1 DEF HonestRight, LoginsRight
<1>10. AnswersRight'
  BY <1>1, <1>2 DEF AnswersRight
<1>11. RetryRecovers'
  BY <1>2, <1>3 DEF HonestRight, RetryRecovers
<1>12. history' = {} => Untorn'
  <2> SUFFICES ASSUME history = {}, Untorn PROVE Untorn'
    BY <1>2 DEF HonestRight
  <2>1. ASSUME cookie # NoCookie, Recorded(cookie[1], pending'), sess[cookie[1]] = "active"
        PROVE  terminal[cookie[1]][pending'].hash = cookie[2] /\ gen[cookie[1]] = cookie[2] + 1
    <3>1. pending' \in 1 .. MaxKeys /\ cookie[1] \in Sessions
      BY <1>0, <1>3, <2>1, InPlay
    <3>2. pending' <= minted
      BY <1>0, <2>1, <3>1 DEF RowsRight
    <3>3. pending' = pending /\ pending # 0
      BY <1>0, <1>3, <3>2
    <3> QED BY <1>1, <2>1, <3>3 DEF Untorn
  <2> QED BY <1>1, <1>2, <1>4, <1>5, <2>1 DEF Untorn
<1> QED BY <1>2, <1>6, <1>7, <1>8, <1>9, <1>10, <1>11, <1>12 DEF HonestRight

LEMMA HonestSend ==
    ASSUME Base, HonestRight, "logout" \notin history, NEW t \in Tabs, SendRefresh(t)
    PROVE  HonestRight'
<1> USE DEF SendRefresh
<1>0. /\ pc \in [Tabs -> Places] /\ minted \in 0 .. MaxKeys /\ cookie \in Cookies
      /\ pending = minted /\ minted # 0 /\ reply[t] = NoReply
  <2>1. reply[t] = NoReply
    BY NothingOut DEF InFlight
  <2> QED BY <2>1 DEF Base, BrowserTypeOK, HonestRight, OwnerRight
<1>1. \A x \in Tabs \ {t} : pc[x] \notin {"owner", "overdue", "calling"}
  BY OneOwner DEF Holding
<1>2. /\ pc'[t] = "calling" /\ \A x \in Tabs \ {t} : pc'[x] = pc[x]
      /\ UNCHANGED <<cookie, pending, minted, reply, sess, gen, terminal, reason, history>>
  BY <1>0 DEF serverVars
<1> DEFINE q == [tab |-> t, kind |-> "refresh", cookie |-> cookie, key |-> minted,
                 session |-> NoSession, live |-> TRUE]
<1>3. /\ Refreshes' = Refreshes \cup {q}
      /\ q.cookie = cookie /\ q.key = minted /\ q.live /\ q.tab = t
  BY DEF Refreshes, Post
<1> HIDE DEF q
<1>4. /\ \A c : ~Asked(c) /\ \A r \in Refreshes : ~r.live
      /\ \A c : Asked(c)' => c = cookie
  <2>1. (\A c : ~Asked(c)) /\ \A r \in Refreshes : ~r.live
    BY <1>1, NothingAsked
  <2>2. \A c : Asked(c)' => c = cookie
    BY <1>0, <1>1, <1>2, <1>3, <2>1 DEF Asked
  <2> QED BY <2>1, <2>2
<1>5. \A s, k : Recorded(s, k)' = Recorded(s, k)
  BY <1>2 DEF Recorded
<1>6. \A s : Within(s)' => s = cookie[1] /\ Within(s)
  BY <1>2, <1>4 DEF Within
<1>7. ASSUME cookie # NoCookie, sess[cookie[1]] = "active"
      PROVE  /\ cookie[2] = gen[cookie[1]] \/ Recorded(cookie[1], minted)
             /\ \A r \in Refreshes : r.cookie # NoCookie /\ r.cookie[1] = cookie[1] /\ ~Recorded(r.cookie[1], r.key)
                    => r.key = minted
  <2>1. CASE terminal[cookie[1]][pending] = [hash |-> cookie[2], succ |-> cookie[2] + 1]
    <3>1. cookie[2] \in 1 .. MaxKeys + 1
      BY <1>7, InPlay
    <3>2. cookie[2] # 0
      BY <3>1
    <3> QED BY <1>0, <1>7, <2>1, <3>2 DEF Recorded, Server!NoTerminal, Within, HonestRight, RequestsRight
  <2>2. CASE cookie[2] = gen[cookie[1]]
    BY <1>7, <2>2 DEF Within, HonestRight, RequestsRight
  <2> QED BY <1>7, <2>1, <2>2 DEF HonestRight, RetryRecovers
<1>8. RequestsRight'
  <2>1. ASSUME NEW r \in Refreshes', r.cookie # NoCookie, sess[r.cookie[1]] = "active"
        PROVE  r.cookie[2] = gen[r.cookie[1]] \/ Recorded(r.cookie[1], r.key)
    BY <1>3, <1>7, <2>1 DEF HonestRight, RequestsRight
  <2>2. ASSUME NEW r1 \in Refreshes', NEW r2 \in Refreshes', r1.cookie # NoCookie,
               r1.cookie[1] = r2.cookie[1], sess[r1.cookie[1]] = "active",
               ~Recorded(r1.cookie[1], r1.key), ~Recorded(r2.cookie[1], r2.key)
        PROVE  r1.key = r2.key
    <3>1. r2.cookie # NoCookie
      <4>1. \A r \in Refreshes' : r.cookie \in Cookies
        BY <1>0, <1>3, InPlay
      <4> QED BY <2>2, <4>1, InPlay
    <3>2. CASE r1 = q
      BY <1>3, <1>7, <2>2, <3>1, <3>2
    <3>3. CASE r2 = q
      BY <1>3, <1>7, <2>2, <3>1, <3>3
    <3>4. CASE r1 # q /\ r2 # q
      BY <1>3, <2>2, <3>4 DEF HonestRight, RequestsRight
    <3> QED BY <3>2, <3>3, <3>4
  <2>3. ASSUME NEW r \in Refreshes', r.cookie # NoCookie, Within(r.cookie[1])',
               sess[r.cookie[1]] = "active", ~Recorded(r.cookie[1], r.key)
        PROVE  r.key = minted /\ pending = minted
    BY <1>0, <1>3, <1>6, <2>3 DEF HonestRight, RequestsRight
  <2> QED BY <1>2, <1>5, <2>1, <2>2, <2>3 DEF RequestsRight
<1>9. OwnerRight'
  BY <1>0, <1>1, <1>2, <1>3, <1>4 DEF OwnerRight
<1>10. CookieRight'
  BY <1>2, <1>4 DEF CookieRight
<1>11. LoginsRight'
  <2>1. \A s : Fresh(s) /\ cookie[1] # s => Fresh(s)'
    BY <1>2, <1>3, <1>4 DEF Fresh
  <2> QED BY <1>2, <2>1 DEF HonestRight, LoginsRight
<1>12. AnswersRight'
  BY <1>0, <1>1, <1>2 DEF AnswersRight
<1>13. RetryRecovers'
  BY <1>2 DEF HonestRight, RetryRecovers
<1>14. history' = {} => Untorn'
  <2> SUFFICES ASSUME history = {}, Untorn PROVE Untorn'
    BY <1>2 DEF HonestRight
  <2>1. ASSUME cookie # NoCookie, Recorded(cookie[1], pending), sess[cookie[1]] = "active"
        PROVE  terminal[cookie[1]][pending].hash = cookie[2] /\ gen[cookie[1]] = cookie[2] + 1
    BY <1>0, <1>1, <2>1 DEF Untorn
  <2>2. \A x \in Tabs : pc'[x] = "calling" => reply'[x].code \notin Ambiguous
    BY <1>0, <1>1, <1>2 DEF NoReply, Ambiguous
  <2> QED BY <1>0, <1>2, <1>3, <1>4, <1>5, <2>1, <2>2 DEF Untorn
<1> QED BY <1>2, <1>8, <1>9, <1>10, <1>11, <1>12, <1>13, <1>14 DEF HonestRight

\* The tab that waits with its answer is the only one that asks.
LEMMA OnlyAsked ==
    ASSUME Base, NEW t \in Tabs, pc[t] = "calling", reply[t] # NoReply
    PROVE  /\ \A c : Asked(c) <=> c = reply[t].sent
           /\ \A r \in Refreshes : ~r.live
<1>1. \A x \in Tabs \ {t} : pc[x] # "calling"
  BY OneOwner DEF Holding
<1>2. \A r \in Refreshes : ~r.live
  BY <1>1, InPlay DEF Base, WireRight, Refreshes
<1> QED BY <1>1, <1>2 DEF Asked

LEMMA HonestAnswered ==
    ASSUME Base, HonestRight, "logout" \notin history', NEW t \in Tabs, RefreshAnswered(t), Base'
    PROVE  HonestRight'
<1> USE DEF RefreshAnswered, ClearPending
<1> DEFINE a == reply[t]
<1>0. /\ pc \in [Tabs -> Places] /\ minted \in 0 .. MaxKeys /\ minted' \in 0 .. MaxKeys
      /\ a # NoReply /\ pc[t] = "calling" /\ a.stored
      /\ reply \in [Tabs -> Answer \cup {NoReply}] /\ RowsRight
  BY DEF Base, BrowserTypeOK, NoReply
<1>1. AnswerRight(a) /\ a.sent \in Cookies /\ (\A c : Asked(c) <=> c = a.sent)
      /\ pending = minted /\ minted # 0
  BY <1>0, OnlyAsked, InPlay DEF HonestRight, AnswersRight, OwnerRight
<1>2. \A x \in Tabs \ {t} : pc[x] \notin {"owner", "overdue", "calling"}
  BY <1>0, OneOwner DEF Holding
<1>3. a.code \notin Ambiguous /\ a.code \in {"OK", "REFRESH_UNAVAILABLE", "SESSION_REVOKED"}
      /\ UNCHANGED <<cookie, wire, sess, gen, terminal, reason, history>> /\ Refreshes' = Refreshes
  BY DEF serverVars, Refreshes, Ambiguous
<1>4. /\ \/ pc'[t] = "idle" /\ pending' = 0 /\ minted' = minted
         \/ pc'[t] = "owner" /\ pending' = minted' /\ minted' = minted + 1
      /\ \A x \in Tabs \ {t} : pc'[x] = pc[x] \/ pc'[x] = "idle"
      /\ reply'[t] = NoReply /\ \A x \in Tabs \ {t} : reply'[x] = reply[x]
  <2>1. CASE pc' = [x \in Tabs |-> IF x \in Woken \cup {t} THEN "idle" ELSE pc[x]]
             /\ pending' = 0 /\ minted' = minted
    BY <1>0, <2>1
  <2>2. CASE Move(t, "owner") /\ pending' = minted + 1 /\ minted' = minted + 1
    BY <1>0, <2>2
  <2> QED BY <1>3, <2>1, <2>2 DEF OwnerReturns
<1>5. ASSUME cookie # NoCookie, sess[cookie[1]] = "active"
      PROVE  /\ cookie[2] = gen[cookie[1]]
             /\ \A r \in Refreshes : r.cookie # NoCookie /\ r.cookie[1] = cookie[1] => Recorded(r.cookie[1], r.key)
  <2>1. CASE cookie[1] # a.sent[1]
    <3>1. Fresh(cookie[1]) /\ cookie[2] = 1
      BY <1>1, <1>5, <2>1 DEF HonestRight, CookieRight
    <3> QED BY <3>1 DEF Fresh
  <2>2. CASE cookie[1] = a.sent[1]
    <3>1. a.sent # NoCookie
      BY <1>1, <1>5, <2>2, InPlay
    <3>2. a.code = "OK"
      BY <1>1, <1>3, <1>5, <2>2, <3>1 DEF AnswerRight
    <3>3. terminal[cookie[1]][minted] = [hash |-> a.sent[2], succ |-> a.sent[2] + 1]
          /\ cookie[2] = gen[cookie[1]]
      BY <1>0, <1>1, <1>5, <2>2, <3>2 DEF AnswerRight
    <3>4. a.sent[2] \in 1 .. MaxKeys + 1
      BY <1>1, <3>1, InPlay
    <3>5. Recorded(cookie[1], minted)
      BY <3>3, <3>4 DEF Recorded, Server!NoTerminal
    <3>6. ASSUME NEW r \in Refreshes, r.cookie # NoCookie, r.cookie[1] = cookie[1], ~Recorded(r.cookie[1], r.key)
          PROVE  FALSE
      BY <1>5, <3>5, <3>6 DEF HonestRight, RequestsRight, Within
    <3> QED BY <3>3, <3>6
  <2> QED BY <2>1, <2>2
<1> HIDE DEF a, RefreshAnswered
<1>6. \A c : ~Asked(c)'
  <2>1. \A x \in Tabs : pc'[x] # "calling"
    BY <1>2, <1>4
  <2>2. \A r \in Refreshes' : ~r.live
    BY <1>0, <1>3, OnlyAsked DEF a
  <2> QED BY <2>1, <2>2 DEF Asked
<1>7. \A s, k : Recorded(s, k)' = Recorded(s, k)
  BY <1>3 DEF Recorded
<1>8. RequestsRight'
  <2>1. ASSUME NEW r \in Refreshes', r.cookie # NoCookie, Within(r.cookie[1])',
               sess[r.cookie[1]] = "active", ~Recorded(r.cookie[1], r.key)
        PROVE  FALSE
    <3>1. cookie[1] = r.cookie[1] /\ r.cookie[1] \in Sessions
      BY <1>3, <1>6, <2>1, InPlay DEF Within
    <3>2. cookie # NoCookie
      BY <3>1, InPlay
    <3> QED BY <1>3, <1>5, <2>1, <3>1, <3>2
  <2> QED BY <1>3, <1>7, <2>1 DEF HonestRight, RequestsRight
<1>9. OwnerRight'
  <2>1. \A r \in Refreshes' : ~r.live
    BY <1>0, <1>3, OnlyAsked DEF a
  <2>2. minted' = minted + 1 => minted' # 0
    BY <1>0
  <2> QED BY <1>2, <1>4, <2>1, <2>2 DEF OwnerRight
<1>10. CookieRight'
  BY <1>6 DEF CookieRight
<1>11. LoginsRight'
  <2>1. \A s : Fresh(s) => Fresh(s)'
    BY <1>3, <1>6 DEF Fresh
  <2>2. \A x \in Tabs : pc'[x] = "loggingIn" => pc[x] = "loggingIn" /\ reply'[x] = reply[x]
    BY <1>4
  <2> QED BY <1>3, <2>1, <2>2 DEF HonestRight, LoginsRight
<1>12. AnswersRight'
  BY <1>2, <1>4 DEF AnswersRight
<1>13. RetryRecovers'
  BY <1>3, <1>5 DEF RetryRecovers
<1>14. history' = {} => Untorn'
  <2>1. ASSUME cookie # NoCookie, pending' # 0, Recorded(cookie[1], pending') PROVE FALSE
    <3>1. pending' = minted + 1 /\ pending' = minted'
      BY <1>4, <2>1
    <3>2. pending' \in 1 .. MaxKeys /\ cookie[1] \in Sessions
      BY <1>0, <2>1, <3>1, InPlay
    <3>3. pending' <= minted
      BY <1>0, <2>1, <3>2 DEF RowsRight
    <3> QED BY <1>0, <3>1, <3>3
  <2>2. \A r \in Refreshes' : ~r.live
    BY <1>0, <1>3, OnlyAsked DEF a
  <2>3. \A x \in Tabs : pc'[x] # "calling"
    BY <1>2, <1>4
  <2> QED BY <1>3, <1>7, <2>1, <2>2, <2>3 DEF Untorn
<1> QED BY <1>3, <1>8, <1>9, <1>10, <1>11, <1>12, <1>13, <1>14 DEF HonestRight

LEMMA HonestStore ==
    ASSUME Base, HonestRight, "logout" \notin history, NEW t \in Tabs, StoreCookie(t)
    PROVE  HonestRight'
<1> USE DEF StoreCookie
<1> DEFINE a == reply[t]
<1>0. /\ reply \in [Tabs -> Answer \cup {NoReply}] /\ RowsRight /\ a # NoReply /\ ~a.stored
      /\ UNCHANGED <<pending, pc, wire, minted, sess, gen, terminal, reason, history>> /\ Refreshes' = Refreshes
      /\ cookie' \in a.set /\ a.set \subseteq Cookies /\ a.sent \in Cookies /\ a \in Answer
  BY InPlay DEF Base, BrowserTypeOK, serverVars, Refreshes
<1>1. /\ reply'[t].code = a.code /\ reply'[t].sent = a.sent /\ reply'[t].set = a.set /\ reply'[t].stored
      /\ reply'[t].session = a.session /\ reply'[t].code # "none"
      /\ \A x \in Tabs \ {t} : reply'[x] = reply[x]
  BY <1>0 DEF Answer, Codes
<1>2. \A x \in Tabs : reply'[x] # NoReply <=> reply[x] # NoReply
  BY <1>0, <1>1 DEF NoReply
<1>3. \A c : Asked(c)' <=> Asked(c)
  BY <1>0, <1>1, <1>2 DEF Asked
<1>4. \A s : Fresh(s)' <=> Fresh(s)
  BY <1>0, <1>3 DEF Fresh
<1>5. \A s, k : Recorded(s, k)' = Recorded(s, k)
  BY <1>0 DEF Recorded
<1>6. pc[t] \in {"calling", "loggingIn"}
  BY <1>0 DEF Base, WireRight, LogoutsRight, InFlight
<1>7. OwnerRight'
  BY <1>0 DEF HonestRight, OwnerRight
<1>8. CASE pc[t] = "calling"
  <2>1. /\ AnswerRight(a) /\ a.code = "OK" /\ a.set = {<<a.sent[1], a.sent[2] + 1>>}
        /\ a.session = a.sent[1] /\ a.sent # NoCookie
    BY <1>0, <1>8 DEF HonestRight, AnswersRight, AnswerRight
  <2>2. /\ cookie' = <<a.sent[1], a.sent[2] + 1>> /\ cookie'[1] = a.sent[1] /\ cookie'[2] = a.sent[2] + 1
        /\ \A c : Asked(c) <=> c = a.sent
        /\ \A r \in Refreshes : ~r.live
    BY <1>0, <1>8, <2>1, OnlyAsked
  <2>3. \A x \in Tabs \ {t} : pc[x] # "calling"
    BY <1>8, OneOwner DEF Holding
  <2> HIDE DEF a
  <2>4. RequestsRight'
    <3>1. \A s : Within(s)' => Within(s)
      BY <1>0, <1>3, <2>2 DEF Within
    <3> QED BY <1>0, <1>5, <3>1 DEF HonestRight, RequestsRight
  <2>5. CookieRight'
    BY <1>3, <2>2 DEF CookieRight
  <2>6. LoginsRight'
    <3> SUFFICES ASSUME NEW x \in Tabs, pc[x] = "loggingIn", reply'[x] # NoReply, ~reply'[x].stored,
                        NEW c \in reply'[x].set
                 PROVE  /\ c # NoCookie /\ c[2] = 1 /\ Fresh(c[1])' /\ cookie'[1] # c[1]
                        /\ \A u \in Tabs \ {x} : pc[u] = "loggingIn" /\ ~reply'[u].stored => c \notin reply'[u].set
      BY <1>0 DEF LoginsRight
    <3>1. x # t /\ reply'[x] = reply[x]
      BY <1>8, <1>1
    <3>2. /\ c # NoCookie /\ c[2] = 1 /\ Fresh(c[1])
          /\ \A u \in Tabs \ {x} : pc[u] = "loggingIn" /\ ~reply[u].stored => c \notin reply[u].set
      BY <3>1 DEF HonestRight, LoginsRight
    <3>3. cookie'[1] # c[1]
      BY <1>0, <2>2, <3>2 DEF Fresh
    <3> QED BY <1>1, <1>4, <1>8, <3>2, <3>3
  <2>7. AnswersRight'
    <3>1. AnswerRight(reply[t])'
      BY <1>0, <1>1, <2>1, <2>2 DEF AnswerRight, Ambiguous
    <3> QED BY <1>0, <2>3, <3>1 DEF AnswersRight
  <2>8. RetryRecovers'
    BY <1>0, <2>1, <2>2 DEF RetryRecovers, AnswerRight
  <2>9. history' = {} => Untorn'
    <3>1. \A x \in Tabs : pc'[x] = "calling" => reply'[x].code \notin Ambiguous
      BY <1>0, <1>1, <2>1, <2>3 DEF Ambiguous
    <3> QED BY <1>0, <1>1, <1>8, <2>1, <2>2, <3>1 DEF Untorn
  <2> QED BY <1>0, <1>7, <2>4, <2>5, <2>6, <2>7, <2>8, <2>9 DEF HonestRight
<1>9. CASE pc[t] = "loggingIn"
  <2>1. /\ cookie' # NoCookie /\ cookie'[2] = 1 /\ Fresh(cookie'[1]) /\ cookie'[1] \in Sessions
        /\ cookie' = <<cookie'[1], 1>>
        /\ \A u \in Tabs \ {t} : pc[u] = "loggingIn" /\ ~reply[u].stored => cookie' \notin reply[u].set
    <3>1. /\ cookie' # NoCookie /\ cookie'[2] = 1 /\ Fresh(cookie'[1])
          /\ \A u \in Tabs \ {t} : pc[u] = "loggingIn" /\ ~reply[u].stored => cookie' \notin reply[u].set
      BY <1>0, <1>9 DEF HonestRight, LoginsRight
    <3>2. cookie' \in Cookies
      BY <1>0
    <3> QED BY <3>1, <3>2, InPlay
  <2>2. \A x \in Tabs : pc[x] = "calling" => reply'[x] = reply[x]
    BY <1>1, <1>9
  <2> HIDE DEF a
  <2>3. RequestsRight'
    <3>1. ASSUME NEW r \in Refreshes, r.cookie # NoCookie, Within(r.cookie[1])' PROVE Within(r.cookie[1])
      BY <1>3, <2>1, <3>1 DEF Within, Fresh
    <3> QED BY <1>0, <1>5, <3>1 DEF HonestRight, RequestsRight
  <2>4. CookieRight'
    BY <1>4, <2>1 DEF CookieRight
  <2>5. LoginsRight'
    <3> SUFFICES ASSUME NEW x \in Tabs, pc[x] = "loggingIn", reply'[x] # NoReply, ~reply'[x].stored,
                        NEW c \in reply'[x].set
                 PROVE  /\ c # NoCookie /\ c[2] = 1 /\ Fresh(c[1])' /\ cookie'[1] # c[1]
                        /\ \A u \in Tabs \ {x} : pc[u] = "loggingIn" /\ ~reply'[u].stored => c \notin reply'[u].set
      BY <1>0 DEF LoginsRight
    <3>1. x # t /\ reply'[x] = reply[x]
      BY <1>1
    <3>2. /\ c # NoCookie /\ c[2] = 1 /\ Fresh(c[1])
          /\ \A u \in Tabs \ {x} : pc[u] = "loggingIn" /\ ~reply[u].stored => c \notin reply[u].set
      BY <3>1 DEF HonestRight, LoginsRight
    <3>3. c \in Cookies
      BY <3>1, InPlay
    <3>4. c = <<c[1], 1>> /\ c # cookie'
      BY <2>1, <3>1, <3>2, <3>3, InPlay
    <3>5. cookie'[1] # c[1]
      BY <2>1, <3>4
    <3>6. \A u \in Tabs \ {x} : pc[u] = "loggingIn" /\ ~reply'[u].stored => c \notin reply'[u].set
      BY <1>1, <3>2
    <3> QED BY <1>4, <3>2, <3>5, <3>6
  <2>6. AnswersRight'
    <3> SUFFICES ASSUME NEW x \in Tabs, pc[x] = "calling", reply[x] # NoReply PROVE AnswerRight(reply[x])'
      BY <1>0, <1>2 DEF AnswersRight
    <3>1. AnswerRight(reply[x]) /\ reply'[x] = reply[x] /\ Asked(reply[x].sent) /\ reply[x].sent \in Cookies
      BY <2>2, InPlay DEF HonestRight, AnswersRight, Asked
    <3>2. reply[x].sent[1] # cookie'[1]
      BY <2>1, <3>1 DEF Fresh
    <3> QED BY <1>0, <3>1, <3>2 DEF AnswerRight
  <2>7. RetryRecovers'
    BY <1>0, <2>1 DEF RetryRecovers, Fresh
  <2>8. history' = {} => Untorn'
    <3>1. ASSUME pending # 0, Recorded(cookie'[1], pending), sess[cookie'[1]] = "active" PROVE FALSE
      <4>1. pending \in 1 .. MaxKeys
        BY <3>1, InPlay
      <4> DEFINE T == terminal[cookie'[1]][pending]
      <4>2. T.hash # 0 /\ T.succ # 0 /\ T.succ = T.hash + 1 /\ T.succ <= 1
        BY <1>0, <2>1, <3>1, <4>1 DEF RowsRight, Fresh
      <4>3. cookie'[1] \in Sessions
        BY <1>0, <2>1
      <4>4. T \in [hash : 0 .. MaxKeys + 1, succ : 0 .. MaxKeys + 1]
        BY <4>1, <4>3, TerminalTyped DEF Base
      <4> HIDE DEF T
      <4> QED BY <4>2, <4>4, MaxKeysAssumption
    <3> QED BY <1>0, <1>5, <2>2, <3>1 DEF HonestRight, Untorn
  <2> QED BY <1>0, <1>7, <2>3, <2>4, <2>5, <2>6, <2>7, <2>8 DEF HonestRight
<1> QED BY <1>6, <1>8, <1>9

\* The server answers a refresh.
Tells(r, code, s, set, expired) ==
    /\ Respond(r, code, s, set, expired)
    /\ UNCHANGED <<cookie, pending, aged, lock, pc, token, minted, faults, history, doubted>>

LEMMA RespondAsked ==
    ASSUME Base, HonestRight, NEW r \in Refreshes, NEW code \in Codes, NEW s, NEW set, NEW e,
           Tells(r, code, s, set, e), \A x \in Sessions : Fresh(x) => gen'[x] = gen[x]
    PROVE  /\ Refreshes' = Refreshes \ {r}
           /\ UNCHANGED <<cookie, pending, pc, minted, history>>
           /\ \A c : Asked(c)' => Asked(c)
           /\ \A x : Within(x)' => Within(x)
           /\ r.live => Asked(r.cookie) /\ r.key = minted
           /\ \A x \in Tabs : reply[x] # NoReply => reply'[x] = reply[x]
           /\ \A x \in Tabs : pc[x] = "calling" /\ reply'[x] # NoReply =>
                 \/ reply[x] # NoReply /\ reply'[x] = reply[x]
                 \/ /\ r.live
                    /\ reply'[x] = [code |-> code, session |-> s, sent |-> r.cookie, set |-> set,
                                    expired |-> e, stored |-> set = {}]
           /\ OwnerRight' /\ CookieRight' /\ LoginsRight'
<1> USE DEF Tells
<1> DEFINE a == [code |-> code, session |-> s, sent |-> r.cookie, set |-> set, expired |-> e,
                 stored |-> set = {}]
<1>0. /\ reply \in [Tabs -> Answer \cup {NoReply}] /\ r \in wire /\ r.tab \in Tabs /\ r.kind = "refresh"
      /\ r.live => reply[r.tab] = NoReply /\ pc[r.tab] = "calling"
  BY DEF Base, BrowserTypeOK, Request, Refreshes, WireRight
<1>1. /\ Refreshes' = Refreshes \ {r}
      /\ UNCHANGED <<cookie, pending, pc, minted, history>>
      /\ \A x \in Tabs : reply'[x] = IF r.live /\ x = r.tab THEN a ELSE reply[x]
  BY <1>0 DEF Respond, Refreshes
<1>2. a.sent = r.cookie
  OBVIOUS
<1>3. r.live => Asked(r.cookie) /\ r.key = minted
  BY DEF Asked, HonestRight, OwnerRight
<1> HIDE DEF a, Tells
<1>4. \A c : Asked(c)' => Asked(c)
  BY <1>1, <1>2, <1>3 DEF Asked
<1>5. \A x : Within(x)' => Within(x)
  BY <1>1, <1>4 DEF Within
<1>6. \A x \in Tabs : reply[x] # NoReply => reply'[x] = reply[x]
  BY <1>0, <1>1
<1>7. \A x \in Tabs : pc[x] = "loggingIn" => reply'[x] = reply[x]
  BY <1>0, <1>1
<1>8. \A x \in Sessions : Fresh(x) => Fresh(x)'
  BY <1>1, <1>4 DEF Fresh
<1>9. OwnerRight'
  BY <1>1 DEF HonestRight, OwnerRight
<1>10. CookieRight'
  BY <1>1, <1>4, <1>8, InPlay DEF HonestRight, CookieRight
<1>11. LoginsRight'
  <2> SUFFICES ASSUME NEW x \in Tabs, pc[x] = "loggingIn", reply'[x] # NoReply, ~reply'[x].stored,
                      NEW c \in reply'[x].set
               PROVE  /\ c # NoCookie /\ c[2] = 1 /\ Fresh(c[1])' /\ cookie[1] # c[1]
                      /\ \A u \in Tabs \ {x} : pc[u] = "loggingIn" /\ ~reply'[u].stored => c \notin reply'[u].set
    BY <1>1 DEF LoginsRight
  <2>1. /\ c # NoCookie /\ c[2] = 1 /\ Fresh(c[1]) /\ cookie[1] # c[1] /\ c \in Cookies
        /\ \A u \in Tabs \ {x} : pc[u] = "loggingIn" /\ ~reply[u].stored => c \notin reply[u].set
    BY <1>7, InPlay DEF HonestRight, LoginsRight
  <2>2. c[1] \in Sessions
    BY <2>1, InPlay
  <2> QED BY <1>7, <1>8, <2>1, <2>2
<1>12. \A x \in Tabs : pc[x] = "calling" /\ reply'[x] # NoReply =>
                 \/ reply[x] # NoReply /\ reply'[x] = reply[x]
                 \/ r.live /\ reply'[x] = a
  BY <1>1
<1> QED BY <1>1, <1>3, <1>4, <1>5, <1>6, <1>9, <1>10, <1>11, <1>12 DEF a

\* Without a cookie, or by its record: the rows stay as they are.
LEMMA HonestTold ==
    ASSUME Base, HonestRight, "logout" \notin history, NEW r \in Refreshes, UNCHANGED serverVars,
           NEW code \in Codes, NEW s, NEW set, NEW e, Tells(r, code, s, set, e),
           \/ r.cookie = NoCookie /\ code = "REFRESH_UNAVAILABLE" /\ set = {}
           \/ /\ r.cookie # NoCookie /\ s = r.cookie[1] /\ code = "OK" /\ set = {<<s, r.cookie[2] + 1>>}
              /\ terminal[s][r.key] = [hash |-> r.cookie[2], succ |-> r.cookie[2] + 1]
              /\ gen[s] = r.cookie[2] + 1
           \/ /\ r.cookie # NoCookie /\ s = r.cookie[1] /\ set = {}
              /\ code = "SESSION_REVOKED" /\ sess[s] # "active"
           \/ /\ r.cookie # NoCookie /\ s = r.cookie[1] /\ set = {} /\ Recorded(s, r.key)
              /\ code \in Ambiguous
              /\ sess[s] = "active" => ~(terminal[s][r.key].hash = r.cookie[2] /\ gen[s] = r.cookie[2] + 1)
    PROVE  HonestRight'
<1>0. UNCHANGED <<sess, gen, terminal, reason>>
  BY DEF serverVars
<1>1. /\ Refreshes' = Refreshes \ {r}
      /\ UNCHANGED <<cookie, pending, pc, minted, history>>
      /\ \A x : Within(x)' => Within(x)
      /\ r.live => Asked(r.cookie) /\ r.key = minted
      /\ \A x \in Tabs : reply[x] # NoReply => reply'[x] = reply[x]
      /\ OwnerRight' /\ CookieRight' /\ LoginsRight'
  BY <1>0, RespondAsked
<1>2. \A x \in Tabs : pc[x] = "calling" /\ reply'[x] # NoReply =>
                 \/ reply[x] # NoReply /\ reply'[x] = reply[x]
                 \/ /\ r.live
                    /\ reply'[x] = [code |-> code, session |-> s, sent |-> r.cookie, set |-> set,
                                    expired |-> e, stored |-> set = {}]
  BY <1>0, RespondAsked
<1>3. \A x, k : Recorded(x, k)' = Recorded(x, k)
  BY <1>0 DEF Recorded
<1>4. RequestsRight'
  BY <1>0, <1>1, <1>3 DEF HonestRight, RequestsRight
<1>5. AnswersRight'
  <2> SUFFICES ASSUME NEW x \in Tabs, pc[x] = "calling", reply'[x] # NoReply PROVE AnswerRight(reply[x])'
    BY <1>1 DEF AnswersRight
  <2>1. CASE reply[x] # NoReply /\ reply'[x] = reply[x]
    BY <1>0, <1>1, <2>1 DEF HonestRight, AnswersRight, AnswerRight
  <2>2. CASE /\ r.live
             /\ reply'[x] = [code |-> code, session |-> s, sent |-> r.cookie, set |-> set,
                             expired |-> e, stored |-> set = {}]
    <3>1. r.key = minted
      BY <1>1, <2>2
    <3>2. /\ reply'[x].code = code /\ reply'[x].session = s /\ reply'[x].sent = r.cookie
          /\ reply'[x].set = set /\ reply'[x].stored = (set = {})
      BY <2>2
    <3> QED BY <1>0, <1>1, <3>1, <3>2 DEF AnswerRight, Ambiguous
  <2> QED BY <1>2, <2>1, <2>2
<1>6. RetryRecovers'
  BY <1>0, <1>1 DEF HonestRight, RetryRecovers
<1>7. history' = {} => Untorn'
  <2> SUFFICES ASSUME history = {}, Untorn PROVE Untorn'
    BY <1>1 DEF HonestRight
  <2>1. \A x \in Tabs : pc[x] = "calling" /\ reply[x].stored /\ reply[x].code = "OK" =>
            reply'[x].stored /\ reply'[x].code = "OK"
    BY <1>1 DEF NoReply
  <2>2. ASSUME NEW x \in Tabs, pc[x] = "calling", reply'[x].code \in Ambiguous
        PROVE  sess[reply'[x].session] # "active"
    <3>1. reply'[x] # NoReply
      BY <2>2 DEF NoReply, Ambiguous
    <3>2. CASE reply'[x] = reply[x]
      BY <2>2, <3>2 DEF Untorn
    <3>3. CASE /\ r.live
               /\ reply'[x] = [code |-> code, session |-> s, sent |-> r.cookie, set |-> set,
                               expired |-> e, stored |-> set = {}]
      BY <2>2, <3>3 DEF Untorn, Ambiguous
    <3> QED BY <1>2, <2>2, <3>1, <3>2, <3>3
  <2>3. ASSUME cookie # NoCookie, pending # 0, Recorded(cookie[1], pending), sess[cookie[1]] = "active"
        PROVE  \/ terminal[cookie[1]][pending].hash = cookie[2] /\ gen[cookie[1]] = cookie[2] + 1
               \/ \E t \in Tabs : pc[t] = "calling" /\ reply'[t].stored /\ reply'[t].code = "OK"
    BY <2>1, <2>3 DEF Untorn
  <2> QED BY <1>0, <1>1, <1>3, <2>2, <2>3 DEF Untorn
<1> QED BY <1>0, <1>1, <1>4, <1>5, <1>6, <1>7 DEF HonestRight

\* The server exchanges the current credential: every request of that session now has a record.
LEMMA HonestExchanges ==
    ASSUME Base, HonestRight, "logout" \notin history, NEW r \in Refreshes, r.cookie # NoCookie,
           NEW s, s = r.cookie[1], NEW g, g = r.cookie[2], NEW k, k = r.key,
           ~Recorded(s, k), Exchanges(s, g, k),
           NEW out, out = {<<s, g + 1>>}, NEW e, Tells(r, "OK", s, out, e)
    PROVE  HonestRight'
<1>0. /\ s \in Sessions /\ g \in 1 .. MaxKeys + 1 /\ k \in 1 .. MaxKeys /\ RowsRight
      /\ sess[s] = "active" /\ g = gen[s] /\ UNCHANGED <<sess, reason>> /\ "OK" \in Codes
  BY Carried DEF Base, Exchanges, Codes
<1>1. /\ gen'[s] = g + 1 /\ terminal'[s][k] = [hash |-> g, succ |-> g + 1]
      /\ \A x \in Sessions \ {s} : gen'[x] = gen[x] /\ terminal'[x] = terminal[x]
      /\ \A x \in Sessions, j \in 1 .. MaxKeys : x # s \/ j # k => terminal'[x][j] = terminal[x][j]
  BY <1>0 DEF Exchanges, RowsRight, Server!TypeOK
<1>2. Recorded(s, k)' /\ \A x \in Sessions, j \in 1 .. MaxKeys : x # s \/ j # k => Recorded(x, j)' = Recorded(x, j)
  <2>1. g # 0
    BY <1>0
  <2> QED BY <1>0, <1>1, <2>1 DEF Recorded, Server!NoTerminal
<1>3. \A x \in Sessions : Fresh(x) => gen'[x] = gen[x]
  BY <1>1 DEF Fresh
<1>4. /\ Refreshes' = Refreshes \ {r}
      /\ UNCHANGED <<cookie, pending, pc, minted, history>>
      /\ \A x : Within(x)' => Within(x)
      /\ r.live => Asked(r.cookie) /\ r.key = minted
      /\ \A x \in Tabs : reply[x] # NoReply => reply'[x] = reply[x]
      /\ OwnerRight' /\ CookieRight' /\ LoginsRight'
  BY <1>0, <1>3, RespondAsked
<1>5. \A x \in Tabs : pc[x] = "calling" /\ reply'[x] # NoReply =>
                 \/ reply[x] # NoReply /\ reply'[x] = reply[x]
                 \/ /\ r.live
                    /\ reply'[x] = [code |-> "OK", session |-> s, sent |-> r.cookie, set |-> out,
                                    expired |-> e, stored |-> out = {}]
  BY <1>0, <1>3, RespondAsked
<1>6. /\ \A q \in Refreshes : q.cookie \in Cookies /\ q.key \in 1 .. MaxKeys
      /\ \A q \in Refreshes : q.cookie # NoCookie => q.cookie[1] \in Sessions
      /\ minted \in 0 .. MaxKeys /\ pending \in 0 .. MaxKeys
      /\ cookie # NoCookie => cookie[1] \in Sessions /\ cookie[2] \in 1 .. MaxKeys + 1
  BY InPlay
<1>7. Within(s) => k = minted /\ pending = minted
  BY <1>0 DEF HonestRight, RequestsRight
<1>8. \A q \in Refreshes : q.cookie # NoCookie /\ q.cookie[1] = s => Recorded(s, q.key) \/ q.key = k
  BY <1>0 DEF HonestRight, RequestsRight
<1>9. \A q \in Refreshes : q.cookie # NoCookie /\ q.cookie[1] = s => Recorded(s, q.key)'
  BY <1>0, <1>2, <1>6, <1>8
<1>10. RequestsRight'
  <2>1. ASSUME NEW q \in Refreshes, q.cookie # NoCookie, sess[q.cookie[1]] = "active"
        PROVE  q.cookie[2] = gen'[q.cookie[1]] \/ Recorded(q.cookie[1], q.key)'
    <3>1. CASE q.cookie[1] = s
      BY <1>9, <2>1, <3>1
    <3>2. CASE q.cookie[1] # s
      BY <1>1, <1>2, <1>6, <2>1, <3>2 DEF HonestRight, RequestsRight
    <3> QED BY <3>1, <3>2
  <2>2. ASSUME NEW q1 \in Refreshes, NEW q2 \in Refreshes, q1.cookie # NoCookie,
               q1.cookie[1] = q2.cookie[1], sess[q1.cookie[1]] = "active",
               ~Recorded(q1.cookie[1], q1.key)', ~Recorded(q2.cookie[1], q2.key)'
        PROVE  q1.key = q2.key
    <3>1. q1.cookie[1] \in Sessions /\ q1.cookie[1] # s
      BY <1>6, <1>9, <2>2
    <3> QED BY <1>2, <1>6, <2>2, <3>1 DEF HonestRight, RequestsRight
  <2>3. ASSUME NEW q \in Refreshes, q.cookie # NoCookie, Within(q.cookie[1])',
               sess[q.cookie[1]] = "active", ~Recorded(q.cookie[1], q.key)'
        PROVE  q.key = minted /\ pending = minted
    <3>1. q.cookie[1] \in Sessions /\ q.cookie[1] # s
      BY <1>6, <1>9, <2>3
    <3> QED BY <1>2, <1>4, <1>6, <2>3, <3>1 DEF HonestRight, RequestsRight
  <2> QED BY <1>0, <1>4, <2>1, <2>2, <2>3 DEF RequestsRight
<1>11. AnswersRight'
  <2> SUFFICES ASSUME NEW x \in Tabs, pc[x] = "calling", reply'[x] # NoReply PROVE AnswerRight(reply[x])'
    BY <1>4 DEF AnswersRight
  <2>1. CASE reply[x] # NoReply /\ reply'[x] = reply[x]
    <3>1. AnswerRight(reply[x]) /\ Asked(reply[x].sent) /\ reply[x].sent \in Cookies
      BY <2>1, InPlay DEF HonestRight, AnswersRight, Asked
    <3>2. CASE reply[x].code # "OK"
      BY <1>0, <2>1, <3>1, <3>2 DEF AnswerRight
    <3>3. CASE reply[x].code = "OK"
      <4>1. reply[x].sent # NoCookie /\ reply[x].session = reply[x].sent[1] /\ reply[x].session \in Sessions
        BY <3>1, <3>3, InPlay DEF AnswerRight
      <4>2. reply[x].sent[2] \in 1 .. MaxKeys + 1
        BY <3>1, <4>1, InPlay
      <4>3. reply[x].sent[2] # 0
        BY <4>2
      <4>4. Recorded(reply[x].session, minted)
        BY <3>1, <3>3, <4>3 DEF AnswerRight, Recorded, Server!NoTerminal
      <4>5. reply[x].session # s
        <5>1. reply[x].session = s => Within(s)
          BY <3>1, <4>1 DEF Within
        <5> QED BY <1>7, <4>4, <5>1
      <4>6. gen'[reply[x].session] = gen[reply[x].session]
            /\ terminal'[reply[x].session] = terminal[reply[x].session]
        BY <1>1, <4>1, <4>5
      <4> QED BY <1>0, <1>4, <2>1, <3>1, <3>3, <4>6 DEF AnswerRight, Ambiguous
    <3> QED BY <3>2, <3>3
  <2>2. CASE /\ r.live
             /\ reply'[x] = [code |-> "OK", session |-> s, sent |-> r.cookie, set |-> out,
                             expired |-> e, stored |-> out = {}]
    <3>1. k = minted'
      BY <1>4, <2>2
    <3>2. /\ reply'[x].code = "OK" /\ reply'[x].session = s /\ reply'[x].sent = r.cookie
          /\ reply'[x].set = out /\ reply'[x].stored = (out = {})
      BY <2>2
    <3>3. ~reply'[x].stored
      BY <3>2
    <3> QED BY <1>0, <1>1, <3>1, <3>2, <3>3 DEF AnswerRight, Ambiguous
  <2> QED BY <1>5, <2>1, <2>2
<1>12. cookie[1] = s => cookie # NoCookie /\ cookie[2] = g /\ pending = k
  <2> SUFFICES ASSUME cookie[1] = s PROVE cookie # NoCookie /\ cookie[2] = g /\ pending = k
    OBVIOUS
  <2>1. cookie # NoCookie
    BY <1>0, InPlay
  <2>2. pending = k
    BY <1>7 DEF Within
  <2>3. cookie[2] # 0
    BY <1>6, <2>1
  <2>4. terminal[s][pending] # [hash |-> cookie[2], succ |-> cookie[2] + 1]
    BY <2>2, <2>3 DEF Recorded, Server!NoTerminal
  <2>5. cookie[2] = gen[s]
    BY <1>0, <2>1, <2>4 DEF HonestRight, RetryRecovers
  <2> QED BY <1>0, <2>1, <2>2, <2>5
<1>13. RetryRecovers'
  <2>1. CASE cookie[1] = s
    <3>1. k # 0
      BY <1>0
    <3> QED BY <1>1, <1>4, <1>12, <2>1, <3>1 DEF RetryRecovers
  <2>2. CASE cookie[1] # s
    BY <1>0, <1>1, <1>4, <1>6, <2>2 DEF HonestRight, RetryRecovers
  <2> QED BY <2>1, <2>2
<1>14. history' = {} => Untorn'
  <2> SUFFICES ASSUME history = {}, Untorn PROVE Untorn'
    BY <1>4 DEF HonestRight
  <2>1. \A x \in Tabs : pc[x] = "calling" /\ reply[x].stored /\ reply[x].code = "OK" =>
            reply'[x].stored /\ reply'[x].code = "OK"
    BY <1>4 DEF NoReply
  <2>2. ASSUME NEW x \in Tabs, pc[x] = "calling", reply'[x].code \in Ambiguous
        PROVE  sess[reply'[x].session] # "active"
    <3>1. reply'[x] # NoReply
      BY <2>2 DEF NoReply, Ambiguous
    <3>2. reply'[x] = reply[x]
      <4>1. reply'[x].code # "OK"
        BY <2>2 DEF Ambiguous
      <4>2. ASSUME reply'[x] = [code |-> "OK", session |-> s, sent |-> r.cookie, set |-> out,
                                expired |-> e, stored |-> out = {}]
            PROVE  FALSE
        BY <4>1, <4>2
      <4> QED BY <1>5, <2>2, <3>1, <4>2
    <3> QED BY <2>2, <3>2 DEF Untorn
  <2>3. ASSUME cookie # NoCookie, pending # 0, Recorded(cookie[1], pending)', sess[cookie[1]] = "active"
        PROVE  \/ terminal'[cookie[1]][pending].hash = cookie[2] /\ gen'[cookie[1]] = cookie[2] + 1
               \/ \E t \in Tabs : pc[t] = "calling" /\ reply'[t].stored /\ reply'[t].code = "OK"
    <3>1. CASE cookie[1] = s
      BY <1>1, <1>12, <3>1
    <3>2. CASE cookie[1] # s
      <4>1. pending \in 1 .. MaxKeys /\ cookie[1] \in Sessions
        BY <1>6, <2>3
      <4>2. gen'[cookie[1]] = gen[cookie[1]] /\ terminal'[cookie[1]] = terminal[cookie[1]]
        BY <1>1, <3>2, <4>1
      <4>3. Recorded(cookie[1], pending)
        BY <1>4, <2>3, <4>2 DEF Recorded
      <4> QED BY <2>1, <2>3, <4>2, <4>3 DEF Untorn
    <3> QED BY <3>1, <3>2
  <2>4. ASSUME NEW q \in Refreshes, q.live, q.cookie # NoCookie, Recorded(q.cookie[1], q.key)',
               sess[q.cookie[1]] = "active"
        PROVE  terminal'[q.cookie[1]][q.key].hash = q.cookie[2] /\ gen'[q.cookie[1]] = q.cookie[2] + 1
    <3>1. CASE q.cookie[1] = s
      <4>1. Within(s)
        BY <1>6, <2>4, <3>1 DEF Within, Asked
      <4>2. q.key = k
        BY <1>7, <2>4, <4>1 DEF HonestRight, OwnerRight
      <4>3. q.cookie[2] = g
        BY <1>0, <2>4, <3>1, <4>2 DEF HonestRight, RequestsRight
      <4> QED BY <1>1, <3>1, <4>2, <4>3
    <3>2. CASE q.cookie[1] # s
      <4>1. q.cookie[1] \in Sessions /\ q.key \in 1 .. MaxKeys
        BY <1>6, <2>4
      <4>2. Recorded(q.cookie[1], q.key) /\ gen'[q.cookie[1]] = gen[q.cookie[1]]
            /\ terminal'[q.cookie[1]] = terminal[q.cookie[1]]
        BY <1>1, <1>2, <2>4, <3>2, <4>1
      <4> QED BY <2>4, <4>2 DEF Untorn
    <3> QED BY <3>1, <3>2
  <2> QED BY <1>0, <1>4, <2>2, <2>3, <2>4 DEF Untorn
<1> QED BY <1>0, <1>4, <1>10, <1>11, <1>13, <1>14 DEF HonestRight

\* The server refuses the refresh of a session that had ended already.
LEMMA HonestRefuses ==
    ASSUME Base, HonestRight, "logout" \notin history, NEW r \in Refreshes, r.cookie # NoCookie,
           NEW s, s = r.cookie[1], NEW g, g = r.cookie[2], NEW k, k = r.key,
           ~Recorded(s, k), Refuses(s, g, k),
           NEW out, out = {}, NEW e, Tells(r, "SESSION_REVOKED", s, out, e)
    PROVE  HonestRight'
<1>0. /\ s \in Sessions /\ k \in 1 .. MaxKeys /\ RowsRight
      /\ UNCHANGED gen /\ sess'[s] # "active" /\ \A x \in Sessions \ {s} : sess'[x] = sess[x]
      /\ "SESSION_REVOKED" \in Codes
  BY Carried DEF Base, Refuses, Codes
<1>1. /\ \A x \in Sessions \ {s} : terminal'[x] = terminal[x]
      /\ \A x \in Sessions, j \in 1 .. MaxKeys : x # s \/ j # k => terminal'[x][j] = terminal[x][j]
  BY <1>0 DEF Refuses, RowsRight, Server!TypeOK
<1>2. /\ Refreshes' = Refreshes \ {r}
      /\ UNCHANGED <<cookie, pending, pc, minted, history>>
      /\ \A x : Within(x)' => Within(x)
      /\ r.live => Asked(r.cookie) /\ r.key = minted
      /\ \A x \in Tabs : reply[x] # NoReply => reply'[x] = reply[x]
      /\ OwnerRight' /\ CookieRight' /\ LoginsRight'
  BY <1>0, RespondAsked
<1>3. \A x \in Tabs : pc[x] = "calling" /\ reply'[x] # NoReply =>
                 \/ reply[x] # NoReply /\ reply'[x] = reply[x]
                 \/ /\ r.live
                    /\ reply'[x] = [code |-> "SESSION_REVOKED", session |-> s, sent |-> r.cookie, set |-> out,
                                    expired |-> e, stored |-> out = {}]
  BY <1>0, RespondAsked
<1>4. \A q \in Refreshes : q.cookie # NoCookie => q.cookie[1] \in Sessions
  BY InPlay
<1>5. \A x \in Sessions \ {s} : \A j : Recorded(x, j)' = Recorded(x, j)
  BY <1>1 DEF Recorded
<1>6. RequestsRight'
  BY <1>0, <1>2, <1>4, <1>5 DEF HonestRight, RequestsRight
<1>7. AnswersRight'
  <2> SUFFICES ASSUME NEW x \in Tabs, pc[x] = "calling", reply'[x] # NoReply PROVE AnswerRight(reply[x])'
    BY <1>2 DEF AnswersRight
  <2>1. CASE reply[x] # NoReply /\ reply'[x] = reply[x]
    <3>1. AnswerRight(reply[x]) /\ reply[x].sent \in Cookies
      BY <2>1, InPlay DEF HonestRight, AnswersRight
    <3>2. reply[x].sent # NoCookie => reply[x].sent[1] \in Sessions
      BY <3>1, InPlay
    <3>3. CASE reply[x].code # "OK"
      BY <1>0, <2>1, <3>1, <3>2, <3>3 DEF AnswerRight
    <3>4. CASE reply[x].code = "OK"
      <4>1. reply[x].sent # NoCookie /\ reply[x].session = reply[x].sent[1] /\ reply[x].session \in Sessions
        BY <3>1, <3>2, <3>4 DEF AnswerRight
      <4>2. reply[x].sent[2] \in 1 .. MaxKeys + 1
        BY <3>1, <4>1, InPlay
      <4>3. reply[x].sent[2] # 0
        BY <4>2
      <4>4. Recorded(reply[x].session, minted)
        BY <3>1, <3>4, <4>3 DEF AnswerRight, Recorded, Server!NoTerminal
      <4>5. minted \in 1 .. MaxKeys
        BY <2>1, InPlay DEF Base, KeysRight
      <4>6. terminal'[reply[x].session][minted] = terminal[reply[x].session][minted]
        BY <1>1, <4>1, <4>4, <4>5
      <4>7. sess'[reply[x].session] = "active" => sess[reply[x].session] = "active"
        BY <1>0, <4>1
      <4> QED BY <1>0, <1>2, <2>1, <3>1, <3>4, <4>6, <4>7 DEF AnswerRight, Ambiguous
    <3> QED BY <3>3, <3>4
  <2>2. CASE /\ r.live
             /\ reply'[x] = [code |-> "SESSION_REVOKED", session |-> s, sent |-> r.cookie, set |-> out,
                             expired |-> e, stored |-> out = {}]
    <3>1. /\ reply'[x].code = "SESSION_REVOKED" /\ reply'[x].session = s /\ reply'[x].sent = r.cookie
          /\ reply'[x].set = out /\ reply'[x].stored = (out = {})
      BY <2>2
    <3>2. reply'[x].stored
      BY <3>1
    <3> QED BY <1>0, <3>1, <3>2 DEF AnswerRight, Ambiguous
  <2> QED BY <1>3, <2>1, <2>2
<1>8. cookie # NoCookie => cookie[1] \in Sessions
  BY InPlay
<1>9. RetryRecovers'
  BY <1>0, <1>1, <1>2, <1>8 DEF HonestRight, RetryRecovers
<1>10. history' = {} => Untorn'
  <2> SUFFICES ASSUME history = {}, Untorn PROVE Untorn'
    BY <1>2 DEF HonestRight
  <2>1. \A x \in Tabs : pc[x] = "calling" /\ reply[x].stored /\ reply[x].code = "OK" =>
            reply'[x].stored /\ reply'[x].code = "OK"
    BY <1>2 DEF NoReply
  <2>2. ASSUME NEW x \in Tabs, pc[x] = "calling", reply'[x].code \in Ambiguous
        PROVE  sess'[reply'[x].session] # "active"
    <3>1. reply'[x] # NoReply /\ reply'[x].code # "SESSION_REVOKED"
      BY <2>2 DEF NoReply, Ambiguous
    <3>2. ASSUME reply'[x] = [code |-> "SESSION_REVOKED", session |-> s, sent |-> r.cookie, set |-> out,
                              expired |-> e, stored |-> out = {}]
          PROVE  FALSE
      BY <3>1, <3>2
    <3>3. reply[x] # NoReply /\ reply'[x] = reply[x]
      BY <1>3, <2>2, <3>1, <3>2
    <3>4. AnswerRight(reply[x]) /\ reply[x].sent \in Cookies
      BY <2>2, <3>3, InPlay DEF HonestRight, AnswersRight
    <3>5. reply[x].session \in Sessions
      BY <2>2, <3>3, <3>4, InPlay DEF AnswerRight
    <3> QED BY <1>0, <2>2, <3>3, <3>5 DEF Untorn
  <2>3. ASSUME cookie # NoCookie, pending # 0, terminal'[cookie[1]][pending] # Server!NoTerminal,
               sess'[cookie[1]] = "active"
        PROVE  \/ terminal'[cookie[1]][pending].hash = cookie[2] /\ gen'[cookie[1]] = cookie[2] + 1
               \/ \E t \in Tabs : pc[t] = "calling" /\ reply'[t].stored /\ reply'[t].code = "OK"
    <3>1. cookie[1] \in Sessions \ {s}
      BY <1>0, <1>8, <2>3
    <3> QED BY <1>0, <1>1, <2>1, <2>3, <3>1 DEF Untorn, Recorded
  <2>4. ASSUME NEW q \in Refreshes, q.live, q.cookie # NoCookie,
               terminal'[q.cookie[1]][q.key] # Server!NoTerminal, sess'[q.cookie[1]] = "active"
        PROVE  terminal'[q.cookie[1]][q.key].hash = q.cookie[2] /\ gen'[q.cookie[1]] = q.cookie[2] + 1
    <3>1. q.cookie[1] \in Sessions \ {s}
      BY <1>0, <1>4, <2>4
    <3> QED BY <1>0, <1>1, <2>4, <3>1 DEF Untorn, Recorded
  <2> QED BY <1>2, <2>2, <2>3, <2>4 DEF Untorn, Recorded
<1>11. \A x \in Sessions : reason'[x] # "REFRESH_TOKEN_REPLAYED"
  <2>1. sess[s] = "active" => g = gen[s]
    BY DEF HonestRight, RequestsRight
  <2> QED BY <2>1 DEF HonestRight, Refuses
<1> QED BY <1>2, <1>6, <1>7, <1>9, <1>10, <1>11 DEF HonestRight

\* A login opens a session that no credential on its way can name.
LEMMA HonestOpens ==
    ASSUME Base, HonestRight, "logout" \notin history, NEW r \in wire, r.kind = "login",
           NEW s \in Sessions, Server!LoginCommit(s), NEW out, out = {<<s, 1>>},
           Respond(r, "OK", s, out, FALSE),
           UNCHANGED <<cookie, pending, aged, lock, pc, token, minted, faults, history, doubted>>
    PROVE  HonestRight'
<1> DEFINE a == [code |-> "OK", session |-> s, sent |-> r.cookie, set |-> out,
                 expired |-> FALSE, stored |-> out = {}]
<1>0. /\ reply \in [Tabs -> Answer \cup {NoReply}] /\ r.tab \in Tabs /\ RowsRight
      /\ r.live => reply[r.tab] = NoReply /\ pc[r.tab] = "loggingIn"
  BY DEF Base, BrowserTypeOK, Request, WireRight
<1>1. /\ UNCHANGED <<terminal, reason>> /\ gen[s] = 0
      /\ gen'[s] = 1 /\ \A x \in Sessions \ {s} : gen'[x] = gen[x] /\ sess'[x] = sess[x]
  <2>1. /\ UNCHANGED <<terminal, reason>> /\ gen[s] = 0
        /\ gen' = [gen EXCEPT ![s] = 1] /\ sess' = [sess EXCEPT ![s] = "active"]
    BY <1>0, RowsOpen
  <2> QED BY <1>0, <2>1 DEF RowsRight, Server!TypeOK
<1>2. ASSUME NEW c \in Cookies, Real(c) PROVE c[1] # s
  <2>1. CASE c = NoCookie
    BY <2>1, NoValueAssumption DEF NoCookie
  <2>2. CASE c # NoCookie
    <3>1. c[2] \in 1 .. MaxKeys + 1 /\ c[2] <= gen[c[1]]
      BY <1>2, <2>2, InPlay DEF Real
    <3> QED BY <1>1, <3>1
  <2> QED BY <2>1, <2>2
<1>3. /\ cookie[1] # s
      /\ \A q \in Refreshes : q.cookie[1] # s
      /\ \A x \in Tabs : reply[x] # NoReply => reply[x].sent[1] # s /\ \A c \in reply[x].set : c[1] # s
  BY <1>2, InPlay DEF Base, CookiesRight, Refreshes
<1>4. Refreshes' = Refreshes
  BY DEF Respond, Refreshes
<1>5. /\ \A x \in Tabs : reply'[x] = IF r.live /\ x = r.tab THEN a ELSE reply[x]
      /\ a.set = out /\ ~a.stored
  <2>1. a.set = out /\ a.stored = (out = {})
    OBVIOUS
  <2> QED BY <1>0, <2>1 DEF Respond
<1> HIDE DEF a
<1>6. \A x \in Tabs : pc[x] # "loggingIn" => reply'[x] = reply[x]
  BY <1>0, <1>5
<1>7. (\A c : Asked(c)' <=> Asked(c)) /\ \A c : Asked(c) => c[1] # s
  BY <1>3, <1>4, <1>6 DEF Asked
<1>8. \A x : Within(x)' <=> Within(x)
  BY <1>7 DEF Within
<1>9. Fresh(s)' /\ \A x \in Sessions \ {s} : Fresh(x) => Fresh(x)'
  BY <1>1, <1>3, <1>4, <1>7 DEF Fresh
<1>10. \A x, k : Recorded(x, k)' = Recorded(x, k)
  BY <1>1 DEF Recorded
<1>11. /\ cookie # NoCookie => cookie[1] \in Sessions \ {s}
       /\ \A q \in Refreshes : q.cookie # NoCookie => q.cookie[1] \in Sessions \ {s}
       /\ \A x \in Tabs : reply[x] # NoReply /\ reply[x].sent # NoCookie => reply[x].sent[1] \in Sessions \ {s}
  BY <1>3, InPlay
<1>12. RequestsRight'
  BY <1>1, <1>4, <1>8, <1>10, <1>11 DEF HonestRight, RequestsRight
<1>13. OwnerRight'
  BY <1>4 DEF HonestRight, OwnerRight
<1>14. CookieRight'
  BY <1>7, <1>9, <1>11 DEF HonestRight, CookieRight
<1>15. LoginsRight'
  <2> SUFFICES ASSUME NEW x \in Tabs, pc[x] = "loggingIn", reply'[x] # NoReply, ~reply'[x].stored,
                      NEW c \in reply'[x].set
               PROVE  /\ c # NoCookie /\ c[2] = 1 /\ Fresh(c[1])' /\ cookie[1] # c[1]
                      /\ \A u \in Tabs \ {x} : pc[u] = "loggingIn" /\ ~reply'[u].stored => c \notin reply'[u].set
    BY DEF LoginsRight
  <2>1. CASE r.live /\ x = r.tab
    <3>1. c = <<s, 1>> /\ c[1] = s /\ c[2] = 1
      BY <1>5, <2>1
    <3>2. c # NoCookie
      BY <3>1, NoValueAssumption DEF NoCookie
    <3>3. ASSUME NEW u \in Tabs \ {x}, c \in reply'[u].set PROVE FALSE
      <4>1. reply'[u] = reply[u]
        BY <1>5, <2>1
      <4>2. reply[u] # NoReply
        BY <3>3, <4>1 DEF NoReply
      <4> QED BY <1>3, <3>1, <3>3, <4>1, <4>2
    <3> QED BY <1>3, <1>9, <3>1, <3>2, <3>3
  <2>2. CASE ~(r.live /\ x = r.tab)
    <3>1. reply'[x] = reply[x]
      BY <1>5, <2>2
    <3>2. /\ c # NoCookie /\ c[2] = 1 /\ Fresh(c[1]) /\ cookie[1] # c[1] /\ c \in Cookies /\ c[1] # s
          /\ \A u \in Tabs \ {x} : pc[u] = "loggingIn" /\ ~reply[u].stored => c \notin reply[u].set
      BY <1>3, <3>1, InPlay DEF HonestRight, LoginsRight
    <3>3. c[1] \in Sessions \ {s}
      BY <3>2, InPlay
    <3>4. ASSUME NEW u \in Tabs \ {x}, pc[u] = "loggingIn", ~reply'[u].stored, c \in reply'[u].set PROVE FALSE
      <4>1. CASE r.live /\ u = r.tab
        BY <1>5, <3>2, <3>4, <4>1
      <4>2. CASE ~(r.live /\ u = r.tab)
        BY <1>5, <3>2, <3>4, <4>2
      <4> QED BY <4>1, <4>2
    <3> QED BY <1>9, <3>2, <3>3, <3>4
  <2> QED BY <2>1, <2>2
<1>16. AnswersRight'
  <2> SUFFICES ASSUME NEW x \in Tabs, pc[x] = "calling", reply[x] # NoReply, reply'[x] = reply[x]
               PROVE  AnswerRight(reply[x])'
    BY <1>6 DEF AnswersRight
  <2>1. AnswerRight(reply[x]) /\ (reply[x].sent # NoCookie => reply[x].sent[1] \in Sessions \ {s})
    BY <1>11 DEF HonestRight, AnswersRight
  <2> QED BY <1>1, <2>1 DEF AnswerRight
<1>17. RetryRecovers'
  BY <1>1, <1>11 DEF HonestRight, RetryRecovers
<1>18. history' = {} => Untorn'
  <2> SUFFICES ASSUME history = {}, Untorn PROVE Untorn'
    BY DEF HonestRight
  <2>1. \A x \in Tabs : pc[x] = "calling" => reply'[x] = reply[x]
    BY <1>6
  <2>2. ASSUME NEW x \in Tabs, pc[x] = "calling", reply[x].code \in Ambiguous
        PROVE  sess'[reply[x].session] # "active"
    <3>1. reply[x] # NoReply
      BY <2>2 DEF NoReply, Ambiguous
    <3>2. reply[x].session \in Sessions \ {s}
      BY <1>11, <2>2, <3>1 DEF HonestRight, AnswersRight, AnswerRight
    <3> QED BY <1>1, <2>2, <3>2 DEF Untorn
  <2>3. ASSUME cookie # NoCookie, pending # 0, Recorded(cookie[1], pending), sess'[cookie[1]] = "active"
        PROVE  \/ terminal[cookie[1]][pending].hash = cookie[2] /\ gen'[cookie[1]] = cookie[2] + 1
               \/ \E t \in Tabs : pc[t] = "calling" /\ reply[t].stored /\ reply[t].code = "OK"
    BY <1>1, <1>11, <2>3 DEF Untorn
  <2>4. ASSUME NEW q \in Refreshes, q.live, q.cookie # NoCookie, Recorded(q.cookie[1], q.key),
               sess'[q.cookie[1]] = "active"
        PROVE  terminal[q.cookie[1]][q.key].hash = q.cookie[2] /\ gen'[q.cookie[1]] = q.cookie[2] + 1
    BY <1>1, <1>11, <2>4 DEF Untorn
  <2> QED BY <1>1, <1>4, <1>10, <2>1, <2>2, <2>3, <2>4 DEF Untorn
<1> QED BY <1>1, <1>12, <1>13, <1>14, <1>15, <1>16, <1>17, <1>18 DEF HonestRight

LEMMA HonestServe ==
    ASSUME Base, HonestRight, "logout" \notin history, Serve
    PROVE  HonestRight'
<1>1. PICK r \in wire : ServeRefresh(r) \/ ServeLogin(r) \/ ServeLogout(r)
  BY DEF Serve
<1>2. RowsRight
  BY DEF Base
<1>3. CASE ServeRefresh(r)
  <2> DEFINE s == r.cookie[1]
             g == r.cookie[2]
             a == Server!Answer(s, g, r.key)
             out == IF a.code = "OK" THEN {<<s, a.succ>>} ELSE {}
  <2>0. r \in Refreshes /\ UNCHANGED <<cookie, pending, aged, lock, pc, token, minted, faults, history, doubted>>
    BY <1>1, <1>3 DEF ServeRefresh, Refreshes
  <2>1. CASE r.cookie = NoCookie
    <3>1. UNCHANGED serverVars /\ Tells(r, "REFRESH_UNAVAILABLE", NoSession, {}, FALSE)
      BY <1>3, <2>0, <2>1 DEF ServeRefresh, Tells
    <3>2. "REFRESH_UNAVAILABLE" \in Codes
      BY DEF Codes
    <3> HIDE DEF s, g, a, out
    <3> QED BY <2>0, <2>1, <3>1, <3>2, HonestTold
  <2>2. CASE r.cookie # NoCookie /\ Server!Recorded(s, r.key) /\ UNCHANGED serverVars
             /\ \E e \in BOOLEAN : Respond(r, a.code, s, out, e)
    <3>1. PICK e \in BOOLEAN : Tells(r, a.code, s, out, e)
      BY <2>0, <2>2 DEF Tells
    <3>2. /\ s \in Sessions /\ g \in 1 .. MaxKeys + 1 /\ g <= gen[s] /\ r.key \in 1 .. MaxKeys
          /\ Recorded(s, r.key)
      BY <2>0, <2>2, Carried DEF Recorded, Server!Recorded
    <3>3. \/ /\ a.code = "OK" /\ a.succ = g + 1 /\ gen[s] = g + 1 /\ sess[s] = "active"
             /\ terminal[s][r.key] = [hash |-> g, succ |-> g + 1]
          \/ a.code = "SESSION_REVOKED" /\ sess[s] # "active"
          \/ /\ a.code \in Ambiguous
             /\ sess[s] = "active" => ~(terminal[s][r.key].hash = g /\ gen[s] = g + 1)
      <4> HIDE DEF a, s, g
      <4>1. a = Server!Answer(s, g, r.key)
        BY DEF a
      <4> QED BY <1>2, <3>2, <4>1, RecordedEffect
    <3>4. a.code = "OK" => out = {<<s, g + 1>>}
      BY <3>3 DEF Ambiguous
    <3>5. a.code # "OK" => out = {}
      OBVIOUS
    <3>6. a.code \in Codes
      BY <3>3 DEF Codes, Ambiguous
    <3> DEFINE code == a.code
               from == r.cookie[1]
    <3>7. /\ code \in Codes /\ Tells(r, code, from, out, e) /\ UNCHANGED serverVars /\ r.cookie # NoCookie
          /\ \/ /\ code = "OK" /\ out = {<<from, r.cookie[2] + 1>>} /\ gen[from] = r.cookie[2] + 1
                /\ terminal[from][r.key] = [hash |-> r.cookie[2], succ |-> r.cookie[2] + 1]
             \/ code = "SESSION_REVOKED" /\ sess[from] # "active" /\ out = {}
             \/ /\ code \in Ambiguous /\ out = {} /\ Recorded(from, r.key)
                /\ sess[from] = "active" => ~(terminal[from][r.key].hash = r.cookie[2] /\ gen[from] = r.cookie[2] + 1)
      <4>1. a.code \in Ambiguous => a.code # "OK"
        BY DEF Ambiguous
      <4> QED BY <2>2, <3>1, <3>2, <3>3, <3>4, <3>5, <3>6, <4>1
    <3>8. from = r.cookie[1]
      OBVIOUS
    <3> HIDE DEF s, g, a, out, code, from
    <3> QED BY <2>0, <3>7, <3>8, HonestTold
  <2>3. CASE r.cookie # NoCookie /\ Server!Refresh(s, g, r.key) /\ Respond(r, a.code, s, out, FALSE)
    <3>1. Tells(r, a.code, s, out, FALSE)
      BY <2>0, <2>3 DEF Tells
    <3>2. s \in Sessions /\ g \in 1 .. MaxKeys + 1 /\ g <= gen[s] /\ r.key \in 1 .. MaxKeys
      BY <2>0, <2>3, Carried
    <3>3. /\ ~Recorded(s, r.key)
          /\ \/ Exchanges(s, g, r.key) /\ a = [code |-> "OK", succ |-> g + 1]
             \/ Refuses(s, g, r.key) /\ a = [code |-> "SESSION_REVOKED", succ |-> 0]
      BY <1>2, <2>3, <3>2, RefreshEffect
    <3>4. CASE Exchanges(s, g, r.key) /\ a = [code |-> "OK", succ |-> g + 1]
      <4>1. a.code = "OK" /\ out = {<<s, g + 1>>}
        BY <3>4
      <4>2. Tells(r, "OK", s, out, FALSE)
        BY <3>1, <4>1
      <4>3. s = r.cookie[1] /\ g = r.cookie[2]
        OBVIOUS
      <4> HIDE DEF s, g, a, out
      <4> QED BY <2>0, <2>3, <3>3, <3>4, <4>1, <4>2, <4>3, HonestExchanges
    <3>5. CASE Refuses(s, g, r.key) /\ a = [code |-> "SESSION_REVOKED", succ |-> 0]
      <4>1. a.code = "SESSION_REVOKED" /\ out = {}
        BY <3>5
      <4>2. Tells(r, "SESSION_REVOKED", s, out, FALSE)
        BY <3>1, <4>1
      <4>3. s = r.cookie[1] /\ g = r.cookie[2]
        OBVIOUS
      <4> HIDE DEF s, g, a, out
      <4> QED BY <2>0, <2>3, <3>3, <3>5, <4>1, <4>2, <4>3, HonestRefuses
    <3> QED BY <3>3, <3>4, <3>5
  <2> QED BY <1>3, <2>1, <2>2, <2>3 DEF ServeRefresh
<1>4. CASE ServeLogin(r)
  <2>0. /\ r.kind = "login" /\ r.session \in Sessions \cup {NoSession}
        /\ UNCHANGED <<cookie, pending, aged, lock, pc, token, minted, faults, history, doubted>>
    BY <1>1, <1>4 DEF ServeLogin, Base, BrowserTypeOK, Request
  <2>1. CASE \E s \in Sessions : /\ Server!LoginBegin(s, User, epoch[User])
                                 /\ wire' = (wire \ {r}) \cup {[r EXCEPT !.session = s]} /\ UNCHANGED reply
    <3>1. HonestFrame
      BY <1>1, <2>0, <2>1, OtherFrames
    <3> QED BY <3>1, HonestKept
  <2>2. CASE /\ r.session # NoSession /\ Server!LoginRejected(r.session)
             /\ Respond(r, "AUTH_CREDENTIALS_INVALID", NoSession, {}, FALSE)
    <3>1. HonestFrame
      BY <1>1, <2>0, <2>2, OtherFrames
    <3> QED BY <3>1, HonestKept
  <2>3. CASE /\ r.session # NoSession /\ Server!LoginCommit(r.session)
             /\ Respond(r, "OK", r.session, {<<r.session, 1>>}, FALSE)
    <3>1. r.session \in Sessions
      BY <2>0, <2>3
    <3> QED BY <1>1, <2>0, <2>3, <3>1, HonestOpens
  <2> QED BY <1>4, <2>1, <2>2, <2>3 DEF ServeLogin
<1>5. CASE ServeLogout(r)
  BY <1>1, <1>5 DEF ServeLogout, Base, LogoutsRight
<1> QED BY <1>1, <1>3, <1>4, <1>5

\* Only logouts and faults write the history, and they add to it.
LEMMA HistoryGrows ==
    ASSUME Next
    PROVE  history \subseteq history'
<1>1. CASE Serve
  BY <1>1 DEF Serve, ServeRefresh, ServeLogin, ServeLogout
<1>2. ASSUME NEW t \in Tabs, Proceed(t) PROVE history \subseteq history'
  BY <1>2 DEF Proceed, BecomeOwner, LockRefused, WaitForOwner, OwnerWaitTimesOut, SendRefresh, GiveUpAged,
     RefreshAnswered, QuitAnswered, LoginAnswered, LogoutAnswered, StoreCookie
<1>3. ASSUME NEW t \in Tabs,
             StartRefresh(t) \/ Mount(t) \/ SubmitLogin(t) \/ SubmitLogout(t) \/ FetchFails(t) \/ Crash(t)
      PROVE  history \subseteq history'
  BY <1>3 DEF StartRefresh, Mount, SubmitLogin, SubmitLogout, FetchFails, Crash, Abandon
<1>4. CASE RetryWindowPasses \/ ResetElsewhere
  BY <1>4 DEF RetryWindowPasses, ResetElsewhere, tabVars
<1> QED BY <1>1, <1>2, <1>3, <1>4 DEF Next

LEMMA HonestStep ==
    ASSUME Base, "logout" \notin history => HonestRight, Next, Base', "logout" \notin history'
    PROVE  HonestRight'
<1>0. "logout" \notin history /\ HonestRight
  BY HistoryGrows
<1>1. CASE Serve
  BY <1>0, <1>1, HonestServe
<1>2. ASSUME NEW t \in Tabs, Proceed(t) PROVE HonestRight'
  <2>1. CASE QuietStep(t) \/ LoginAnswered(t)
    BY <1>0, <2>1, TabFrames, HonestKept
  <2>2. CASE BecomeOwner(t)
    BY <1>0, <2>2, HonestOwner
  <2>3. CASE SendRefresh(t)
    BY <1>0, <2>3, HonestSend
  <2>4. CASE GiveUpAged(t)
    BY <2>4 DEF GiveUpAged
  <2>5. CASE RefreshAnswered(t)
    BY <1>0, <2>5, HonestAnswered
  <2>6. CASE QuitAnswered(t) \/ LogoutAnswered(t)
    BY <1>0, <2>6 DEF QuitAnswered, LogoutAnswered, Base, LogoutsRight
  <2>7. CASE StoreCookie(t)
    BY <1>0, <2>7, HonestStore
  <2> QED BY <1>2, <2>1, <2>2, <2>3, <2>4, <2>5, <2>6, <2>7 DEF Proceed, QuietStep
<1>3. ASSUME NEW t \in Tabs,
             StartRefresh(t) \/ Mount(t) \/ SubmitLogin(t) \/ SubmitLogout(t) \/ FetchFails(t) \/ Crash(t)
      PROVE  HonestRight'
  <2>1. CASE StartRefresh(t) \/ Mount(t) \/ SubmitLogin(t)
    BY <1>0, <2>1, TabFrames, HonestKept DEF QuietStep
  <2>2. CASE SubmitLogout(t)
    BY <2>2 DEF SubmitLogout
  <2>3. CASE FetchFails(t) \/ Crash(t)
    BY <1>0, <2>3, FaultFrames, HonestKept
  <2> QED BY <1>3, <2>1, <2>2, <2>3
<1>4. CASE RetryWindowPasses \/ ResetElsewhere
  BY <1>0, <1>4, OtherFrames, HonestKept
<1> QED BY <1>1, <1>2, <1>3, <1>4 DEF Next

LEMMA HonestStutters ==
    ASSUME Base, HonestRight, UNCHANGED vars
    PROVE  HonestRight'
<1>1. HonestFrame
  BY DEF HonestFrame, vars, tabVars, serverVars, Refreshes
<1> QED BY <1>1, HonestKept

LEMMA InitHonest == Init => HonestRight
<1> SUFFICES ASSUME Init PROVE HonestRight
  OBVIOUS
<1> USE DEF Init
<1>1. Refreshes = {} /\ \A c : ~Asked(c)
  BY DEF Refreshes, Asked
<1>2. \A t \in Tabs : reply[t] = NoReply /\ pc[t] = "idle"
  OBVIOUS
<1>3. \A s \in Sessions : reason[s] # "REFRESH_TOKEN_REPLAYED"
  BY DEF Server!Init
<1>4. RequestsRight /\ OwnerRight
  BY <1>1, <1>2 DEF RequestsRight, OwnerRight
<1>5. CookieRight /\ LoginsRight /\ AnswersRight
  BY <1>1, <1>2 DEF CookieRight, LoginsRight, AnswersRight
<1>6. RetryRecovers /\ Untorn
  BY <1>1, <1>2 DEF RetryRecovers, Untorn
<1> QED BY <1>3, <1>4, <1>5, <1>6 DEF HonestRight

-----------------------------------------------------------------------------
(* The theorems.                                                             *)

\* Rows, wire, lock, slot and cookies keep fitting together whatever users do and whatever
\* breaks, and until the first logout every refresh on its way stays harmless.
THEOREM BrowserInvHolds == Spec => []BrowserInv
<1>1. Init => BrowserInv
  BY InitBase, InitHonest DEF BrowserInv
<1>2. BrowserInv /\ [Next]_vars => BrowserInv'
  <2> SUFFICES ASSUME BrowserInv, [Next]_vars PROVE BrowserInv'
    OBVIOUS
  <2>1. CASE Next
    <3>1. Base'
      BY <2>1, BaseStep DEF BrowserInv
    <3> QED BY <2>1, <3>1, HonestStep DEF BrowserInv
  <2>2. CASE UNCHANGED vars
    <3>1. Base' /\ history' = history
      BY <2>2, Stutters DEF BrowserInv, vars, tabVars
    <3> QED BY <2>2, <3>1, HonestStutters DEF BrowserInv
  <2> QED BY <2>1, <2>2
<1> QED BY <1>1, <1>2, PTL DEF Spec

\* As long as no logout was sent, the cookie is the session's current credential, or the slot
\* still holds the key under which the server exchanged it.
THEOREM RetryRecoversHolds == Spec => []RetryRecovers
<1>1. BrowserInv => RetryRecovers
  BY DEF BrowserInv, HonestRight, RetryRecovers
<1> QED BY <1>1, BrowserInvHolds, PTL

\* A browser that only logs in, refreshes, retries, reloads and crashes is never taken for a
\* replaying attacker.
THEOREM HonestNoReplayHolds == Spec => []HonestNoReplay
<1>1. BrowserInv => HonestNoReplay
  BY DEF BrowserInv, HonestRight, HonestNoReplay
<1> QED BY <1>1, BrowserInvHolds, PTL

\* A tab goes from its refresh to the conservative logout for one reason.
LEMMA DoubtOnly ==
    ASSUME Base, Next, NEW t \in Tabs, pc[t] = "calling", pc'[t] = "quitting"
    PROVE  reply[t].code \in Ambiguous
<1>0. pc \in [Tabs -> Places]
  BY DEF Base, BrowserTypeOK
<1>1. CASE Serve
  BY <1>1 DEF Serve, ServeRefresh, ServeLogin, ServeLogout
<1>2. ASSUME NEW x \in Tabs, RefreshAnswered(x) PROVE reply[t].code \in Ambiguous
  <2>1. CASE x = t
    BY <1>0, <1>2, <2>1 DEF RefreshAnswered, OwnerReturns
  <2>2. CASE x # t
    BY <1>0, <1>2, <2>2 DEF RefreshAnswered, OwnerReturns
  <2> QED BY <2>1, <2>2
<1>3. ASSUME NEW x \in Tabs, Proceed(x), ~RefreshAnswered(x) PROVE FALSE
  BY <1>0, <1>3 DEF Proceed, BecomeOwner, LockRefused, WaitForOwner, OwnerWaitTimesOut, SendRefresh,
     GiveUpAged, QuitAnswered, QuitEnds, OwnerReturns, LoginAnswered, LogoutAnswered, LogoutEnds, StoreCookie
<1>4. ASSUME NEW x \in Tabs,
             StartRefresh(x) \/ Mount(x) \/ SubmitLogin(x) \/ SubmitLogout(x) \/ FetchFails(x) \/ Crash(x)
      PROVE  FALSE
  BY <1>0, <1>4 DEF StartRefresh, Mount, SubmitLogin, SubmitLogout, FetchFails, Crash, RefreshUnanswered,
     QuitEnds, OwnerReturns, LogoutEnds
<1>5. CASE RetryWindowPasses \/ ResetElsewhere
  BY <1>5 DEF RetryWindowPasses, ResetElsewhere, tabVars
<1> QED BY <1>1, <1>2, <1>3, <1>4, <1>5 DEF Next

\* A retry ends in the client's conservative logout only if a fetch broke between its headers
\* and its body, somebody logged out, or the session had ended.
THEOREM ForcedLogoutHolds == Spec => ForcedLogoutExplained
<1>1. BrowserInv /\ [Next]_vars =>
          [\A t \in Tabs : pc[t] = "calling" /\ pc'[t] = "quitting" =>
              history # {} \/ sess[reply[t].session] # "active"]_vars
  <2> SUFFICES ASSUME BrowserInv, Next, NEW t \in Tabs, pc[t] = "calling", pc'[t] = "quitting", history = {}
               PROVE  sess[reply[t].session] # "active"
    OBVIOUS
  <2>1. reply[t].code \in Ambiguous
    BY DoubtOnly DEF BrowserInv
  <2>2. Untorn
    BY DEF BrowserInv, HonestRight
  <2> QED BY <2>1, <2>2 DEF Untorn
<1> QED BY <1>1, BrowserInvHolds, PTL DEF Spec, ForcedLogoutExplained

-----------------------------------------------------------------------------
(* The server of this composition is AuthSession.                            *)

\* What a step of the composition does to the server's rows.
LEMMA ServesOrNot ==
    ASSUME Base, Next
    PROVE  Serves \/ UNCHANGED serverVars
<1>1. ASSUME NEW r \in wire, ServeRefresh(r)
      PROVE  Serves \/ UNCHANGED serverVars
  <2>1. CASE r.cookie = NoCookie
    BY <1>1, <2>1 DEF ServeRefresh
  <2>2. CASE r.cookie # NoCookie
    <3>1. /\ r.cookie[1] \in Sessions /\ r.cookie[2] \in 1 .. MaxKeys + 1
          /\ r.key \in 1 .. MaxKeys
      BY <1>1, <2>2, Carried DEF ServeRefresh, Refreshes
    <3>2. UNCHANGED serverVars \/ Server!Refresh(r.cookie[1], r.cookie[2], r.key)
      BY <1>1, <2>2 DEF ServeRefresh
    <3> QED BY <3>1, <3>2 DEF Serves
  <2> QED BY <2>1, <2>2
<1>2. ASSUME NEW r \in wire, ServeLogin(r)
      PROVE  Serves
  <2>1. r.session \in Sessions \cup {NoSession} /\ epoch[User] \in 0 .. MaxEpoch
    BY DEF Base, BrowserTypeOK, Request, RowsRight, Server!TypeOK
  <2>2. \/ \E s \in Sessions : Server!LoginBegin(s, User, epoch[User])
        \/ /\ r.session # NoSession
           /\ Server!LoginCommit(r.session) \/ Server!LoginRejected(r.session)
    BY <1>2 DEF ServeLogin
  <2> QED BY <2>1, <2>2 DEF Serves
<1>3. ASSUME NEW r \in wire, ServeLogout(r)
      PROVE  Serves \/ UNCHANGED serverVars
  <2>1. r.session \in Sessions \cup {NoSession} /\ r.cookie[1] \in Sessions \cup {NoSession}
    BY DEF Base, BrowserTypeOK, Request, Cookies, NoCookie
  <2>2. ({r.cookie[1], r.session} \ {NoSession}) \in SUBSET Sessions
    BY <2>1
  <2>3. UNCHANGED serverVars \/ Server!Logout({r.cookie[1], r.session} \ {NoSession})
    BY <1>3 DEF ServeLogout
  <2> QED BY <2>2, <2>3 DEF Serves
<1>4. CASE ResetElsewhere
  BY <1>4 DEF ResetElsewhere, Serves
<1>5. CASE RetryWindowPasses
  BY <1>5 DEF RetryWindowPasses
<1>6. ASSUME NEW t \in Tabs, Proceed(t)
      PROVE  UNCHANGED serverVars
  BY <1>6 DEF Proceed, BecomeOwner, LockRefused, WaitForOwner, OwnerWaitTimesOut, SendRefresh, GiveUpAged,
     RefreshAnswered, QuitAnswered, LoginAnswered, LogoutAnswered, StoreCookie
<1>7. ASSUME NEW t \in Tabs,
             StartRefresh(t) \/ Mount(t) \/ SubmitLogin(t) \/ SubmitLogout(t) \/ FetchFails(t) \/ Crash(t)
      PROVE  UNCHANGED serverVars
  BY <1>7 DEF StartRefresh, Mount, SubmitLogin, SubmitLogout, FetchFails, Crash
<1> QED BY <1>1, <1>2, <1>3, <1>4, <1>5, <1>6, <1>7 DEF Next, Serve

\* A step of the server is a step of AuthSession.
LEMMA ServesNext == Serves => Server!Next
  BY DEF Serves, Server!Next, Server!Gens

LEMMA ServerStutters == UNCHANGED serverVars => UNCHANGED Server!vars
  BY DEF serverVars, Server!vars, Server!userVars, Server!sessionVars

\* The tabs, the network and the reset elsewhere drive the server only as AuthSession lets its
\* callers: what is proved of AuthSession holds with this browser in front of it.
THEOREM ServerIsAuthSession == Spec => Server!Spec
<1>1. Init => Server!Init
  BY DEF Init
<1>2. Base /\ [Next]_vars => [Server!Next]_(Server!vars)
  BY ServesOrNot, ServesNext, ServerStutters DEF vars
<1>3. Spec => []Base
  BY BrowserInvHolds, PTL DEF BrowserInv
<1> QED BY <1>1, <1>2, <1>3, PTL DEF Spec, Server!Spec

\* Therefore the sessions behind this browser keep the promise of SessionLifecycle: whatever
\* tabs, lost answers, crashes and retries do, a session opens once, honours one refresh token
\* at a time, exchanges it for one never honoured before, and stays closed.
THEOREM SessionsKeepTheirPromise == Spec => Server!ImplementsLifecycle
<1>1. Init => Server!Promise!Init
  <2> SUFFICES ASSUME Init PROVE Server!Promise!Init
    OBVIOUS
  <2>1. Rows!Promise!Init
    BY SameRows, Rows!InitPromised, RowsAssumptions DEF Init
  <2> QED BY <2>1, Zenon DEF Server!Promise!Init, Rows!Promise!Init, Server!Phase, Rows!Phase,
             Server!Honoured, Rows!Honoured, Server!Gens, Rows!Gens
<1>2. Base => Rows!HonoursCurrent
  BY SameRows, Rows!CoherentHonours, RowsAssumptions DEF Base, RowsRight
<1>3. Base /\ Rows!HonoursCurrent /\ Rows!HonoursCurrent' /\ [Next]_vars =>
          [Server!Promise!Next]_(Server!Promise!lifecycle)
  <2> SUFFICES ASSUME Base, Rows!HonoursCurrent, Rows!HonoursCurrent', [Next]_vars
               PROVE  [Server!Promise!Next]_(Server!Promise!lifecycle)
    OBVIOUS
  <2>1. [Rows!Next]_(Rows!vars)
    BY ServesOrNot, SameRows DEF vars, serverVars, Rows!vars, Rows!userVars, Rows!sessionVars
  <2>2. Rows!TypeOK /\ Rows!Coherent
    BY SameRows DEF Base, RowsRight
  <2>3. [Rows!Promise!Next]_(Rows!Promise!lifecycle)
    BY <2>1, <2>2, Rows!NextPromised, RowsAssumptions
  <2> QED BY <2>3, Zenon DEF Server!Promise!Next, Rows!Promise!Next, Server!Promise!lifecycle,
             Rows!Promise!lifecycle, Server!Promise!Open, Rows!Promise!Open, Server!Promise!Exchange,
             Rows!Promise!Exchange, Server!Promise!Close, Rows!Promise!Close, Server!Phase, Rows!Phase,
             Server!Honoured, Rows!Honoured, Server!Gens, Rows!Gens
<1>4. Spec => []Base
  BY BrowserInvHolds, PTL DEF BrowserInv
<1> QED BY <1>1, <1>2, <1>3, <1>4, PTL DEF Spec, Server!ImplementsLifecycle, Server!Promise!Spec
=============================================================================
