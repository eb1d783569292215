----------------------------- MODULE AuthSession -----------------------------
(***************************************************************************)
(* The authentication authority: AuthSession, its one RefreshTokenFamily,  *)
(* the family's credentials and the refresh terminal records, as the       *)
(* database holds them (apps/identity/models.py), and the operations of    *)
(* apps/identity/services.py that change them.                             *)
(*                                                                         *)
(* Grain.  Every operation runs in one transaction that takes its row      *)
(* locks before it reads what it decides on, and every pair of operations  *)
(* that touches the same session shares a lock (refresh and logout: the    *)
(* session row; refresh and reset: the account row; login and reset: the   *)
(* user row).  A transaction is therefore one step.  What is read before   *)
(* the locks is a step of its own only where it can go stale: the user row *)
(* that login reads first.  The rows refresh and logout locate first       *)
(* (credential -> family -> session -> account) are immutable links.       *)
(*                                                                         *)
(* A credential is the pair <<session, generation>>: credential ids are    *)
(* unique and (family, generation) is unique.  The canonical request hash  *)
(* is a digest of the credential id, so inside a family it is the          *)
(* generation.  Key strings, token bytes and audit rows are left out.      *)
(***************************************************************************)
EXTENDS Integers, FiniteSets, SchemaGuards

CONSTANTS
    Users,      \* users, each with its one GameAccount of this instance
    NoUser,     \* the owner of a session that nobody has opened
    Sessions,   \* the rows login can create: bounds the number of logins
    Keys,       \* idempotency keys
    MaxGen,     \* bound: the generation at which the model stops rotating
    MaxEpoch    \* bound: the number of password resets of one user

ASSUME MaxGenAssumption   == MaxGen \in Nat \ {0}
ASSUME MaxEpochAssumption == MaxEpoch \in Nat
ASSUME NoUserAssumption   == NoUser \notin Users

VARIABLES
    account,    \* GameAccount.lifecycle of each user
    enabled,    \* User.is_active
    epoch,      \* which password the user's hash stands for: resets so far
    login,      \* the login that opens a session: user, password, hash read first
    sess,       \* AuthSession.state, "none" before the row exists
    reason,     \* AuthSession.revoke_reason
    fam,        \* RefreshTokenFamily.state
    gen,        \* RefreshTokenFamily.current_generation
    cred,       \* RefreshTokenCredential.state by generation
    terminal,   \* RefreshRequestTerminalRecord by idempotency key
    late        \* absolute_expires_at (one value for all three rows) has passed

userVars    == <<account, enabled, epoch>>
sessionVars == <<sess, reason, fam, gen, cred, terminal>>
vars        == <<userVars, login, sessionVars, late>>

Gens         == 1 .. MaxGen
Lifecycles   == {"active", "cooling_off", "retired"}
SessionState == {"none", "active", "revoked", "logged_out"}
Ended        == {"revoked", "logged_out"}
FamilyState  == {"none", "active", "revoked"}
CredState    == {"none", "active", "used", "revoked"}
Reasons      == {"", "LOGOUT", "SESSION_REVOKED", "REFRESH_TOKEN_REPLAYED", "PASSWORD_RESET"}

Login   == [user : Users \cup {NoUser}, presented : 0 .. MaxEpoch, read : 0 .. MaxEpoch]
NoLogin == [user |-> NoUser, presented |-> 0, read |-> 0]

\* A terminal record: the generation its request hash names and the generation of
\* its successor, 0 when the record is FAILED.
Terminal   == [hash : 0 .. MaxGen, succ : 0 .. MaxGen]
NoTerminal == [hash |-> 0, succ |-> 0]

TypeOK ==
    /\ account \in [Users -> Lifecycles]
    /\ enabled \in [Users -> BOOLEAN]
    /\ epoch \in [Users -> 0 .. MaxEpoch]
    /\ login \in [Sessions -> Login]
    /\ sess \in [Sessions -> SessionState]
    /\ reason \in [Sessions -> Reasons]
    /\ fam \in [Sessions -> FamilyState]
    /\ gen \in [Sessions -> 0 .. MaxGen]
    /\ cred \in [Sessions -> [Gens -> CredState]]
    /\ terminal \in [Sessions -> [Keys -> Terminal]]
    /\ late \in [Sessions -> BOOLEAN]

Init ==
    /\ account = [u \in Users |-> "active"]
    /\ enabled = [u \in Users |-> TRUE]
    /\ epoch = [u \in Users |-> 0]
    /\ login = [s \in Sessions |-> NoLogin]
    /\ sess = [s \in Sessions |-> "none"]
    /\ reason = [s \in Sessions |-> ""]
    /\ fam = [s \in Sessions |-> "none"]
    /\ gen = [s \in Sessions |-> 0]
    /\ cred = [s \in Sessions |-> [g \in Gens |-> "none"]]
    /\ terminal = [s \in Sessions |-> [k \in Keys |-> NoTerminal]]
    /\ late = [s \in Sessions |-> FALSE]

-----------------------------------------------------------------------------
(* Reading the rows.                                                         *)

Owner(s) == login[s].user

\* auth_session_is_active: what an access token must resolve to.
SessionUsable(s) ==
    /\ sess[s] = "active"
    /\ ~late[s]
    /\ enabled[Owner(s)]
    /\ account[Owner(s)] = "active"

\* The condition of refresh's convergence branch, negated.  It never reads is_active.
RefreshAllowed(s) ==
    /\ fam[s] = "active"
    /\ sess[s] = "active"
    /\ ~late[s]
    /\ account[Owner(s)] = "active"

Issued(s, g)   == cred[s][g] # "none"
Recorded(s, k) == terminal[s][k] # NoTerminal
Replayed(s, g) == cred[s][g] = "used" /\ g < gen[s]

\* Mutant: a used credential still counts as the current one.
CurrentIfUnrevoked(s, g) == cred[s][g] \in {"active", "used"} /\ g <= gen[s]

Current(s, g) == cred[s][g] = "active" /\ g = gen[s]

Success(h)    == [code |-> "OK", succ |-> h]
Failure(code) == [code |-> code, succ |-> 0]

\* Mutant: a recorded success answers with whatever credential is current by now.
RecordedAnswerCurrent(s, g, k) ==
    LET t == terminal[s][k] IN
    IF t.hash # g \/ t.succ = 0 THEN Failure("SESSION_REVOKED") ELSE Success(gen[s])

\* What refresh answers when a terminal record of the key exists: nothing is written.
RecordedAnswer(s, g, k) ==
    LET t == terminal[s][k] IN
    CASE t.hash # g -> Failure("REFRESH_IDEMPOTENCY_CONFLICT")
      [] t.hash = g /\ t.succ = 0 -> Failure("SESSION_REVOKED")
      [] t.hash = g /\ t.succ # 0 /\ ~Current(s, t.succ) -> Failure("REFRESH_REQUEST_SUPERSEDED")
      [] t.hash = g /\ t.succ # 0 /\ Current(s, t.succ) ->
            IF account[Owner(s)] = "active" /\ sess[s] = "active" /\ ~late[s]
            THEN Success(t.succ)
            ELSE Failure("SESSION_REVOKED")

\* What refresh answers to credential <<s, g>> under key k, decided before it writes.
Answer(s, g, k) ==
    CASE ~Issued(s, g) -> Failure("REFRESH_UNAVAILABLE")
      [] Issued(s, g) /\ Recorded(s, k) -> RecordedAnswer(s, g, k)
      [] Issued(s, g) /\ ~Recorded(s, k) ->
            IF ~Replayed(s, g) /\ RefreshAllowed(s) /\ Current(s, g)
            THEN Success(g + 1)
            ELSE Failure("SESSION_REVOKED")

-----------------------------------------------------------------------------
(* Login.                                                                    *)

\* The unlocked read of the user row, with the hash it carried.  The client presents
\* the current password or an earlier one (any wrong password behaves like those).
LoginBegin(s, u, p) ==
    /\ sess[s] = "none"
    /\ login[s] = NoLogin
    /\ p <= epoch[u]
    /\ login' = [login EXCEPT ![s] = [user |-> u, presented |-> p, read |-> epoch[u]]]
    /\ UNCHANGED <<userVars, sessionVars, late>>

\* Mutant: the hash that the unlocked read carried is the one checked.
PasswordAcceptedUnlocked(s) == login[s].presented = login[s].read

\* check_password, on the user row read again under its lock.
PasswordAccepted(s) == login[s].presented = epoch[Owner(s)]

Eligible(s) == account[Owner(s)] = "active" /\ enabled[Owner(s)]

\* Session, family and generation 1 are created in one transaction.
LoginCommit(s) ==
    /\ sess[s] = "none"
    /\ login[s] # NoLogin
    /\ Eligible(s)
    /\ PasswordAccepted(s)
    /\ sess' = [sess EXCEPT ![s] = "active"]
    /\ fam' = [fam EXCEPT ![s] = "active"]
    /\ gen' = [gen EXCEPT ![s] = 1]
    /\ cred' = [cred EXCEPT ![s][1] = "active"]
    /\ UNCHANGED <<userVars, login, reason, terminal, late>>

LoginRejected(s) ==
    /\ sess[s] = "none"
    /\ login[s] # NoLogin
    /\ ~(Eligible(s) /\ PasswordAccepted(s))
    /\ login' = [login EXCEPT ![s] = NoLogin]
    /\ UNCHANGED <<userVars, sessionVars, late>>

-----------------------------------------------------------------------------
(* Convergence: every way a session ends.                                    *)

\* Mutants: the session's target state is written to the credential row; the current
\* credential is left as it is.
RevokedAsLoggedOut(c) == [g \in Gens |-> IF c[g] = "active" THEN "logged_out" ELSE c[g]]
RevokedKeepsCredential(c) == c

Revoked(c) == [g \in Gens |-> IF c[g] = "active" THEN "revoked" ELSE c[g]]

\* Mutant: the session row is written without asking whether it was active.
ConvergeOverwrites(S, target, why) ==
    /\ cred' = [s \in Sessions |-> IF s \in S THEN Revoked(cred[s]) ELSE cred[s]]
    /\ fam' = [s \in Sessions |-> IF s \in S THEN "revoked" ELSE fam[s]]
    /\ sess' = [s \in Sessions |-> IF s \in S THEN target ELSE sess[s]]
    /\ reason' = [s \in Sessions |-> IF s \in S THEN why ELSE reason[s]]

\* _converge_authentication_control on every session of S.  A family or a session that
\* is no longer active keeps its state and its reason; credentials always converge.
Converge(S, target, why) ==
    /\ cred' = [s \in Sessions |-> IF s \in S THEN Revoked(cred[s]) ELSE cred[s]]
    /\ fam' = [s \in Sessions |-> IF s \in S /\ fam[s] = "active" THEN "revoked" ELSE fam[s]]
    /\ sess' = [s \in Sessions |-> IF s \in S /\ sess[s] = "active" THEN target ELSE sess[s]]
    /\ reason' = [s \in Sessions |-> IF s \in S /\ sess[s] = "active" THEN why ELSE reason[s]]

-----------------------------------------------------------------------------
(* Refresh of credential <<s, g>> under key k.  With a terminal record the     *)
(* call only answers RecordedAnswer, so the steps below are those without one. *)

NewRequest(s, g, k) == Issued(s, g) /\ ~Recorded(s, k)

Record(s, k, g, h) == terminal' = [terminal EXCEPT ![s][k] = [hash |-> g, succ |-> h]]

\* A used predecessor under a key the family has no record of.
RefreshReplayed(s, g, k) ==
    /\ NewRequest(s, g, k)
    /\ Replayed(s, g)
    /\ Converge({s}, "revoked", "REFRESH_TOKEN_REPLAYED")
    /\ Record(s, k, g, 0)
    /\ UNCHANGED <<userVars, login, gen, late>>

\* The session, family or account is not active or the absolute expiry has passed: all
\* three rows converge.  A credential that is not the current one while they are active
\* only leaves the FAILED record.
RefreshRefused(s, g, k) ==
    /\ NewRequest(s, g, k)
    /\ ~Replayed(s, g)
    /\ ~(RefreshAllowed(s) /\ Current(s, g))
    /\ Converge({x \in {s} : ~RefreshAllowed(x)}, "revoked", "SESSION_REVOKED")
    /\ Record(s, k, g, 0)
    /\ UNCHANGED <<userVars, login, gen, late>>

\* Mutant: the predecessor stays active beside its successor.
RotateKeepsPredecessor(c, g) == [c EXCEPT ![g + 1] = "active"]

Rotate(c, g) == [c EXCEPT ![g] = "used", ![g + 1] = "active"]

RefreshRotates(s, g, k) ==
    /\ NewRequest(s, g, k)
    /\ RefreshAllowed(s)
    /\ Current(s, g)
    /\ g < MaxGen
    /\ cred' = [cred EXCEPT ![s] = Rotate(@, g)]
    /\ gen' = [gen EXCEPT ![s] = g + 1]
    /\ Record(s, k, g, g + 1)
    /\ UNCHANGED <<userVars, login, sess, reason, fam, late>>

Refresh(s, g, k) ==
    \/ RefreshReplayed(s, g, k)
    \/ RefreshRefused(s, g, k)
    \/ RefreshRotates(s, g, k)

-----------------------------------------------------------------------------
(* Logout, password reset, time and administration.                          *)

\* The sessions the refresh cookie and the access token name, at most one each; used
\* and revoked credentials locate their session too.
Logout(S) ==
    /\ S # {}
    /\ Cardinality(S) <= 2
    /\ \A s \in S : sess[s] # "none"
    /\ Converge(S, "logged_out", "LOGOUT")
    /\ UNCHANGED <<userVars, login, gen, terminal, late>>

SessionsOf(u) == {s \in Sessions : Owner(s) = u /\ sess[s] # "none"}

\* The authentication effect of a confirmed reset (VerificationDelivery models its
\* challenge): new password, and every session of the user revoked, in one transaction.
ResetPassword(u) ==
    /\ enabled[u]
    /\ account[u] \in {"active", "cooling_off"}
    /\ epoch[u] < MaxEpoch
    /\ epoch' = [epoch EXCEPT ![u] = @ + 1]
    /\ Converge(SessionsOf(u), "revoked", "PASSWORD_RESET")
    /\ UNCHANGED <<account, enabled, login, gen, terminal, late>>

\* The clock reaches absolute_expires_at.  No task runs then: only reads notice it.
ExpiryPasses(s) ==
    /\ sess[s] = "active"
    /\ ~late[s]
    /\ late' = [late EXCEPT ![s] = TRUE]
    /\ UNCHANGED <<userVars, login, sessionVars>>

\* Nothing under src/ writes GameAccount.lifecycle or User.is_active after creation; the
\* code reads both, so an administrator may change them between any two steps.
SetLifecycle(u, l) ==
    /\ l # account[u]
    /\ account' = [account EXCEPT ![u] = l]
    /\ UNCHANGED <<enabled, epoch, login, sessionVars, late>>

ToggleEnabled(u) ==
    /\ enabled' = [enabled EXCEPT ![u] = ~@]
    /\ UNCHANGED <<account, epoch, login, sessionVars, late>>

Next ==
    \/ \E s \in Sessions :
          \/ \E u \in Users, p \in 0 .. MaxEpoch : LoginBegin(s, u, p)
          \/ LoginCommit(s)
          \/ LoginRejected(s)
          \/ \E g \in Gens, k \in Keys : Refresh(s, g, k)
          \/ ExpiryPasses(s)
    \/ \E S \in SUBSET Sessions : Logout(S)
    \/ \E u \in Users :
          \/ ResetPassword(u)
          \/ \E l \in Lifecycles : SetLifecycle(u, l)
          \/ ToggleEnabled(u)

Spec == Init /\ [][Next]_vars

-----------------------------------------------------------------------------
(* Properties.                                                               *)

\* The three rows agree at every commit (the deferred triggers of migration 0002 refuse
\* a transaction otherwise): a session is active exactly when its family is, and exactly
\* then its current generation is the one active credential; every earlier generation is
\* used and no later one exists.  All of refresh, logout, reset and login maintain it.
CoherentSession(s) ==
    /\ sess[s] = "none" <=> gen[s] = 0
    /\ fam[s] = "none" <=> sess[s] = "none"
    /\ fam[s] = "active" <=> sess[s] = "active"
    /\ \A g \in Gens :
          /\ g < gen[s] => cred[s][g] = "used"
          /\ g = gen[s] => cred[s][g] = IF sess[s] = "active" THEN "active" ELSE "revoked"
          /\ g > gen[s] => cred[s][g] = "none"

Coherent == \A s \in Sessions : CoherentSession(s)

\* Each rotation is accounted for by exactly one idempotency key: a generation below the
\* current one was exchanged by one request and no other, so whatever keys and whatever
\* order retries arrive in, a credential never has two successors.
OneSuccessor ==
    \A s \in Sessions :
        /\ \A k \in Keys : terminal[s][k].succ # 0 =>
               /\ terminal[s][k].succ = terminal[s][k].hash + 1
               /\ terminal[s][k].succ <= gen[s]
        /\ \A j, k \in Keys :
               terminal[s][j].succ = terminal[s][k].succ /\ terminal[s][j].succ # 0 => j = k
        /\ \A g \in Gens : g < gen[s] => \E k \in Keys : terminal[s][k].hash = g /\ terminal[s][k].succ = g + 1

\* A password reset leaves nothing behind that an earlier password opened: every active
\* session was opened with the password the user has now, also when the login began
\* (and read the old hash) before the reset committed.
CurrentPasswordOnly ==
    \A s \in Sessions : sess[s] = "active" => login[s].presented = epoch[Owner(s)]

\* No operation, in any order, revives an ended session, rewrites why it ended, or makes one of
\* its credentials active (docs/new_engine/13, section 10: a terminal state is not overwritten),
\* and the triggers of migrations 0001 and 0002 never undo one: no step changes a row that has
\* ended, and what it leaves of a session, its family and its credentials passes the checks
\* deferred to the commit.  A login, refresh, logout or reset that meets rows another one has
\* already ended therefore never fails with a database error.
NoResurrection ==
    [][\A s \in Sessions :
          /\ sess[s] \in Ended => reason'[s] = reason[s]
          /\ SessionGuard(sess[s], sess'[s])
          /\ FamilyGuard(fam[s], fam'[s])
          /\ \A g \in Gens : CredentialGuard(cred[s][g], cred'[s][g])
          /\ SessionPair(sess'[s], fam'[s])
          /\ FamilyCredentials(fam'[s], gen'[s], cred'[s])]_vars

\* A retry of a request that has its record never gets a different result: only the
\* successor the record names is ever returned, a failure stays that failure, and
\* REFRESH_REQUEST_SUPERSEDED is final, whatever happens between the two calls.
RetryIsStable ==
    [][\A s \in Sessions, k \in Keys :
          LET t == terminal[s][k]
              before == Answer(s, t.hash, k)
              after == Answer(s, t.hash, k)'
          IN  Recorded(s, k) =>
                 /\ after.code = "OK" => after.succ = t.succ
                 /\ t.succ = 0 => after.code = "SESSION_REVOKED"
                 /\ before.code = "REFRESH_REQUEST_SUPERSEDED" => after = before]_vars

\* The rows implement the promise of SessionLifecycle: the honoured tokens are the active
\* credentials, the issued ones are counted by current_generation.
Phase(s) == CASE sess[s] = "none" -> "new" [] sess[s] = "active" -> "open" [] OTHER -> "closed"

Honoured(s) == {g \in Gens : cred[s][g] = "active"}

Promise == INSTANCE SessionLifecycle WITH
    phase <- [s \in Sessions |-> Phase(s)],
    issued <- gen,
    honoured <- [s \in Sessions |-> Honoured(s)]

ImplementsLifecycle == Promise!Spec

\* docs/new_engine/13 (section 10) says the absolute expiry moves a session to "expired":
\* an expired session that a refresh finds still active is not made revoked instead.
ExpiryIsNotRevocation ==
    [][\A s \in Sessions :
          sess[s] = "active" /\ late[s] /\ sess'[s] # "active" => reason'[s] # "SESSION_REVOKED"]_vars
=============================================================================
