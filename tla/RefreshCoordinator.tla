------------------------- MODULE RefreshCoordinator -------------------------
(***************************************************************************)
(* The tabs of one browser, sharing one HttpOnly refresh cookie, one       *)
(* IndexedDB slot for the pending idempotency key and one Web Lock, against *)
(* the server of AuthSession (client/src/api/refresh-coordinator.ts,       *)
(* api/auth.ts, stores/auth.ts, pages/index/index.vue; the views of        *)
(* identity/views.py that set and clear the cookie).                       *)
(*                                                                         *)
(* A fetch is a request on the wire, the server's transaction, the arrival *)
(* of the headers (the browser stores Set-Cookie) and the arrival of the   *)
(* body (the page acts).  It can fail in every one of these intervals, and *)
(* the tab can crash in every one; a request whose tab has given up stays  *)
(* on the wire and the server may still execute it, at any later time.     *)
(*                                                                         *)
(* What one callback does between two awaits is one step.  The IndexedDB   *)
(* deletion that follows an answer is part of the step that handles it: a  *)
(* crash before it is the crash after the headers.                         *)
(***************************************************************************)
EXTENDS Integers, FiniteSets

CONSTANTS
    Tabs, NoTab,            \* tabs of one browser profile
    User, NoUser,           \* the user whose password is typed into every login form
    Sessions, NoSession,
    MaxKeys,                \* bound: how many idempotency keys the browser generates
    MaxEpoch,               \* bound: password resets made on another device
    MaxFaults               \* bound: tab crashes and failed fetches

ASSUME MaxKeysAssumption   == MaxKeys \in Nat \ {0}
ASSUME MaxFaultsAssumption == MaxFaults \in Nat
ASSUME MaxEpochAssumption  == MaxEpoch \in Nat
ASSUME NoValueAssumption   == NoTab \notin Tabs /\ NoUser # User /\ NoSession \notin Sessions
ASSUME TabsAssumption      == IsFiniteSet(Tabs)

VARIABLES account, enabled, epoch, login, sess, reason, fam, gen, cred, terminal, late

serverVars == <<account, enabled, epoch, login, sess, reason, fam, gen, cred, terminal, late>>

\* One generation more than keys: the server never reaches its bound.
Server == INSTANCE AuthSession WITH Users <- {User}, Keys <- 1 .. MaxKeys, MaxGen <- MaxKeys + 1

VARIABLES
    cookie,     \* new_mud_refresh: the credential <<session, generation>> or NoCookie
    pending,    \* the key in the IndexedDB slot, 0 when the slot is empty
    aged,       \* the pending record is older than RETRY_WINDOW_MS
    lock,       \* the tab that holds the Web Lock
    pc,         \* where each tab is
    token,      \* the session of the access token in each tab's memory
    wire,       \* requests the server has not executed yet
    reply,      \* the answer travelling to each tab
    minted,     \* keys generated so far
    faults,     \* crashes and failed fetches so far
    history,    \* events the properties tell apart, and only they read: see Events
    doubted     \* <<cookie, key>> of every refresh that was answered ambiguously

tabVars     == <<cookie, pending, aged, lock, pc, token, wire, reply, minted, faults, history, doubted>>
vars        == <<serverVars, tabVars>>

NoCookie == <<NoSession, 0>>
Cookies  == {NoCookie} \cup (Sessions \X (1 .. MaxKeys + 1))

\* "logout": a logout request was sent.  "torn": a fetch died after its Set-Cookie was
\* stored and before the page handled the body.
Events == {"logout", "torn"}

Places  == {"closed", "idle", "locking", "denied", "waiting",
            "owner", "overdue", "calling", "quitting", "loggingIn", "loggingOut"}
Holding == {"owner", "overdue", "calling", "quitting"}
InFlight == {"calling", "quitting", "loggingIn", "loggingOut"}

Request == [tab : Tabs, kind : {"refresh", "login", "logout"}, cookie : Cookies,
            key : 0 .. MaxKeys, session : Sessions \cup {NoSession}, live : BOOLEAN]

\* sent: the cookie of the request; set: the cookies the headers carry, at most one;
\* expired: expires_in <= 0.
Codes   == {"OK", "AUTH_CREDENTIALS_INVALID", "SESSION_REVOKED", "REFRESH_UNAVAILABLE",
            "REFRESH_IDEMPOTENCY_CONFLICT", "REFRESH_REQUEST_SUPERSEDED"}
Ambiguous == {"REFRESH_IDEMPOTENCY_CONFLICT", "REFRESH_REQUEST_SUPERSEDED"}
Answer  == [code : Codes, session : Sessions \cup {NoSession}, sent : Cookies,
            set : SUBSET Cookies, expired : BOOLEAN, stored : BOOLEAN]
NoReply == [code |-> "none", session |-> NoSession, sent |-> NoCookie, set |-> {},
            expired |-> FALSE, stored |-> FALSE]

BrowserTypeOK ==
    /\ cookie \in Cookies
    /\ pending \in 0 .. MaxKeys
    /\ aged \in BOOLEAN
    /\ lock \in Tabs \cup {NoTab}
    /\ pc \in [Tabs -> Places]
    /\ token \in [Tabs -> Sessions \cup {NoSession}]
    /\ wire \subseteq Request
    /\ reply \in [Tabs -> Answer \cup {NoReply}]
    /\ minted \in 0 .. MaxKeys
    /\ faults \in 0 .. MaxFaults
    /\ history \subseteq Events
    /\ doubted \subseteq Cookies \X (1 .. MaxKeys)
    /\ \A t \in Tabs : lock = t <=> pc[t] \in Holding

Init ==
    /\ Server!Init
    /\ cookie = NoCookie
    /\ pending = 0
    /\ aged = FALSE
    /\ lock = NoTab
    /\ pc = [t \in Tabs |-> "idle"]
    /\ token = [t \in Tabs |-> NoSession]
    /\ wire = {}
    /\ reply = [t \in Tabs |-> NoReply]
    /\ minted = 0
    /\ faults = 0
    /\ history = {}
    /\ doubted = {}

-----------------------------------------------------------------------------
(* Helpers.                                                                  *)

Move(t, to) == pc' = [pc EXCEPT ![t] = to]

\* Tabs that may still generate a key: the bound MaxKeys stops refreshes from starting,
\* never one that has begun.
KeyLeft ==
    minted + Cardinality({t \in Tabs : \/ pc[t] \in {"locking", "denied", "waiting"}
                                       \/ reply[t].expired}) < MaxKeys

\* A row is left for every login on the wire: the bound Sessions stops logins from being
\* submitted, never one that was.
SessionLeft ==
    Cardinality({r \in wire : r.kind = "login" /\ r.session = NoSession})
        < Cardinality({s \in Sessions : sess[s] = "none" /\ login[s] = Server!NoLogin})

\* fetch with credentials: include, the cookie attached as it is now.
Post(t, kind, key, session) ==
    wire' = wire \cup {[tab |-> t, kind |-> kind, cookie |-> cookie, key |-> key,
                        session |-> session, live |-> TRUE]}

\* What the tabs in waitForOwner do with the owner's message; a tab between the refused
\* lock and its onmessage handler misses it.
Woken == {t \in Tabs : pc[t] = "waiting"}

\* Mutant: the callback's promise never settles, the browser keeps the lock for it.
OwnerReturnsWithLock(t, s) ==
    /\ pc' = [x \in Tabs |-> IF x \in Woken \cup {t} THEN "idle" ELSE pc[x]]
    /\ token' = [x \in Tabs |-> IF x \in Woken \cup {t} THEN s ELSE token[x]]
    /\ UNCHANGED lock

\* The owner's call returns: its message, the end of its callback (which frees the lock)
\* and what refreshSession or onMounted does with the result.
OwnerReturns(t, s) ==
    /\ lock' = NoTab
    /\ pc' = [x \in Tabs |-> IF x \in Woken \cup {t} THEN "idle" ELSE pc[x]]
    /\ token' = [x \in Tabs |-> IF x \in Woken \cup {t} THEN s ELSE token[x]]

\* Mutant: a handled answer leaves its key in the slot.
KeepPending == UNCHANGED <<pending, aged>>

ClearPending == pending' = 0 /\ aged' = FALSE

-----------------------------------------------------------------------------
(* coordinatedRefresh.                                                       *)

\* The refresh button of an authenticated tab.
StartRefresh(t) ==
    /\ pc[t] = "idle"
    /\ token[t] # NoSession
    /\ KeyLeft
    /\ Move(t, "locking")
    /\ UNCHANGED <<serverVars, cookie, pending, aged, lock, token, wire, reply, minted, faults, history, doubted>>

\* onMounted: a page that loads retries a pending refresh, and only that.
Mount(t) ==
    /\ pc[t] = "closed"
    /\ IF pending # 0 THEN KeyLeft /\ Move(t, "locking") ELSE Move(t, "idle")
    /\ UNCHANGED <<serverVars, cookie, pending, aged, lock, token, wire, reply, minted, faults, history, doubted>>

\* Mutant: every owner generates a key of its own.
BecomeOwnerNewKey(t) ==
    /\ pc[t] = "locking"
    /\ lock = NoTab
    /\ minted < MaxKeys
    /\ lock' = t
    /\ Move(t, "owner")
    /\ pending' = minted + 1
    /\ minted' = minted + 1
    /\ UNCHANGED <<serverVars, cookie, aged, token, wire, reply, faults, history, doubted>>

\* The lock was free: getOrCreatePending in its read-write transaction.
BecomeOwner(t) ==
    /\ pc[t] = "locking"
    /\ lock = NoTab
    /\ lock' = t
    /\ Move(t, IF aged THEN "overdue" ELSE "owner")
    /\ IF pending = 0 THEN pending' = minted + 1 /\ minted' = minted + 1
                      ELSE UNCHANGED <<pending, minted>>
    /\ UNCHANGED <<serverVars, cookie, aged, token, wire, reply, faults, history, doubted>>

\* ifAvailable: the callback runs with null.
LockRefused(t) ==
    /\ pc[t] = "locking"
    /\ lock # NoTab
    /\ Move(t, "denied")
    /\ UNCHANGED <<serverVars, cookie, pending, aged, lock, token, wire, reply, minted, faults, history, doubted>>

WaitForOwner(t) ==
    /\ pc[t] = "denied"
    /\ Move(t, "waiting")
    /\ UNCHANGED <<serverVars, cookie, pending, aged, lock, token, wire, reply, minted, faults, history, doubted>>

\* Mutant: no timer, a waiting tab relies on the owner's message.
OwnerWaitIsEndless(t) == pc[t] = "waiting" /\ UNCHANGED vars

\* ownerWaitMs: the loop of coordinatedRefresh asks for the lock again.
OwnerWaitTimesOut(t) ==
    /\ pc[t] = "waiting"
    /\ Move(t, "locking")
    /\ UNCHANGED <<serverVars, cookie, pending, aged, lock, token, wire, reply, minted, faults, history, doubted>>

\* The key is the one the owner read, the last one generated: nobody but the owner
\* generates keys.  A logout in another tab may have emptied the slot since.
SendRefresh(t) ==
    /\ pc[t] = "owner"
    /\ Move(t, "calling")
    /\ Post(t, "refresh", minted, NoSession)
    /\ UNCHANGED <<serverVars, cookie, pending, aged, lock, token, reply, minted, faults, history, doubted>>

\* A pending record past the retry window is not sent: the client logs out instead.
GiveUpAged(t) ==
    /\ pc[t] = "overdue"
    /\ ClearPending
    /\ Move(t, "quitting")
    /\ Post(t, "logout", 0, NoSession)
    /\ history' = history \cup {"logout"}
    /\ UNCHANGED <<serverVars, cookie, lock, token, reply, minted, faults, doubted>>

\* Mutant: a failed fetch forgets the key too.
RefreshUnansweredForgets(t) == OwnerReturns(t, NoSession) /\ ClearPending /\ UNCHANGED minted

\* The fetch failed before its body was read, or the server answered with neither success
\* nor a code of this list: the slot keeps its record.
RefreshUnanswered(t) ==
    /\ OwnerReturns(t, NoSession)
    /\ UNCHANGED <<pending, aged, minted>>

\* The body of the answer: acceptResult, clearPending, then the message.
RefreshAnswered(t) ==
    /\ pc[t] = "calling"
    /\ reply[t].stored
    /\ reply' = [reply EXCEPT ![t] = NoReply]
    /\ \/ /\ reply[t].code = "OK"
          /\ ~reply[t].expired
          /\ ClearPending
          /\ OwnerReturns(t, reply[t].session)
          /\ UNCHANGED <<wire, minted, history, doubted>>
       \/ \* An access token that is already expired: a new key, the loop again.
          /\ reply[t].code = "OK"
          /\ reply[t].expired
          /\ pending' = minted + 1
          /\ minted' = minted + 1
          /\ aged' = FALSE
          /\ Move(t, "owner")
          /\ UNCHANGED <<lock, token, wire, history, doubted>>
       \/ \* The cookie's generation is unknown: forget the key and log out.
          /\ reply[t].code \in Ambiguous
          /\ ClearPending
          /\ Move(t, "quitting")
          /\ Post(t, "logout", 0, NoSession)
          /\ history' = history \cup {"logout"}
          /\ doubted' = doubted \cup {<<reply[t].sent, minted>>}
          /\ UNCHANGED <<lock, token, minted>>
       \/ /\ reply[t].code \in {"REFRESH_UNAVAILABLE", "SESSION_REVOKED"}
          /\ ClearPending
          /\ OwnerReturns(t, NoSession)
          /\ UNCHANGED <<wire, minted, history, doubted>>
    /\ UNCHANGED <<serverVars, cookie, faults>>

\* bestEffortLogout returns, answered or not; logoutRequest's finally empties the slot.
QuitEnds(t) ==
    /\ ClearPending
    /\ OwnerReturns(t, NoSession)

QuitAnswered(t) ==
    /\ pc[t] = "quitting"
    /\ reply[t].stored
    /\ reply' = [reply EXCEPT ![t] = NoReply]
    /\ QuitEnds(t)
    /\ UNCHANGED <<serverVars, cookie, wire, minted, faults, history, doubted>>

-----------------------------------------------------------------------------
(* Login and logout take no lock.                                            *)

SubmitLogin(t) ==
    /\ pc[t] = "idle"
    /\ token[t] = NoSession
    /\ SessionLeft
    /\ Move(t, "loggingIn")
    /\ Post(t, "login", 0, NoSession)
    /\ UNCHANGED <<serverVars, cookie, pending, aged, lock, token, reply, minted, faults, history, doubted>>

LoginAnswered(t) ==
    /\ pc[t] = "loggingIn"
    /\ reply[t].stored
    /\ reply' = [reply EXCEPT ![t] = NoReply]
    /\ Move(t, "idle")
    /\ token' = [token EXCEPT ![t] = reply[t].session]
    /\ UNCHANGED <<serverVars, cookie, pending, aged, lock, wire, minted, faults, history, doubted>>

SubmitLogout(t) ==
    /\ pc[t] = "idle"
    /\ token[t] # NoSession
    /\ Move(t, "loggingOut")
    /\ Post(t, "logout", 0, token[t])
    /\ history' = history \cup {"logout"}
    /\ UNCHANGED <<serverVars, cookie, pending, aged, lock, token, reply, minted, faults, doubted>>

\* logoutRequest's finally empties the slot, whoever owns it; the store's clears the token.
LogoutEnds(t) ==
    /\ ClearPending
    /\ Move(t, "idle")
    /\ token' = [token EXCEPT ![t] = NoSession]
    /\ UNCHANGED lock

LogoutAnswered(t) ==
    /\ pc[t] = "loggingOut"
    /\ reply[t].stored
    /\ reply' = [reply EXCEPT ![t] = NoReply]
    /\ LogoutEnds(t)
    /\ UNCHANGED <<serverVars, cookie, wire, minted, faults, history, doubted>>

-----------------------------------------------------------------------------
(* The server executes a request.                                            *)

\* An answer goes to a tab that still waits for it.
Respond(r, code, s, set, expired) ==
    /\ wire' = wire \ {r}
    /\ reply' = IF r.live
                THEN [reply EXCEPT ![r.tab] = [code |-> code, session |-> s, sent |-> r.cookie,
                                               set |-> set, expired |-> expired,
                                               stored |-> set = {}]]
                ELSE reply

\* refresh_view.  Only a recorded success can carry an access token that has expired.
ServeRefresh(r) ==
    /\ r.kind = "refresh"
    /\ LET s == r.cookie[1]
           g == r.cookie[2]
           answer == Server!Answer(s, g, r.key)
       IN  \/ /\ r.cookie = NoCookie
              /\ Respond(r, "REFRESH_UNAVAILABLE", NoSession, {}, FALSE)
              /\ UNCHANGED serverVars
           \/ /\ r.cookie # NoCookie
              /\ Server!Recorded(s, r.key)
              /\ \E expired \in BOOLEAN :
                    /\ expired => answer.code = "OK" /\ KeyLeft
                    /\ Respond(r, answer.code, s,
                               IF answer.code = "OK" THEN {<<s, answer.succ>>} ELSE {}, expired)
              /\ UNCHANGED serverVars
           \/ /\ r.cookie # NoCookie
              /\ Server!Refresh(s, g, r.key)
              /\ Respond(r, answer.code, s,
                         IF answer.code = "OK" THEN {<<s, answer.succ>>} ELSE {}, FALSE)
    /\ UNCHANGED <<cookie, pending, aged, lock, pc, token, minted, faults, history, doubted>>

\* login_view, in the two steps of AuthSession; the password typed is the current one.
ServeLogin(r) ==
    /\ r.kind = "login"
    /\ \/ /\ r.session = NoSession
          /\ \E s \in Sessions :
                /\ Server!LoginBegin(s, User, epoch[User])
                /\ wire' = (wire \ {r}) \cup {[r EXCEPT !.session = s]}
          /\ UNCHANGED reply
       \/ /\ r.session # NoSession
          /\ Server!LoginCommit(r.session)
          /\ Respond(r, "OK", r.session, {<<r.session, 1>>}, FALSE)
       \/ /\ r.session # NoSession
          /\ Server!LoginRejected(r.session)
          /\ Respond(r, "AUTH_CREDENTIALS_INVALID", NoSession, {}, FALSE)
    /\ UNCHANGED <<cookie, pending, aged, lock, pc, token, minted, faults, history, doubted>>

\* logout_view: always 204, always an expired Set-Cookie.
ServeLogout(r) ==
    /\ r.kind = "logout"
    /\ LET S == {r.cookie[1], r.session} \ {NoSession} IN
       IF S = {} THEN UNCHANGED serverVars ELSE Server!Logout(S)
    /\ Respond(r, "OK", NoSession, {NoCookie}, FALSE)
    /\ UNCHANGED <<cookie, pending, aged, lock, pc, token, minted, faults, history, doubted>>

-----------------------------------------------------------------------------
(* The browser, the network and time.                                        *)

\* Response headers arrive: Set-Cookie takes effect before the page sees the body.
StoreCookie(t) ==
    /\ reply[t] # NoReply
    /\ ~reply[t].stored
    /\ cookie' \in reply[t].set
    /\ reply' = [reply EXCEPT ![t].stored = TRUE]
    /\ UNCHANGED <<serverVars, pending, aged, lock, pc, token, wire, minted, faults, history, doubted>>

\* The tab stops waiting for its request: what is still on the wire stays there.
Abandon(t) ==
    /\ faults < MaxFaults
    /\ faults' = faults + 1
    /\ wire' = {IF r.tab = t THEN [r EXCEPT !.live = FALSE] ELSE r : r \in wire}
    /\ reply' = [reply EXCEPT ![t] = NoReply]
    /\ history' = IF reply[t].stored /\ reply[t].set # {} THEN history \cup {"torn"} ELSE history

\* fetch rejects, or the body cannot be read.
FetchFails(t) ==
    /\ pc[t] \in InFlight
    /\ Abandon(t)
    /\ \/ pc[t] = "calling" /\ RefreshUnanswered(t)
       \/ pc[t] = "quitting" /\ QuitEnds(t) /\ UNCHANGED minted
       \/ pc[t] = "loggingOut" /\ LogoutEnds(t) /\ UNCHANGED minted
       \/ pc[t] = "loggingIn" /\ Move(t, "idle") /\ UNCHANGED <<pending, aged, lock, token, minted>>
    /\ UNCHANGED <<serverVars, cookie, doubted>>

\* The page goes away, by a crash, a reload or a navigation: the browser frees its lock.
Crash(t) ==
    /\ pc[t] # "closed"
    /\ Abandon(t)
    /\ Move(t, "closed")
    /\ token' = [token EXCEPT ![t] = NoSession]
    /\ lock' = IF lock = t THEN NoTab ELSE lock
    /\ UNCHANGED <<serverVars, cookie, pending, aged, minted, doubted>>

\* RETRY_WINDOW_MS passes: no fetch lasts a day.
RetryWindowPasses ==
    /\ pending # 0
    /\ ~aged
    /\ lock = NoTab
    /\ aged' = TRUE
    /\ UNCHANGED <<serverVars, cookie, pending, lock, pc, token, wire, reply, minted, faults, history, doubted>>

\* The password is reset on another device.
ResetElsewhere ==
    /\ Server!ResetPassword(User)
    /\ UNCHANGED tabVars

Serve == \E r \in wire : ServeRefresh(r) \/ ServeLogin(r) \/ ServeLogout(r)

Proceed(t) ==
    \/ BecomeOwner(t) \/ LockRefused(t) \/ WaitForOwner(t) \/ OwnerWaitTimesOut(t)
    \/ SendRefresh(t) \/ GiveUpAged(t) \/ RefreshAnswered(t) \/ QuitAnswered(t)
    \/ LoginAnswered(t) \/ LogoutAnswered(t) \/ StoreCookie(t)

Next ==
    \/ Serve
    \/ \E t \in Tabs :
          \/ Proceed(t)
          \/ StartRefresh(t) \/ Mount(t) \/ SubmitLogin(t) \/ SubmitLogout(t)
          \/ FetchFails(t) \/ Crash(t)
    \/ RetryWindowPasses
    \/ ResetElsewhere

Spec == Init /\ [][Next]_vars

-----------------------------------------------------------------------------
(* Properties.                                                               *)

\* The browser can always go on with its session: as long as no logout was sent, the
\* cookie is the session's current credential, or the slot still holds the very key under
\* which the server exchanged it, so that the retry returns the successor.  Two tabs, a
\* crash or a lost answer at any point never leave a spent cookie without its key.
RetryRecovers ==
    LET s == cookie[1]
        g == cookie[2]
    IN  cookie # NoCookie /\ sess[s] = "active" /\ "logout" \notin history =>
            \/ g = gen[s]
            \/ /\ pending # 0
               /\ g + 1 = gen[s]
               /\ terminal[s][pending] = [hash |-> g, succ |-> g + 1]

\* A browser that only logs in, refreshes, retries, reloads and crashes is never taken for
\* a replaying attacker: that takes a logout the server did not see, after which the
\* client forgets the key of an exchange it never learnt of.
HonestNoReplay ==
    \A s \in Sessions : reason[s] = "REFRESH_TOKEN_REPLAYED" => "logout" \in history

\* A retry ends in the client's conservative logout (docs/new_engine/15, rule 4) only if a
\* fetch broke between its headers and its body, somebody logged out, or the session had
\* ended: requests or answers lost as a whole, lock takeovers and logins never cause it.
ForcedLogoutExplained ==
    [][\A t \in Tabs : pc[t] = "calling" /\ pc'[t] = "quitting" =>
          history # {} \/ sess[reply[t].session] # "active"]_vars

\* Every call a tab makes comes back: nobody waits for ever for an owner that crashed, for
\* a message it missed, or for the lock.
EveryCallEnds ==
    \A t \in Tabs : pc[t] \notin {"idle", "closed"} ~> pc[t] \in {"idle", "closed"}

\* docs/new_engine/15, rule 4: after an ambiguous answer that cookie is not tried again
\* with a new key.
NoNewKeyAfterDoubt ==
    \A r \in wire, d \in doubted : r.kind = "refresh" /\ r.cookie = d[1] => r.key = d[2]

\* Scheduling: a tab's own steps and timers run, the server executes a request somebody
\* waits for.  Nothing makes users act, faults happen or abandoned requests arrive.
ServeTab(t) ==
    \E r \in wire : r.tab = t /\ r.live /\ (ServeRefresh(r) \/ ServeLogin(r) \/ ServeLogout(r))

FairSpec == Spec /\ \A t \in Tabs : WF_vars(Proceed(t)) /\ WF_vars(ServeTab(t))
=============================================================================
