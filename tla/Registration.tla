---------------------------- MODULE Registration ----------------------------
(***************************************************************************)
(* POST /auth/register (views.py, services.py) on top of the codes of         *)
(* CodeRequests: the cached request limits (rate_limits.py), the advisory     *)
(* locks of the user name and of the contact, the code, and the rows of a new *)
(* account.                                                                *)
(*                                                                         *)
(* Each cache operation is a step: a bucket may expire between any two, other  *)
(* calls count in it.  The transaction waits for two locks in turn; the rows   *)
(* are checked and inserted with both held, and seen at the commit.           *)
(*                                                                         *)
(* Guesses are counted in VerificationDelivery; here a wrong code may lock.    *)
(***************************************************************************)
EXTENDS CodeRequests

CONSTANTS
    Signups,        \* registration calls in flight
    Names,          \* user names, lower case
    Wrong,          \* a code nobody was sent, or nobody has any more
    CacheLimit,     \* AUTH_REGISTRATION_RATE_LIMIT_ACCOUNT and _IP, by scope
    MaxSignups      \* bound: registration calls

ASSUME SignupsAssumption == MaxSignups \in Nat /\ CacheLimit \in [{"account", "ip"} -> Nat \ {0}]

VARIABLES
    tried,      \* registration calls so far
    step,       \* where a call is
    signup,     \* its name, contact, code, and the ip it comes from
    use,        \* its use of the cache: the bucket's scope, whether it adds again, no limit met
    cache,      \* count of a bucket, 0 when there is none
    passed,     \* uses of a bucket since it was created that met no limit: for properties
    accounts    \* user, game account and contact rows: [name, contact, code]

signupVars == <<tried, step, signup, use, cache, passed, accounts>>
vars       == <<codeVars, signupVars>>

Scopes  == {"account", "ip"}
Buckets == {<<"account", n>> : n \in Names} \cup {<<"ip", i>> : i \in Ips}
Offers  == [name : Names, contact : Contacts, code : {"registration"} \X Keys \cup {Wrong}, ip : Ips]
Steps   == {"idle", "adding", "incrementing", "naming", "scoping", "deciding", "inserting"}
Fresh   == [scope |-> "account", again |-> FALSE, fine |-> TRUE]

\* The unique constraints on names and contacts.
Distinct(S) == \A a, b \in S : a.name = b.name \/ a.contact = b.contact => a = b

\* Accounts from before, of a code nobody has now.
Init ==
    /\ CodeInit
    /\ tried = 0
    /\ step = [s \in Signups |-> "idle"]
    /\ signup = [s \in Signups |-> Idle]
    /\ use = [s \in Signups |-> Fresh]
    /\ cache = [b \in Buckets |-> 0]
    /\ passed = [b \in Buckets |-> 0]
    /\ accounts \in SUBSET [name : Names, contact : Contacts, code : {Wrong}]
    /\ Distinct(accounts)
    /\ users = {a.contact : a \in accounts}

-----------------------------------------------------------------------------
\* A client that knows a code knows it from a mail that was sent.
Signup(s, offer) ==
    /\ step[s] = "idle"
    /\ tried < MaxSignups
    /\ offer.code # Wrong => code[offer.code] \notin {"none", "pending_delivery"}
    /\ tried' = tried + 1
    /\ step' = [step EXCEPT ![s] = "adding"]
    /\ signup' = [signup EXCEPT ![s] = offer]
    /\ use' = [use EXCEPT ![s] = Fresh]
    /\ UNCHANGED <<codeVars, cache, passed, accounts>>

\* The call is answered, its transaction over.
Over(s) ==
    /\ step' = [step EXCEPT ![s] = "idle"]
    /\ signup' = [signup EXCEPT ![s] = Idle]
    /\ use' = [use EXCEPT ![s] = Fresh]
    /\ UNCHANGED tried

Goes(s, to) ==
    /\ step' = [step EXCEPT ![s] = to]
    /\ UNCHANGED <<tried, signup>>

-----------------------------------------------------------------------------
(* consume_rate_limit: the bucket of the user name, then the one of the ip.   *)

Bucket(s) ==
    IF use[s].scope = "account" THEN <<"account", signup[s].name>> ELSE <<"ip", signup[s].ip>>

\* _consume_bucket gives n, a use of a bucket that then holds n.  Every bucket is used,
\* then one over its limit is enough for a 429.
Consumed(s, n) ==
    LET within == n <= CacheLimit[use[s].scope]
        fine   == use[s].fine /\ within
    IN  /\ passed' = [passed EXCEPT ![Bucket(s)] = IF within THEN @ + 1 ELSE @]
        /\ IF use[s].scope = "account"
           THEN /\ Goes(s, "adding")
                /\ use' = [use EXCEPT ![s] = [Fresh EXCEPT !.scope = "ip", !.fine = fine]]
           ELSE IF fine THEN Goes(s, "naming") /\ UNCHANGED use ELSE Over(s)

\* cache.add, the first and the second.
Add(s) ==
    /\ step[s] = "adding"
    /\ IF cache[Bucket(s)] = 0
       THEN /\ cache' = [cache EXCEPT ![Bucket(s)] = 1]
            /\ Consumed(s, 1)
       ELSE /\ Goes(s, "incrementing")
            /\ UNCHANGED <<use, cache, passed>>
    /\ UNCHANGED <<codeVars, accounts>>

\* Mutant: a bucket that expired before incr counts as new, and is not.
IncrementForgets(s) ==
    /\ step[s] = "incrementing"
    /\ cache' = [cache EXCEPT ![Bucket(s)] = IF @ = 0 THEN 0 ELSE @ + 1]
    /\ Consumed(s, cache[Bucket(s)] + 1)
    /\ UNCHANGED <<codeVars, accounts>>

\* cache.incr; a bucket that expired is added again, and if that one is there and then
\* expires as well, the ValueError ends the call with a 500.
Increment(s) ==
    /\ step[s] = "incrementing"
    /\ \/ /\ cache[Bucket(s)] > 0
          /\ cache' = [cache EXCEPT ![Bucket(s)] = @ + 1]
          /\ Consumed(s, cache[Bucket(s)] + 1)
       \/ /\ cache[Bucket(s)] = 0
          /\ IF use[s].again
             THEN Over(s)
             ELSE Goes(s, "adding") /\ use' = [use EXCEPT ![s].again = TRUE]
          /\ UNCHANGED <<cache, passed>>
    /\ UNCHANGED <<codeVars, accounts>>

\* The timeout of a bucket, AUTH_RATE_LIMIT_WINDOW_SECONDS after it was added.
BucketExpires(b) ==
    /\ cache[b] > 0
    /\ cache' = [cache EXCEPT ![b] = 0]
    /\ passed' = [passed EXCEPT ![b] = 0]
    /\ UNCHANGED <<codeVars, tried, step, signup, use, accounts>>

-----------------------------------------------------------------------------
(* The transaction of register.                                              *)

Scoped == {"deciding", "inserting"}

\* Mutant: no advisory lock for the user name.
NameAny(s) == TRUE

NameFree(s) ==
    \A t \in Signups \ {s} : step[t] \in {"scoping"} \cup Scoped => signup[t].name # signup[s].name

ScopeFree(s) ==
    \A t \in Signups \ {s} : step[t] \in Scoped => signup[t].contact # signup[s].contact

LockName(s) ==
    /\ step[s] = "naming"
    /\ NameFree(s)
    /\ Goes(s, "scoping")
    /\ UNCHANGED <<codeVars, use, cache, passed, accounts>>

LockScope(s) ==
    /\ step[s] = "scoping"
    /\ ScopeFree(s)
    /\ Goes(s, "deciding")
    /\ UNCHANGED <<codeVars, use, cache, passed, accounts>>

Sent(c)   == {id \in Ids : record[id] # Unsent /\ id[1] = "registration" /\ record[id].contact = c}
Active(c) == {id \in Sent(c) : code[id] = "active"}

NameTaken(n)    == \E a \in accounts : a.name = n
ContactTaken(c) == \E a \in accounts : a.contact = c

\* No active code, or it expired, or another one was submitted: what the attempt did to the
\* challenge is committed.
WrongCode(s) ==
    /\ step[s] = "deciding"
    /\ \/ Active(signup[s].contact) = {} /\ UNCHANGED code
       \/ \E id \in Active(signup[s].contact) :
              \/ code' = [code EXCEPT ![id] = "expired"]
              \/ id # signup[s].code /\ \E to \in {"active", "locked"} : code' = [code EXCEPT ![id] = to]
    /\ Over(s)
    /\ UNCHANGED <<clock, requestVars, users, closed, cache, passed, accounts>>

RightCode(s) == step[s] = "deciding" /\ signup[s].code \in Active(signup[s].contact)

\* RegistrationUnavailable rolls back: the code stays as good as it was.
Taken(s) ==
    /\ RightCode(s)
    /\ NameTaken(signup[s].name) \/ ContactTaken(signup[s].contact)
    /\ Over(s)
    /\ UNCHANGED <<codeVars, cache, passed, accounts>>

Accept(s) ==
    /\ RightCode(s)
    /\ ~NameTaken(signup[s].name)
    /\ ~ContactTaken(signup[s].contact)
    /\ Goes(s, "inserting")
    /\ UNCHANGED <<codeVars, use, cache, passed, accounts>>

\* User, game account, contact; the code is consumed.
Insert(s) ==
    /\ step[s] = "inserting"
    /\ accounts' = accounts \cup
           {[name |-> signup[s].name, contact |-> signup[s].contact, code |-> signup[s].code]}
    /\ users' = users \cup {signup[s].contact}
    /\ code' = [code EXCEPT ![signup[s].code] = "consumed"]
    /\ Over(s)
    /\ UNCHANGED <<clock, requestVars, closed, cache, passed>>

\* A password that validate_password refuses, a DatabaseError, the cache or the server: a
\* rollback.
SignupFails(s) ==
    /\ step[s] # "idle"
    /\ Over(s)
    /\ UNCHANGED <<codeVars, cache, passed, accounts>>

SignupStep(s) ==
    \/ Add(s) \/ Increment(s) \/ LockName(s) \/ LockScope(s) \/ WrongCode(s)
    \/ Taken(s) \/ Accept(s) \/ Insert(s) \/ SignupFails(s)

\* The delivery worker needs the contact's advisory lock to activate a code.
Delivers(id) ==
    /\ Mailed(id)
    /\ \A s \in Signups : step[s] \in Scoped => signup[s].contact # record[id].contact
    /\ UNCHANGED signupVars

Next ==
    \/ \E r \in Requests, call \in Calls : Ask(r, call) /\ UNCHANGED signupVars
    \/ \E r \in Requests : RequestStep(r) /\ UNCHANGED signupVars
    \/ (Tick \/ \E c \in Contacts : Closes(c)) /\ UNCHANGED signupVars
    \/ \E id \in Ids : Delivers(id)
    \/ \E s \in Signups, offer \in Offers : Signup(s, offer)
    \/ \E s \in Signups : SignupStep(s)
    \/ \E b \in Buckets : BucketExpires(b)

Spec == Init /\ [][Next]_vars

-----------------------------------------------------------------------------
RegistrationTypeOK ==
    /\ clock \in 0 .. MaxClock
    /\ place \in [Requests -> {"idle", "asking", "charging"}]
    /\ \A r \in Requests : place[r] # "idle" => request[r] \in Calls
    /\ now \in [Requests -> 0 .. MaxClock]
    /\ locked \in [Requests -> 0 .. Len(Limits)]
    /\ step \in [Signups -> Steps]
    /\ \A s \in Signups : step[s] # "idle" => signup[s] \in Offers
    /\ use \in [Signups -> [scope : Scopes, again : BOOLEAN, fine : BOOLEAN]]
    /\ cache \in [Buckets -> 0 .. MaxSignups]

NoUncountedUse ==
    \A b \in Buckets : passed[b] <= cache[b] /\ passed[b] <= CacheLimit[b[1]]

\* verification_limits.py:65 and rate_limits.py:39.  Persistent windows: WindowsMatchRecords.
\* Cached buckets may expire between any two cache operations, and other calls may count in
\* between; still no use that counts as within the limit is missing from the count of the
\* bucket's present life, and these are never more than the limit.
LimitsCount ==
    /\ RegistrationTypeOK
    /\ WindowsMatchRecords
    /\ NoUncountedUse

\* services.py:142: with calls for one name, one contact and one code at once, a call that
\* inserts finds its name and contact free and its code good, so no unique constraint is met;
\* every account was made from a code of its own, mailed to its own contact and consumed.
RegistersOnce ==
    /\ \A s \in Signups : step[s] = "inserting" =>
           /\ ~NameTaken(signup[s].name) /\ ~ContactTaken(signup[s].contact)
           /\ code[signup[s].code] = "active"
           /\ \A t \in Signups \ {s} : step[t] = "inserting" =>
                  /\ signup[t].name # signup[s].name
                  /\ signup[t].contact # signup[s].contact
    /\ Distinct(accounts)
    /\ \A a \in accounts : a.code # Wrong =>
           /\ code[a.code] = "consumed" /\ a.code \in Sent(a.contact)
           /\ \A b \in accounts : b.code = a.code => b = a

\* From the request for a code to the account it makes, calls, windows and failures included,
\* the codes implement the promise of CodeLifecycle: the subject of a code is its purpose and
\* the address it is mailed to, as the record of its key keeps them.
Phase(id) ==
    CASE code[id] = "none" -> "new"
      [] code[id] = "pending_delivery" -> "requested"
      [] code[id] = "active" -> "usable"
      [] code[id] = "consumed" -> "used"
      [] OTHER -> "ended"

Subject(id) == IF code[id] = "none" THEN <<>> ELSE <<id[1], record[id].contact>>

Promise == INSTANCE CodeLifecycle WITH
    Codes <- Ids,
    Subjects <- Purposes \X Contacts,
    NoSubject <- <<>>,
    phase <- [id \in Ids |-> Phase(id)],
    about <- [id \in Ids |-> Subject(id)]

ImplementsCodes == Promise!Spec
=============================================================================
