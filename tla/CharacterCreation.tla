-------------------------- MODULE CharacterCreation --------------------------
(***************************************************************************)
(* Creating a character (characters/services.py), on top of the servers of   *)
(* ContentStartup that answer the requests and of the release they serve.     *)
(*                                                                         *)
(* One transaction locks the account, then the release head, and commits all  *)
(* the rows at once; between the two locks other requests run, and PostgreSQL *)
(* may finish a transaction whose server has stopped.  A server answers       *)
(* requests as soon as it serves, ready or not.  A player sends a call as      *)
(* often as they like, whatever came back.                                  *)
(*                                                                         *)
(* A display name is raw; DisplayName gives its NFKC form, or Invalid.  The    *)
(* profile's initial state is reduced to its start room.  Gender and pronouns *)
(* are checked like the profile and left out.  No code retires an account.    *)
(***************************************************************************)
EXTENDS ContentStartup

CONSTANTS
    Requests,       \* HTTP requests in flight
    Accounts,
    Keys,           \* Idempotency-Key values
    Profiles,       \* creation profiles a request may name
    RawNames,
    DisplayName,    \* RawNames -> normalized display names, or Invalid
    Invalid,
    Nobody

ASSUME DisplayNameAssumption == RawNames \subseteq DOMAIN DisplayName
ASSUME NobodyAssumption == Nobody \notin Requests

VARIABLES
    accountLock,    \* GameAccount row locks: the request that holds one, or Nobody
    headLock,       \* the ContentReleaseHead row lock
    at,             \* where a request is; "idle" also after "created" and "unavailable"
    request,        \* its account, key, profile and display name, and the handling build
    characters,     \* Character with its CharacterOwnership: [id, owner, name]
    records,        \* CharacterCreationRequestRecord: [account, key, payload, id]
    told            \* "created" answers so far, in the form of records: for properties

creationVars == <<accountLock, headLock, at, request, characters, records, told>>
vars == <<contentVars, creationVars>>

Calls   == [account : Accounts, key : Keys, payload : [profile : Profiles, name : RawNames], offers : {b.profiles : b \in Builds}]
Working == {"account", "head", "name", "insert"}

\* A request between its first lock and its commit.
Locking == {"head", "name", "insert"}

CreationTypeOK ==
    /\ ContentTypeOK
    /\ at \in [Requests -> {"idle", "refused"} \cup Working]
    /\ \A r \in Requests : at[r] \in Working => request[r] \in Calls
    /\ \A t \in records \cup told : \E c \in characters : c.id = t.id /\ c.owner = t.account
    \* A row lock has one owner, that owner needs it, and who needs it has it.
    /\ accountLock \in [Accounts -> Requests \cup {Nobody}]
    /\ headLock \in Requests \cup {Nobody}
    /\ \A a \in Accounts, r \in Requests :
           accountLock[a] = r <=> at[r] \in Locking /\ request[r].account = a
    /\ \A r \in Requests : headLock = r <=> at[r] \in {"name", "insert"}

CreationInit ==
    /\ accountLock = [a \in Accounts |-> Nobody]
    /\ headLock = Nobody
    /\ at = [r \in Requests |-> "idle"]
    /\ request = [r \in Requests |-> Nobody]
    /\ characters = {}
    /\ records = {}
    /\ told = {}

Init == ContentInit /\ CreationInit

-----------------------------------------------------------------------------
Account(r) == request[r].account
Name(r)    == DisplayName[request[r].payload.name]

\* What the idempotency record, and the answer, of a created character are made of.
Form(r, id) == [account |-> Account(r), key |-> request[r].key, payload |-> request[r].payload, id |-> id]

Recorded(r) == {t \in records : t.account = Account(r) /\ t.key = request[r].key}
Owned(a)    == {c \in characters : c.owner = a}

\* A player may send any call, again or for the first time, to any server that serves.
Send(r, s, call) ==
    /\ at[r] \notin Working
    /\ pc[s] = "serving"
    /\ call.offers = build[s].profiles
    /\ at' = [at EXCEPT ![r] = "account"]
    /\ request' = [request EXCEPT ![r] = call]
    /\ UNCHANGED <<contentVars, accountLock, headLock, characters, records, told>>

Unlocks(r) ==
    /\ accountLock' = [a \in Accounts |-> IF accountLock[a] = r THEN Nobody ELSE accountLock[a]]
    /\ headLock' = IF headLock = r THEN Nobody ELSE headLock

\* The transaction ends, and the request with it.
Finish(r, place) ==
    /\ at' = [at EXCEPT ![r] = place]
    /\ request' = [request EXCEPT ![r] = Nobody]
    /\ Unlocks(r)
    /\ UNCHANGED contentVars

Refuse(r)      == Finish(r, "refused") /\ UNCHANGED <<characters, records, told>>
Unavailable(r) == Finish(r, "idle") /\ UNCHANGED <<characters, records, told>>

\* select_for_update on the account: the request is next.
AccountTurn(r) == at[r] = "account" /\ accountLock[Account(r)] = Nobody

\* Mutant: a key is enough to get the recorded answer.
SameKey(r, t) == TRUE

SamePayload(r, t) == t.payload = request[r].payload

\* The key was used: the recorded answer again, if the request is the recorded one.
Replay(r) ==
    /\ AccountTurn(r)
    /\ \E t \in Recorded(r) :
           /\ SamePayload(r, t)
           /\ told' = told \cup {Form(r, t.id)}
    /\ Finish(r, "idle")
    /\ UNCHANGED <<characters, records>>

KeyConflict(r) ==
    /\ AccountTurn(r)
    /\ \E t \in Recorded(r) : ~SamePayload(r, t)
    /\ Unavailable(r)

\* SELF_SERVICE_CHARACTER_LIMIT = 1.
AtLimit(r) ==
    /\ AccountTurn(r)
    /\ Recorded(r) = {}
    /\ Owned(Account(r)) # {}
    /\ Refuse(r)

\* _creation_profile, then normalize_character_display_name.
StartRoom(r) == request[r].offers[request[r].payload.profile]
Offered(r)   == request[r].payload.profile \in DOMAIN request[r].offers

RefuseInput(r) ==
    /\ AccountTurn(r)
    /\ Recorded(r) = {}
    /\ Owned(Account(r)) = {}
    /\ \/ ~Offered(r) /\ Refuse(r)
       \/ Offered(r) /\ Name(r) = Invalid /\ Refuse(r)

LockAccount(r) ==
    /\ AccountTurn(r)
    /\ Recorded(r) = {}
    /\ Owned(Account(r)) = {}
    /\ Offered(r)
    /\ Name(r) # Invalid
    /\ accountLock' = [accountLock EXCEPT ![Account(r)] = r]
    /\ at' = [at EXCEPT ![r] = "head"]
    /\ UNCHANGED <<contentVars, headLock, request, characters, records, told>>

\* _resolved_initial_state: the active batch has the start room, and it is a room.
Resolved(r) ==
    /\ StartRoom(r) \in DOMAIN release.rows
    /\ release.bundle[StartRoom(r)].kind = "room"

\* Mutant: the release head is read without select_for_update.
HeadRead(r) == at[r] = "head"

\* select_for_update on the release head: the request is next.
HeadTurn(r) == at[r] = "head" /\ headLock = Nobody

LockHead(r) ==
    /\ HeadTurn(r)
    /\ release # NoRelease
    /\ Resolved(r)
    /\ headLock' = r
    /\ at' = [at EXCEPT ![r] = "name"]
    /\ UNCHANGED <<contentVars, accountLock, request, characters, records, told>>

\* No active release, or none with the start room.  Without a row there is nothing to wait for.
NoStartRoom(r) ==
    /\ \/ at[r] = "head" /\ release = NoRelease
       \/ HeadTurn(r) /\ release # NoRelease /\ ~Resolved(r)
    /\ Refuse(r)

NameTaken(r) == \E c \in characters : c.name = Name(r)

CheckName(r) ==
    /\ at[r] = "name"
    /\ IF NameTaken(r)
       THEN Refuse(r)
       ELSE /\ at' = [at EXCEPT ![r] = "insert"]
            /\ UNCHANGED <<contentVars, accountLock, headLock, request, characters, records, told>>

\* Character, CharacterOwnership, CharacterCreationRecord and the idempotency record.
Insert(r) ==
    /\ at[r] = "insert"
    /\ LET id == Cardinality(characters) + 1
       IN  /\ characters' = characters \cup {[id |-> id, owner |-> Account(r), name |-> Name(r)]}
           /\ records' = records \cup {Form(r, id)}
           /\ told' = told \cup {Form(r, id)}
    /\ Finish(r, "idle")

\* A DatabaseError in the transaction, or its server stops: rolled back.
CreationFails(r) ==
    /\ at[r] \in Working
    /\ Unavailable(r)

CreationStep(r) ==
    \/ Replay(r) \/ KeyConflict(r) \/ AtLimit(r) \/ RefuseInput(r) \/ LockAccount(r)
    \/ LockHead(r) \/ NoStartRoom(r) \/ CheckName(r) \/ Insert(r) \/ CreationFails(r)

Next ==
    \/ ContentNext /\ UNCHANGED creationVars
    \/ \E r \in Requests, s \in Servers, call \in Calls : Send(r, s, call)
    \/ \E r \in Requests : CreationStep(r)

Spec == Init /\ [][Next]_vars

-----------------------------------------------------------------------------
\* services.py:391-405 translates violations of three unique constraints.  The locks make
\* them impossible: when a request inserts, its account has no character, its key is unused
\* and its name is free, whatever other requests did since it checked.  Until then it holds
\* both row locks, and they are nobody's when it is done (CreationTypeOK).
ConstraintsNeverBite ==
    /\ CreationTypeOK
    /\ \A r \in Requests : at[r] = "insert" =>
           /\ Owned(Account(r)) = {}
           /\ Recorded(r) = {}
           /\ ~NameTaken(r)

\* services.py:323: once a call created a character, a request with its key never creates
\* another one, never gets "created" for another call, and is never refused because the
\* account is now full, the name taken, the profile gone or the server another build.
RetryRepeats ==
    [][\A r \in Requests : \A t \in told :
           at[r] \in Working /\ t.account = Account(r) /\ t.key = request[r].key
           => /\ at'[r] # "refused"
              /\ \A u \in told' : u.account = t.account /\ u.key = t.key => u = t]_vars
=============================================================================
