---------------------------- MODULE CodeRequests ----------------------------
(***************************************************************************)
(* The endpoints that ask for a verification code (verification_requests.py) *)
(* with their persistent rate limits (verification_limits.py): the record of *)
(* each Idempotency-Key, the fixed windows of the contact, the device and the *)
(* address a request comes from, and the challenge it may leave behind.       *)
(*                                                                         *)
(* Grain.  A request reads the clock, then its transaction takes the advisory *)
(* lock of its key and those of its windows, one after the other; it may wait  *)
(* at each, and all its writes are seen at the commit.  A request comes from   *)
(* any browser (device cookie) and address; malformed ones end before this.   *)
(*                                                                         *)
(* The answer 202 always says the same; of a 429 only the status is kept.     *)
(***************************************************************************)
EXTENDS Integers, FiniteSets, Sequences

CONSTANTS
    Requests,       \* HTTP requests in flight
    Keys,           \* Idempotency-Key values
    Contacts,       \* email addresses, normalized
    Devices, Ips,
    Limits,         \* _rate_limits as consume_persistent_limits sorts it: [scope, seconds, limit]
    MaxClock,       \* bound: the time
    MaxRequests     \* bound: requests sent

ASSUME LimitsAssumption ==
    Limits \in Seq([scope : {"contact", "device", "ip"}, seconds : Nat \ {0}, limit : Nat \ {0}])
ASSUME BoundsAssumption == MaxClock \in Nat /\ MaxRequests \in Nat

VARIABLES
    clock,
    sent,       \* requests sent so far
    place,      \* where a request is
    request,    \* its purpose, key, contact, device and ip
    now,        \* the time it read
    locked,     \* how many of its windows' advisory locks it holds
    record,     \* VerificationRequestRecord: the request of a key, and the status answered
    window,     \* VerificationRateLimitBucket: [start, count, charges, admitted]
    code,       \* the state of the challenge a key's request created
    users,      \* contacts that belong to an account
    closed,     \* of these, the ones a reset finds no usable contact and account for
    answers     \* the statuses answered to a key: for properties

requestVars == <<sent, place, request, now, locked, record, window, answers>>
codeVars    == <<clock, requestVars, code, users, closed>>

Purposes == {"registration", "password_reset"}
Ids      == Purposes \X Keys
Unsent   == [status |-> 0]
Idle     == [purpose |-> "none"]
Calls    == [purpose : Purposes, key : Keys, contact : Contacts, device : Devices, ip : Ips]
Statuses == {202, 429}
Unused   == [start |-> 0, count |-> 0, charges |-> 0, admitted |-> 0]
Subjects == [contact |-> Contacts, device |-> Devices, ip |-> Ips]
Windows  == UNION {Purposes \X {i} \X Subjects[Limits[i].scope] : i \in 1 .. Len(Limits)}

CodeInit ==
    /\ clock = 0
    /\ sent = 0
    /\ place = [r \in Requests |-> "idle"]
    /\ request = [r \in Requests |-> Idle]
    /\ now = [r \in Requests |-> 0]
    /\ locked = [r \in Requests |-> 0]
    /\ record = [id \in Ids |-> Unsent]
    /\ window = [w \in Windows |-> Unused]
    /\ code = [id \in Ids |-> "none"]
    /\ users \in SUBSET Contacts
    /\ closed = {}
    /\ answers = [id \in Ids |-> {}]

-----------------------------------------------------------------------------
Id(r) == <<request[r].purpose, request[r].key>>

\* The bucket of the i-th limit of a request; the namespaces of the two purposes are apart.
Window(r, i) == <<request[r].purpose, i, request[r][Limits[i].scope]>>

\* The time is read before the transaction: what follows may wait for other requests.
Ask(r, call) ==
    /\ place[r] = "idle"
    /\ sent < MaxRequests
    /\ sent' = sent + 1
    /\ place' = [place EXCEPT ![r] = "asking"]
    /\ request' = [request EXCEPT ![r] = call]
    /\ now' = [now EXCEPT ![r] = clock]
    /\ UNCHANGED <<clock, locked, record, window, code, users, closed, answers>>

\* Commit or rollback, and the answer: the locks are given up.
Ends(r) ==
    /\ place' = [place EXCEPT ![r] = "idle"]
    /\ request' = [request EXCEPT ![r] = Idle]
    /\ now' = [now EXCEPT ![r] = 0]
    /\ locked' = [locked EXCEPT ![r] = 0]
    /\ UNCHANGED <<clock, sent, users, closed>>

Answers(id, status) == answers' = [answers EXCEPT ![id] = @ \cup {status}]

\* Mutant: the record is looked up without the advisory lock of the key.
KeyAny(r) == TRUE

KeyFree(r) == \A q \in Requests \ {r} : place[q] = "charging" => Id(q) # Id(r)

KeyTurn(r) == place[r] = "asking" /\ KeyFree(r)

\* The key was used for this contact: its answer again, or for another one: a conflict.
Replay(r) ==
    /\ KeyTurn(r)
    /\ record[Id(r)] # Unsent
    /\ IF record[Id(r)].contact = request[r].contact
       THEN Answers(Id(r), record[Id(r)].status)
       ELSE UNCHANGED answers
    /\ Ends(r)
    /\ UNCHANGED <<record, window, code>>

LockKey(r) ==
    /\ KeyTurn(r)
    /\ record[Id(r)] = Unsent
    /\ place' = [place EXCEPT ![r] = "charging"]
    /\ UNCHANGED <<clock, sent, request, now, locked, record, window, code, users, closed, answers>>

HoldsWindow(q, w) == \E i \in 1 .. locked[q] : Window(q, i) = w

WindowFree(r) == \A q \in Requests \ {r} : ~HoldsWindow(q, Window(r, locked[r] + 1))

LockWindow(r) ==
    /\ place[r] = "charging"
    /\ locked[r] < Len(Limits)
    /\ WindowFree(r)
    /\ locked' = [locked EXCEPT ![r] = @ + 1]
    /\ UNCHANGED <<clock, sent, place, request, now, record, window, code, users, closed, answers>>

\* One more request in a bucket: a window over at the time the request read starts again.
Counted(w, seconds, time) ==
    IF w = Unused \/ time >= w.start + seconds
    THEN [start |-> time, count |-> 1, charges |-> w.charges + 1, admitted |-> 0]
    ELSE [w EXCEPT !.count = @ + 1, !.charges = @ + 1]

After(r, i)  == Counted(window[Window(r, i)], Limits[i].seconds, now[r])
Within(r, i) == After(r, i).count <= Limits[i].limit
Allowed(r)   == \A i \in 1 .. Len(Limits) : Within(r, i)

\* Mutant: the windows behind the first one that denies are not charged.
ChargesUntilDenied(r, w) ==
    IF w = Window(r, w[2]) /\ \A i \in 1 .. w[2] - 1 : Within(r, i)
    THEN [After(r, w[2]) EXCEPT !.admitted = IF Allowed(r) THEN @ + 1 ELSE @]
    ELSE window[w]

\* consume_persistent_limits charges every window of the request, whatever it decides.
Charged(r, w) ==
    IF w = Window(r, w[2])
    THEN [After(r, w[2]) EXCEPT !.admitted = IF Allowed(r) THEN @ + 1 ELSE @]
    ELSE window[w]

\* A registration's code goes to any address; a reset's to the contact of a usable account.
Eligible(call) == call.purpose = "registration" \/ call.contact \in users \ closed

\* The rest of the transaction: windows, challenge with its outbox, record, answer.
Charge(r) ==
    LET call   == request[r]
        status == IF Allowed(r) THEN 202 ELSE 429
    IN  /\ place[r] = "charging"
        /\ locked[r] = Len(Limits)
        /\ window' = [w \in Windows |-> Charged(r, w)]
        /\ record' = [record EXCEPT ![Id(r)] =
               [status |-> status, contact |-> call.contact, device |-> call.device, ip |-> call.ip]]
        /\ code' = [code EXCEPT ![Id(r)] =
               IF Allowed(r) /\ Eligible(call) THEN "pending_delivery" ELSE @]
        /\ Answers(Id(r), status)
        /\ Ends(r)

\* A DatabaseError, or the server stops: rolled back, 503 or no answer.
RequestFails(r) ==
    /\ place[r] # "idle"
    /\ Ends(r)
    /\ UNCHANGED <<record, window, code, answers>>

\* Mutant: the filter on the destination is missing.
RivalsAnywhere(id) == {d \in Ids \ {id} : code[d] = "active" /\ d[1] = id[1]}

Rivals(id) ==
    {d \in Ids \ {id} :
        code[d] = "active" /\ d[1] = id[1] /\ record[d].contact = record[id].contact}

\* _finish_delivery and _terminalize_delivery_failure, as VerificationDelivery shows them,
\* of a registration's code; no process holds the contact's advisory lock.
Mailed(id) ==
    /\ id[1] = "registration"
    /\ code[id] = "pending_delivery"
    /\ \/ code' = [d \in Ids |->
              IF d = id THEN "active" ELSE IF d \in Rivals(id) THEN "superseded" ELSE code[d]]
       \/ code' = [code EXCEPT ![id] = "delivery_failed"]
    /\ UNCHANGED <<clock, requestVars, users, closed>>

Tick ==
    /\ clock < MaxClock
    /\ clock' = clock + 1
    /\ UNCHANGED <<requestVars, code, users, closed>>

\* Outside the program: the user is made inactive, the account's lifecycle ends, or the
\* contact becomes unreachable.
Closes(c) ==
    /\ c \in users \ closed
    /\ closed' = closed \cup {c}
    /\ UNCHANGED <<clock, requestVars, code, users>>

RequestStep(r) ==
    Replay(r) \/ LockKey(r) \/ LockWindow(r) \/ Charge(r) \/ RequestFails(r)

-----------------------------------------------------------------------------
Recorded(w) ==
    {id \in Ids : record[id] # Unsent /\ id[1] = w[1] /\ record[id][Limits[w[2]].scope] = w[3]}

\* verification_limits.py:65: every window of a subject was charged exactly once for each
\* recorded request of the subject, admitted or denied, and never for a replay, a conflict or
\* a request that was rolled back; and no window lets more requests through than its limit,
\* also when requests wait for each other with the time they read.
WindowsMatchRecords ==
    \A w \in Windows :
        /\ window[w].charges = Cardinality(Recorded(w))
        /\ window[w].admitted <= Limits[w[2]].limit

\* verification_requests.py:107: whatever requests of one key run at once, fail or are sent
\* again, the key has one answer, and at most one code, which the answer admitted; the unique
\* constraint on the key is never met.
OneAnswer ==
    /\ \A id \in Ids :
           /\ answers[id] \subseteq {record[id].status}
           /\ code[id] # "none" => record[id].status = 202
           /\ id[1] = "registration" /\ record[id].status = 202 => code[id] # "none"
    /\ \A r \in Requests : place[r] = "charging" => record[Id(r)] = Unsent
=============================================================================
