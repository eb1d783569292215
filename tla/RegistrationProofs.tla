-------------------------- MODULE RegistrationProofs --------------------------
(***************************************************************************)
(* Theorems about CodeRequests and Registration, for any sets of requests,   *)
(* keys, addresses, calls and names and any limits: a key has one answer and *)
(* at most one code, registrations in parallel never meet a unique constraint, *)
(* and what the limits count is what was asked.                              *)
(*                                                                         *)
(* The inductive invariant has two halves.  CodeInv is about the requests: who *)
(* holds the lock of a key finds no record of it.  AccountInv is about the     *)
(* calls: who holds the locks of a name and an address keeps what it checked.   *)
(* Each needs of the other only how codes and records may change.  The limits  *)
(* have invariants of their own, on top of it: WindowInv for the windows in the *)
(* database, CacheInv for the buckets in the cache.                          *)
(***************************************************************************)
EXTENDS Registration, FiniteSetTheorems, TLAPS

CodeStates == {"none", "pending_delivery", "active", "superseded", "expired", "locked",
               "consumed", "delivery_failed"}
Records == [status : Statuses, contact : Contacts, device : Devices, ip : Ips]

-----------------------------------------------------------------------------
(* The requests.                                                             *)

CodesTyped ==
    /\ record \in [Ids -> Records \cup {Unsent}]
    /\ code \in [Ids -> CodeStates]
    /\ answers \in [Ids -> SUBSET Statuses]

RequestsTyped ==
    /\ place \in [Requests -> {"idle", "asking", "charging"}]
    /\ request \in [Requests -> Calls \cup {Idle}]
    /\ \A r \in Requests : place[r] # "idle" => request[r] \in Calls

\* One request at a time holds the advisory lock of a key.
KeysApart ==
    \A r, q \in Requests :
        r # q /\ place[r] = "charging" /\ place[q] = "charging" => Id(r) # Id(q)

CodeInv == CodesTyped /\ RequestsTyped /\ KeysApart /\ OneAnswer

-----------------------------------------------------------------------------
(* The calls.                                                                *)

CallsTyped ==
    /\ step \in [Signups -> Steps]
    /\ signup \in [Signups -> Offers \cup {Idle}]
    /\ \A s \in Signups : step[s] # "idle" => signup[s] \in Offers

\* One call at a time holds the advisory lock of a name, and one that of an address.
LocksApart ==
    \A s, t \in Signups : s # t =>
        /\ step[s] \in {"scoping"} \cup Scoped /\ step[t] \in {"scoping"} \cup Scoped
               => signup[s].name # signup[t].name
        /\ step[s] \in Scoped /\ step[t] \in Scoped => signup[s].contact # signup[t].contact

\* What a call has checked still holds when it inserts.
ChecksHold ==
    \A s \in Signups : step[s] = "inserting" =>
        /\ ~NameTaken(signup[s].name)
        /\ ~ContactTaken(signup[s].contact)
        /\ signup[s].code \in Active(signup[s].contact)

AccountsRight ==
    /\ Distinct(accounts)
    /\ \A a \in accounts : a.code # Wrong =>
           /\ a.code \in Sent(a.contact)
           /\ code[a.code] = "consumed"
           /\ \A b \in accounts : b.code = a.code => b = a

AccountInv == CallsTyped /\ LocksApart /\ ChecksHold /\ AccountsRight

RegistrationInv == CodeInv /\ AccountInv

-----------------------------------------------------------------------------
(* How codes and records may change.                                         *)

\* The code of a request exists from its commit on.
CodesStay == \A id \in Ids : code'[id] = "none" <=> code[id] = "none"

\* A record that is there stays as it is, and a consumed code consumed.
RowsStay ==
    /\ \A id \in Ids : record[id] # Unsent => record'[id] = record[id]
    /\ \A id \in Ids : code[id] = "consumed" => code'[id] = "consumed"

Locking == {"scoping"} \cup Scoped

LEMMA InitRight == Init => RegistrationInv
<1> SUFFICES ASSUME Init PROVE RegistrationInv
    OBVIOUS
<1>1. CodeInv
    BY DEF Init, CodeInit, CodeInv, CodesTyped, RequestsTyped, KeysApart, OneAnswer, CodeStates,
           Unsent, Idle, Ids
<1>2. CallsTyped /\ LocksApart /\ ChecksHold
    BY DEF Init, CallsTyped, LocksApart, ChecksHold, Steps, Scoped, Idle
<1>3. AccountsRight
    BY DEF Init, AccountsRight
<1> QED
    BY <1>1, <1>2, <1>3 DEF RegistrationInv, AccountInv

\* A step that only moves codes along keeps the half about requests.
LEMMA CodesMove ==
    ASSUME CodeInv, code' \in [Ids -> CodeStates], CodesStay,
           UNCHANGED <<place, request, record, answers>>
    PROVE  CodeInv'
<1>1. (CodesTyped /\ RequestsTyped /\ KeysApart)'
    BY DEF CodeInv, CodesTyped, RequestsTyped, KeysApart, Id
<1>2. OneAnswer'
    BY DEF CodeInv, OneAnswer, CodesStay, Id
<1> QED
    BY <1>1, <1>2 DEF CodeInv

\* A step that takes no lock for a call and adds no account keeps the half about calls, if the
\* code of a call that inserts stays active.
LEMMA CallsStay ==
    ASSUME AccountInv, CodesTyped, RowsStay, CallsTyped', accounts' = accounts,
           \A s \in Signups : step'[s] \in Locking => step'[s] = step[s] /\ signup'[s] = signup[s],
           \A s \in Signups : step'[s] = "inserting" => code'[signup[s].code] = "active"
    PROVE  AccountInv'
<1>1. \A c : Sent(c) \subseteq Sent(c)'
    BY DEF Sent, RowsStay
<1>2. LocksApart'
    BY DEF AccountInv, LocksApart, Locking, Scoped
<1>3. ChecksHold'
  <2> SUFFICES ASSUME NEW s \in Signups, step'[s] = "inserting"
               PROVE  /\ ~NameTaken(signup[s].name)'
                      /\ ~ContactTaken(signup[s].contact)'
                      /\ (signup[s].code \in Active(signup[s].contact))'
      BY DEF ChecksHold, NameTaken, ContactTaken, Active, Sent
  <2>1. step[s] = "inserting" /\ signup'[s] = signup[s]
      BY DEF Locking, Scoped
  <2>2. ~NameTaken(signup[s].name)' /\ ~ContactTaken(signup[s].contact)'
      BY <2>1 DEF AccountInv, ChecksHold, NameTaken, ContactTaken
  <2>3. signup[s].code \in Sent(signup[s].contact)
      BY <2>1 DEF AccountInv, ChecksHold, Active
  <2>4. signup[s].code \in Sent(signup[s].contact)'
      BY <1>1, <2>1, <2>3 DEF Sent
  <2> QED
      BY <2>1, <2>2, <2>4 DEF Active, Sent
<1>4. AccountsRight'
  <2>1. \A a \in accounts : a.code # Wrong => a.code \in Ids
      BY DEF AccountInv, AccountsRight, Sent
  <2> QED
      BY <1>1, <2>1 DEF AccountInv, AccountsRight, RowsStay, Distinct, Sent
<1> QED
    BY <1>2, <1>3, <1>4 DEF AccountInv

-----------------------------------------------------------------------------
(* The steps of requests.                                                    *)

\* A request that waits or gives up: only its own place changes.
LEMMA PlaceMoves ==
    ASSUME CodeInv, NEW r \in Requests,
           request' \in [Requests -> Calls \cup {Idle}],
           place' \in [Requests -> {"idle", "asking", "charging"}],
           \A q \in Requests \ {r} : place'[q] = place[q] /\ request'[q] = request[q],
           place'[r] # "charging" \/ (place[r] = "charging" /\ request'[r] = request[r]),
           place'[r] # "idle" => request'[r] \in Calls,
           UNCHANGED <<record, code, answers>>
    PROVE  CodeInv'
<1>1. CodesTyped' /\ RequestsTyped'
    BY DEF CodeInv, CodesTyped, RequestsTyped
<1>2. KeysApart'
    BY DEF CodeInv, KeysApart, Id
<1>3. OneAnswer'
    BY DEF CodeInv, OneAnswer, Id
<1> QED
    BY <1>1, <1>2, <1>3 DEF CodeInv

LEMMA EndsTyped ==
    ASSUME CodeInv, NEW r \in Requests, Ends(r)
    PROVE  /\ place' \in [Requests -> {"idle", "asking", "charging"}]
           /\ request' \in [Requests -> Calls \cup {Idle}]
           /\ place'[r] = "idle"
           /\ \A q \in Requests \ {r} : place'[q] = place[q] /\ request'[q] = request[q]
    BY DEF CodeInv, RequestsTyped, Ends

\* A request finds the answer of its key, and keeps to it.
LEMMA ReplayStep ==
    ASSUME CodeInv, NEW r \in Requests, Replay(r)
    PROVE  CodeInv'
<1>1. Id(r) \in Ids
    BY DEF CodeInv, RequestsTyped, Replay, KeyTurn, Id, Ids, Calls
<1>2. record[Id(r)] \in Records
    BY <1>1 DEF CodeInv, CodesTyped, Replay
<1>3. /\ answers' \in [Ids -> SUBSET Statuses]
      /\ \A id \in Ids : answers'[id] \subseteq {record[id].status}
    BY <1>1, <1>2 DEF CodeInv, CodesTyped, OneAnswer, Replay, Answers, Records
<1>4. CodesTyped' /\ RequestsTyped'
    BY <1>3, EndsTyped DEF CodeInv, CodesTyped, RequestsTyped, Replay
<1>5. KeysApart'
    BY EndsTyped DEF CodeInv, KeysApart, Id, Replay
<1>6. OneAnswer'
    BY <1>3, EndsTyped DEF CodeInv, OneAnswer, Id, Replay
<1> QED
    BY <1>4, <1>5, <1>6 DEF CodeInv

\* The lock of the key is taken where no other request holds it and no record is there.
LEMMA LockKeyStep ==
    ASSUME CodeInv, NEW r \in Requests, LockKey(r)
    PROVE  CodeInv'
<1>1. CodesTyped' /\ RequestsTyped'
    BY DEF CodeInv, CodesTyped, RequestsTyped, LockKey, KeyTurn
<1>2. KeysApart'
    BY DEF CodeInv, KeysApart, RequestsTyped, LockKey, KeyTurn, KeyFree, Id
<1>3. OneAnswer'
    BY DEF CodeInv, OneAnswer, RequestsTyped, LockKey, KeyTurn, Id
<1> QED
    BY <1>1, <1>2, <1>3 DEF CodeInv

\* The commit: record, answer and code of a key that had none.
LEMMA ChargeStep ==
    ASSUME CodeInv, NEW r \in Requests, Charge(r)
    PROVE  CodeInv' /\ \A id \in Ids : record[id] # Unsent => record'[id] = record[id] /\ code'[id] = code[id]
<1> DEFINE status == IF Allowed(r) THEN 202 ELSE 429
           row    == [status |-> status, contact |-> request[r].contact,
                      device |-> request[r].device, ip |-> request[r].ip]
<1>1. request[r] \in Calls /\ Id(r) \in Ids
    BY DEF CodeInv, RequestsTyped, Charge, Id, Ids, Calls
<1>2. record[Id(r)] = Unsent
    BY DEF CodeInv, OneAnswer, Charge
<1>3. /\ record' = [record EXCEPT ![Id(r)] = row]
      /\ answers' = [answers EXCEPT ![Id(r)] = @ \cup {status}]
      /\ code' = [code EXCEPT ![Id(r)] =
             IF Allowed(r) /\ Eligible(request[r]) THEN "pending_delivery" ELSE @]
      /\ Ends(r)
    BY DEF Charge, Answers
<1>4. row \in Records /\ row # Unsent /\ row.status = status /\ status \in Statuses
    BY <1>1 DEF Records, Calls, Statuses, Unsent
<1>5. code[Id(r)] = "none" /\ answers[Id(r)] \subseteq {}
  <2>1. record[Id(r)].status = 0
      BY <1>2 DEF Unsent
  <2>2. code[Id(r)] = "none"
      BY <1>1, <2>1 DEF CodeInv, OneAnswer
  <2>3. answers[Id(r)] \subseteq {0} /\ answers[Id(r)] \subseteq Statuses
      BY <1>1, <2>1 DEF CodeInv, OneAnswer, CodesTyped
  <2> QED
      BY <2>2, <2>3 DEF Statuses
<1>6. Allowed(r) /\ Id(r)[1] = "registration" => Eligible(request[r])
    BY DEF Eligible, Id
<1> HIDE DEF row, status
<1>7. CodesTyped'
    BY <1>1, <1>3, <1>4 DEF CodeInv, CodesTyped, CodeStates
<1>8. RequestsTyped' /\ KeysApart'
    BY <1>3, EndsTyped DEF CodeInv, RequestsTyped, KeysApart, Id
<1>9. OneAnswer'
  <2>1. ASSUME NEW id \in Ids
        PROVE  /\ answers'[id] \subseteq {record'[id].status}
               /\ code'[id] # "none" => record'[id].status = 202
               /\ id[1] = "registration" /\ record'[id].status = 202 => code'[id] # "none"
    <3>1. CASE id = Id(r)
      <4>1. record'[id] = row /\ answers'[id] = {status}
          BY <1>1, <1>3, <1>5, <3>1 DEF CodeInv, CodesTyped
      <4>2. code'[id] = IF Allowed(r) /\ Eligible(request[r]) THEN "pending_delivery" ELSE "none"
          BY <1>1, <1>3, <1>5, <3>1 DEF CodeInv, CodesTyped
      <4> QED
          BY <1>4, <1>6, <3>1, <4>1, <4>2 DEF status
    <3>2. CASE id # Id(r)
        BY <1>1, <1>3, <3>2 DEF CodeInv, CodesTyped, OneAnswer
    <3> QED
        BY <3>1, <3>2
  <2>2. ASSUME NEW q \in Requests, place'[q] = "charging"
        PROVE  record'[Id(q)'] = Unsent
    <3>1. q # r /\ place[q] = "charging" /\ request'[q] = request[q]
        BY <1>3, <2>2, EndsTyped
    <3>2. Id(q)' = Id(q) /\ Id(q) # Id(r)
        BY <3>1 DEF CodeInv, KeysApart, Id, Charge
    <3>3. Id(q) \in Ids /\ record[Id(q)] = Unsent
        BY <3>1 DEF CodeInv, OneAnswer, RequestsTyped, Id, Ids, Calls
    <3> QED
        BY <1>3, <3>2, <3>3 DEF CodeInv, CodesTyped
  <2> QED
      BY <2>1, <2>2 DEF OneAnswer
<1>10. \A id \in Ids : record[id] # Unsent => record'[id] = record[id] /\ code'[id] = code[id]
    BY <1>2, <1>3 DEF CodeInv, CodesTyped
<1> QED
    BY <1>7, <1>8, <1>9, <1>10 DEF CodeInv

-----------------------------------------------------------------------------
(* What the steps of requests and of the delivery do to calls.                *)

\* The code of a call that inserts was mailed to its address.
LEMMA InsertersCode ==
    ASSUME AccountInv, NEW s \in Signups, step[s] = "inserting"
    PROVE  /\ signup[s].code \in Ids
           /\ code[signup[s].code] = "active"
           /\ record[signup[s].code] # Unsent
           /\ record[signup[s].code].contact = signup[s].contact
    BY DEF AccountInv, ChecksHold, Active, Sent

LEMMA CallsUnlocked ==
    ASSUME AccountInv, NEW s \in Signups, Over(s)
    PROVE  /\ CallsTyped'
           /\ \A t \in Signups : step'[t] \in Locking => t # s /\ step'[t] = step[t] /\ signup'[t] = signup[t]
    BY DEF AccountInv, CallsTyped, Over, Steps, Locking, Scoped

\* Codes that are mailed: the delivery worker finds nobody with the address's lock.
LEMMA DeliversStep ==
    ASSUME RegistrationInv, NEW id \in Ids, Delivers(id)
    PROVE  RegistrationInv'
<1>1. \A d \in Ids : code'[d] # code[d] =>
          \/ d = id /\ code[d] = "pending_delivery" /\ code'[d] \in {"active", "delivery_failed"}
          \/ /\ code[d] = "active" /\ code'[d] = "superseded"
             /\ record[d].contact = record[id].contact
    BY DEF Delivers, Mailed, Rivals, RegistrationInv, CodeInv, CodesTyped
<1>2. code' \in [Ids -> CodeStates]
    BY DEF Delivers, Mailed, RegistrationInv, CodeInv, CodesTyped, CodeStates
<1>3. UNCHANGED <<place, request, record, answers, step, signup, accounts>>
    BY DEF Delivers, Mailed, requestVars, signupVars
<1>4. CodeInv'
    BY <1>1, <1>2, <1>3, CodesMove DEF RegistrationInv, CodesStay
<1>5. \A s \in Signups : step[s] = "inserting" => code'[signup[s].code] = "active"
  <2> SUFFICES ASSUME NEW s \in Signups, step[s] = "inserting"
               PROVE  code'[signup[s].code] = "active"
      OBVIOUS
  <2>1. signup[s].contact # record[id].contact
      BY DEF Delivers, Scoped
  <2> QED
      BY <1>1, <2>1, InsertersCode DEF RegistrationInv
<1>6. AccountInv'
  <2>1. RowsStay /\ CallsTyped'
      BY <1>1, <1>3 DEF RowsStay, RegistrationInv, AccountInv, CallsTyped
  <2> QED
      BY <1>3, <1>5, <2>1, CallsStay DEF RegistrationInv, CodeInv
<1> QED
    BY <1>4, <1>6 DEF RegistrationInv

\* Requests, the clock and administration.
LEMMA RequestsStep ==
    ASSUME RegistrationInv, UNCHANGED signupVars, CodeInv',
           \A id \in Ids : record[id] # Unsent => record'[id] = record[id] /\ code'[id] = code[id]
    PROVE  RegistrationInv'
<1>1. \A id \in Ids : code[id] = "consumed" => record[id] # Unsent
  <2>1. \A id \in Ids : code[id] = "consumed" => record[id].status = 202
      BY DEF RegistrationInv, CodeInv, OneAnswer
  <2> QED
      BY <2>1 DEF Unsent
<1>2. RowsStay
    BY <1>1 DEF RowsStay
<1>3. \A s \in Signups : step[s] = "inserting" => code'[signup[s].code] = "active"
    BY InsertersCode DEF RegistrationInv
<1>4. CallsTyped'
    BY DEF RegistrationInv, AccountInv, CallsTyped, signupVars
<1>5. AccountInv'
    BY <1>2, <1>3, <1>4, CallsStay DEF RegistrationInv, CodeInv, signupVars
<1> QED
    BY <1>5 DEF RegistrationInv

-----------------------------------------------------------------------------
(* The steps of calls.                                                       *)

\* The cache, a call that ends without writing, the lock of a name: nothing a transaction reads.
LEMMA CallMoves ==
    ASSUME RegistrationInv, UNCHANGED <<codeVars, accounts>>, CallsTyped',
           \A s \in Signups : step'[s] \in Locking => step'[s] = step[s] /\ signup'[s] = signup[s]
    PROVE  RegistrationInv'
<1>1. CodeInv'
    BY CodesMove DEF RegistrationInv, CodeInv, CodesTyped, CodesStay, codeVars, requestVars
<1>2. \A s \in Signups : step'[s] = "inserting" => code'[signup[s].code] = "active"
  <2>1. \A s \in Signups : step'[s] = "inserting" => step[s] = "inserting"
      BY DEF Locking, Scoped
  <2> QED
      BY <2>1, InsertersCode DEF RegistrationInv, codeVars
<1>3. AccountInv'
    BY <1>2, CallsStay DEF RegistrationInv, CodeInv, RowsStay, codeVars, requestVars
<1> QED
    BY <1>1, <1>3 DEF RegistrationInv

LEMMA CacheStep ==
    ASSUME RegistrationInv,
           \/ \E s \in Signups : Add(s) \/ Increment(s) \/ Taken(s) \/ SignupFails(s)
           \/ \E s \in Signups, offer \in Offers : Signup(s, offer)
           \/ \E b \in Buckets : BucketExpires(b)
    PROVE  RegistrationInv'
<1>1. ASSUME NEW s \in Signups, Taken(s) \/ SignupFails(s)
      PROVE  RegistrationInv'
    BY <1>1, CallsUnlocked, CallMoves DEF RegistrationInv, Taken, SignupFails
<1>2. ASSUME NEW s \in Signups, Add(s) \/ Increment(s)
      PROVE  RegistrationInv'
  <2>1. /\ UNCHANGED <<codeVars, accounts>>
        /\ step[s] \in {"adding", "incrementing"}
        /\ \/ Over(s)
           \/ \E to \in {"adding", "incrementing", "naming"} : Goes(s, to)
      BY <1>2 DEF Add, Increment, Consumed
  <2>2. CASE Over(s)
      BY <2>1, <2>2, CallsUnlocked, CallMoves DEF RegistrationInv
  <2>3. ASSUME NEW to \in {"adding", "incrementing", "naming"}, Goes(s, to)
        PROVE  RegistrationInv'
    <3>1. CallsTyped'
        BY <2>1, <2>3 DEF RegistrationInv, AccountInv, CallsTyped, Goes, Steps
    <3>2. \A t \in Signups : step'[t] \in Locking => step'[t] = step[t] /\ signup'[t] = signup[t]
        BY <2>3 DEF RegistrationInv, AccountInv, CallsTyped, Goes, Locking, Scoped
    <3> QED
        BY <2>1, <3>1, <3>2, CallMoves
  <2> QED
      BY <2>1, <2>2, <2>3
<1>3. ASSUME NEW s \in Signups, NEW offer \in Offers, Signup(s, offer)
      PROVE  RegistrationInv'
  <2>1. CallsTyped'
      BY <1>3 DEF RegistrationInv, AccountInv, CallsTyped, Signup, Steps
  <2>2. \A t \in Signups : step'[t] \in Locking => step'[t] = step[t] /\ signup'[t] = signup[t]
      BY <1>3 DEF RegistrationInv, AccountInv, CallsTyped, Signup, Locking, Scoped
  <2> QED
      BY <1>3, <2>1, <2>2, CallMoves DEF Signup
<1>4. ASSUME NEW b \in Buckets, BucketExpires(b)
      PROVE  RegistrationInv'
    BY <1>4, CallMoves DEF BucketExpires, RegistrationInv, AccountInv, CallsTyped
<1> QED
    BY <1>1, <1>2, <1>3, <1>4

\* The two locks and the checks: the code and the tables stay as they are.
LEMMA LockStep ==
    ASSUME RegistrationInv, NEW s \in Signups, LockName(s) \/ LockScope(s) \/ Accept(s)
    PROVE  RegistrationInv'
<1>1. UNCHANGED <<codeVars, accounts, signup>>
    BY DEF LockName, LockScope, Accept, Goes
<1>2. \A t \in Signups \ {s} : step'[t] = step[t]
    BY DEF LockName, LockScope, Accept, Goes, RegistrationInv, AccountInv, CallsTyped
<1>3. CallsTyped'
    BY DEF LockName, LockScope, Accept, RightCode, Goes, RegistrationInv, AccountInv, CallsTyped, Steps
<1>4. CodeInv'
    BY <1>1, CodesMove DEF RegistrationInv, CodeInv, CodesTyped, CodesStay, codeVars, requestVars
<1>5. AccountsRight'
    BY <1>1 DEF RegistrationInv, AccountInv, AccountsRight, Distinct, Sent, codeVars, requestVars
<1>6. CASE LockName(s)
  <2>1. step'[s] = "scoping" /\ NameFree(s)
      BY <1>6 DEF LockName, Goes, RegistrationInv, AccountInv, CallsTyped
  <2>2. LocksApart'
      BY <1>1, <1>2, <2>1 DEF RegistrationInv, AccountInv, LocksApart, NameFree, Scoped
  <2>3. ChecksHold'
      BY <1>1, <1>2, <2>1 DEF RegistrationInv, AccountInv, ChecksHold, NameTaken, ContactTaken,
                              Active, Sent, codeVars, requestVars
  <2> QED
      BY <1>3, <1>4, <1>5, <2>2, <2>3 DEF RegistrationInv, AccountInv
<1>7. CASE LockScope(s)
  <2>1. step[s] = "scoping" /\ step'[s] = "deciding" /\ ScopeFree(s)
      BY <1>7 DEF LockScope, Goes, RegistrationInv, AccountInv, CallsTyped
  <2>2. LocksApart'
      BY <1>1, <1>2, <2>1 DEF RegistrationInv, AccountInv, LocksApart, ScopeFree, Scoped
  <2>3. ChecksHold'
      BY <1>1, <1>2, <2>1 DEF RegistrationInv, AccountInv, ChecksHold, NameTaken, ContactTaken,
                              Active, Sent, codeVars, requestVars
  <2> QED
      BY <1>3, <1>4, <1>5, <2>2, <2>3 DEF RegistrationInv, AccountInv
<1>8. CASE Accept(s)
  <2>1. /\ step[s] = "deciding" /\ step'[s] = "inserting"
        /\ ~NameTaken(signup[s].name) /\ ~ContactTaken(signup[s].contact)
        /\ signup[s].code \in Active(signup[s].contact)
      BY <1>8 DEF Accept, RightCode, Goes, RegistrationInv, AccountInv, CallsTyped
  <2>2. LocksApart'
      BY <1>1, <1>2, <2>1 DEF RegistrationInv, AccountInv, LocksApart, Scoped
  <2>3. ChecksHold'
      BY <1>1, <1>2, <2>1 DEF RegistrationInv, AccountInv, ChecksHold, NameTaken, ContactTaken,
                              Active, Sent, codeVars, requestVars
  <2> QED
      BY <1>3, <1>4, <1>5, <2>2, <2>3 DEF RegistrationInv, AccountInv
<1> QED
    BY <1>6, <1>7, <1>8

\* An attempt with another code, or one too late: one active code of the caller's address may
\* go, and nobody else inserts for that address.
LEMMA WrongCodeStep ==
    ASSUME RegistrationInv, NEW s \in Signups, WrongCode(s)
    PROVE  RegistrationInv'
<1>1. /\ UNCHANGED <<place, request, record, answers, accounts>>
      /\ Over(s)
      /\ step[s] = "deciding"
    BY DEF WrongCode, requestVars
<1>2. \/ code' = code
      \/ \E id \in Active(signup[s].contact), to \in {"active", "locked", "expired"} :
             code' = [code EXCEPT ![id] = to]
    BY DEF WrongCode
<1>3. \A id \in Ids : code'[id] # code[id] =>
          /\ code[id] = "active"
          /\ code'[id] \in {"active", "locked", "expired"}
          /\ record[id].contact = signup[s].contact
    BY <1>2 DEF RegistrationInv, CodeInv, CodesTyped, Active, Sent
<1>4. code' \in [Ids -> CodeStates]
    BY <1>2 DEF RegistrationInv, CodeInv, CodesTyped, CodeStates
<1>5. CodeInv'
    BY <1>1, <1>3, <1>4, CodesMove DEF RegistrationInv, CodesStay
<1>6. /\ CallsTyped'
      /\ \A t \in Signups : step'[t] \in Locking => t # s /\ step'[t] = step[t] /\ signup'[t] = signup[t]
    BY <1>1, CallsUnlocked DEF RegistrationInv
<1>7. \A t \in Signups : step'[t] = "inserting" => code'[signup[t].code] = "active"
  <2> SUFFICES ASSUME NEW t \in Signups, step'[t] = "inserting"
               PROVE  code'[signup[t].code] = "active"
      OBVIOUS
  <2>1. t # s /\ step[t] = "inserting"
      BY <1>6 DEF Locking, Scoped
  <2>2. signup[t].contact # signup[s].contact
      BY <1>1, <2>1 DEF RegistrationInv, AccountInv, LocksApart, Scoped
  <2> QED
      BY <1>3, <2>1, <2>2, InsertersCode DEF RegistrationInv
<1>8. RowsStay
    BY <1>1, <1>3 DEF RowsStay
<1>9. AccountInv'
    BY <1>1, <1>6, <1>7, <1>8, CallsStay DEF RegistrationInv, CodeInv
<1> QED
    BY <1>5, <1>9 DEF RegistrationInv

\* The commit of a registration: the others that insert have other names, addresses and codes.
LEMMA InsertStep ==
    ASSUME RegistrationInv, NEW s \in Signups, Insert(s)
    PROVE  RegistrationInv'
<1> DEFINE mine == signup[s].code
           row  == [name |-> signup[s].name, contact |-> signup[s].contact, code |-> mine]
<1>1. /\ step[s] = "inserting"
      /\ mine \in Ids
      /\ code[mine] = "active"
      /\ mine \in Sent(signup[s].contact)
      /\ ~NameTaken(signup[s].name)
      /\ ~ContactTaken(signup[s].contact)
    BY DEF Insert, RegistrationInv, AccountInv, ChecksHold, Active, Sent
<1>2. /\ accounts' = accounts \cup {row}
      /\ code' = [code EXCEPT ![mine] = "consumed"]
      /\ Over(s)
      /\ UNCHANGED <<place, request, record, answers>>
    BY DEF Insert, requestVars
<1>3. /\ row.name = signup[s].name
      /\ row.contact = signup[s].contact
      /\ row.code = mine
    OBVIOUS
<1> HIDE DEF mine, row
<1>4. code' \in [Ids -> CodeStates] /\ code'[mine] = "consumed"
    BY <1>1, <1>2 DEF RegistrationInv, CodeInv, CodesTyped, CodeStates
<1>5. \A id \in Ids : id # mine => code'[id] = code[id]
    BY <1>2 DEF RegistrationInv, CodeInv, CodesTyped
<1>6. CodeInv'
    BY <1>1, <1>2, <1>4, <1>5, CodesMove DEF RegistrationInv, CodesStay
<1>7. /\ CallsTyped'
      /\ \A t \in Signups : step'[t] \in Locking => t # s /\ step'[t] = step[t] /\ signup'[t] = signup[t]
    BY <1>2, CallsUnlocked DEF RegistrationInv
<1>8. LocksApart'
    BY <1>7 DEF RegistrationInv, AccountInv, LocksApart, Locking, Scoped
<1>9. \A c : Sent(c)' = Sent(c)
    BY <1>2 DEF Sent
<1>10. ChecksHold'
  <2> SUFFICES ASSUME NEW t \in Signups, step'[t] = "inserting"
               PROVE  /\ ~NameTaken(signup[t].name)'
                      /\ ~ContactTaken(signup[t].contact)'
                      /\ (signup[t].code \in Active(signup[t].contact))'
      BY DEF ChecksHold, NameTaken, ContactTaken, Active, Sent
  <2>1. t # s /\ step[t] = "inserting" /\ signup'[t] = signup[t]
      BY <1>7 DEF Locking, Scoped
  <2>2. signup[t].name # signup[s].name /\ signup[t].contact # signup[s].contact
      BY <1>1, <2>1 DEF RegistrationInv, AccountInv, LocksApart, Scoped
  <2>3. ~NameTaken(signup[t].name)' /\ ~ContactTaken(signup[t].contact)'
      BY <1>2, <1>3, <2>1, <2>2 DEF RegistrationInv, AccountInv, ChecksHold, NameTaken, ContactTaken
  <2>4. signup[t].code \in Ids /\ signup[t].code # mine /\ code[signup[t].code] = "active"
      BY <1>1, <2>1, <2>2, InsertersCode DEF RegistrationInv, Sent
  <2>5. signup[t].code \in Sent(signup[t].contact)
      BY <2>1 DEF RegistrationInv, AccountInv, ChecksHold, Active
  <2> QED
      BY <1>2, <1>5, <2>1, <2>3, <2>4, <2>5 DEF Active, Sent
<1>11. AccountsRight'
  <2>1. Distinct(accounts)'
      BY <1>1, <1>2, <1>3 DEF RegistrationInv, AccountInv, AccountsRight, Distinct, NameTaken, ContactTaken
  <2>2. \A a \in accounts : a.code # mine \/ mine = Wrong
      BY <1>1 DEF RegistrationInv, AccountInv, AccountsRight
  <2>3. ASSUME NEW a \in accounts', a.code # Wrong
        PROVE  /\ a.code \in Sent(a.contact)
               /\ code'[a.code] = "consumed"
               /\ \A b \in accounts' : b.code = a.code => b = a
    <3>1. CASE a \in accounts
      <4>1. /\ a.code \in Sent(a.contact)
            /\ code[a.code] = "consumed"
            /\ \A b \in accounts : b.code = a.code => b = a
          BY <2>3, <3>1 DEF RegistrationInv, AccountInv, AccountsRight
      <4>2. a.code \in Ids /\ a.code # mine
          BY <1>1, <4>1 DEF Sent
      <4> QED
          BY <1>2, <1>3, <1>5, <4>1, <4>2
    <3>2. CASE a = row
        BY <1>1, <1>2, <1>3, <1>4, <2>2, <2>3, <3>2
    <3> QED
        BY <1>2, <2>3, <3>1, <3>2
  <2> QED
      BY <1>9, <2>1, <2>3 DEF AccountsRight, Sent
<1> QED
    BY <1>6, <1>7, <1>8, <1>10, <1>11 DEF RegistrationInv, AccountInv

-----------------------------------------------------------------------------
(* All steps.                                                                *)

LEMMA CodeSteps ==
    ASSUME RegistrationInv, UNCHANGED signupVars,
           \/ \E r \in Requests, call \in Calls : Ask(r, call)
           \/ \E r \in Requests : RequestStep(r)
           \/ Tick
           \/ \E c \in Contacts : Closes(c)
    PROVE  RegistrationInv'
<1>1. ASSUME NEW r \in Requests, NEW call \in Calls, Ask(r, call)
      PROVE  RegistrationInv'
  <2>1. CodeInv'
      BY <1>1, PlaceMoves DEF Ask, RegistrationInv, CodeInv, RequestsTyped
  <2> QED
      BY <1>1, <2>1, RequestsStep DEF Ask
<1>2. ASSUME NEW r \in Requests, RequestStep(r)
      PROVE  RegistrationInv'
  <2>1. CASE Replay(r)
    <3>1. CodeInv'
        BY <2>1, ReplayStep DEF RegistrationInv
    <3> QED
        BY <2>1, <3>1, RequestsStep DEF Replay
  <2>2. CASE LockKey(r)
    <3>1. CodeInv'
        BY <2>2, LockKeyStep DEF RegistrationInv
    <3> QED
        BY <2>2, <3>1, RequestsStep DEF LockKey
  <2>3. CASE LockWindow(r)
    <3>1. CodeInv'
        BY <2>3, PlaceMoves DEF LockWindow, RegistrationInv, CodeInv, RequestsTyped
    <3> QED
        BY <2>3, <3>1, RequestsStep DEF LockWindow
  <2>4. CASE Charge(r)
    <3>1. CodeInv' /\ \A id \in Ids : record[id] # Unsent => record'[id] = record[id] /\ code'[id] = code[id]
        BY <2>4, ChargeStep DEF RegistrationInv
    <3> QED
        BY <3>1, RequestsStep
  <2>5. CASE RequestFails(r)
    <3>1. CodeInv'
        BY <2>5, PlaceMoves, EndsTyped DEF RequestFails, RegistrationInv
    <3> QED
        BY <2>5, <3>1, RequestsStep DEF RequestFails
  <2> QED
      BY <1>2, <2>1, <2>2, <2>3, <2>4, <2>5 DEF RequestStep
<1>3. ASSUME Tick \/ \E c \in Contacts : Closes(c)
      PROVE  RegistrationInv'
  <2>1. UNCHANGED <<requestVars, code>>
      BY <1>3 DEF Tick, Closes
  <2>2. CodeInv'
      BY <2>1, CodesMove DEF RegistrationInv, CodeInv, CodesTyped, CodesStay, requestVars
  <2> QED
      BY <2>1, <2>2, RequestsStep DEF requestVars
<1> QED
    BY <1>1, <1>2, <1>3

LEMMA NextRight == RegistrationInv /\ [Next]_vars => RegistrationInv'
<1> SUFFICES ASSUME RegistrationInv, [Next]_vars
             PROVE  RegistrationInv'
    OBVIOUS
<1>1. CASE \/ \E r \in Requests, call \in Calls : Ask(r, call) /\ UNCHANGED signupVars
           \/ \E r \in Requests : RequestStep(r) /\ UNCHANGED signupVars
           \/ (Tick \/ \E c \in Contacts : Closes(c)) /\ UNCHANGED signupVars
    BY <1>1, CodeSteps
<1>2. CASE \E id \in Ids : Delivers(id)
    BY <1>2, DeliversStep
<1>3. CASE \/ \E s \in Signups, offer \in Offers : Signup(s, offer)
           \/ \E b \in Buckets : BucketExpires(b)
    BY <1>3, CacheStep
<1>4. ASSUME NEW s \in Signups, SignupStep(s)
      PROVE  RegistrationInv'
    BY <1>4, CacheStep, LockStep, WrongCodeStep, InsertStep DEF SignupStep
<1>5. CASE UNCHANGED vars
    BY <1>5, CallMoves DEF vars, signupVars, RegistrationInv, AccountInv, CallsTyped
<1> QED
    BY <1>1, <1>2, <1>3, <1>4, <1>5 DEF Next

\* The invariant of the proof: requests and calls as the two halves say, in every reachable
\* state of verification_requests.py and of register (services.py).
THEOREM RegistrationInvariant == Spec => []RegistrationInv
    BY InitRight, NextRight, PTL DEF Spec

\* However many requests of one Idempotency-Key run at once, fail or are sent again, the key
\* has one answer and at most one code (verification_requests.py:107).
THEOREM OneAnswerHolds == Spec => []OneAnswer
<1>1. RegistrationInv => OneAnswer
    BY DEF RegistrationInv, CodeInv
<1> QED
    BY <1>1, RegistrationInvariant, PTL

\* However many calls of register run at once, for one name, address and code or several, no
\* unique constraint is met and every account was made from a code of its own
\* (services.py:142).
THEOREM RegistersOnceHolds == Spec => []RegistersOnce
<1>1. RegistrationInv => RegistersOnce
  <2> SUFFICES ASSUME RegistrationInv PROVE RegistersOnce
      OBVIOUS
  <2>1. \A s \in Signups : step[s] = "inserting" =>
            /\ ~NameTaken(signup[s].name) /\ ~ContactTaken(signup[s].contact)
            /\ code[signup[s].code] = "active"
            /\ \A t \in Signups \ {s} : step[t] = "inserting" =>
                   /\ signup[t].name # signup[s].name
                   /\ signup[t].contact # signup[s].contact
      BY DEF RegistrationInv, AccountInv, ChecksHold, LocksApart, Active, Scoped
  <2> QED
      BY <2>1 DEF RegistersOnce, RegistrationInv, AccountInv, AccountsRight
<1> QED
    BY <1>1, RegistrationInvariant, PTL

-----------------------------------------------------------------------------
(* The windows of the persistent limits.                                     *)

WindowRows == [start : Nat, count : Nat, charges : Nat, admitted : Nat]

WindowsTyped ==
    /\ clock \in 0 .. MaxClock
    /\ now \in [Requests -> 0 .. MaxClock]
    /\ locked \in [Requests -> 0 .. Len(Limits)]
    /\ window \in [Windows -> WindowRows]

\* Window w was charged once for each request recorded in it, and the requests it let through
\* are among those it counts and within its limit.
Exact(w) ==
    /\ IsFiniteSet(Recorded(w))
    /\ window[w].charges = Cardinality(Recorded(w))
    /\ window[w].admitted <= window[w].count
    /\ window[w].admitted <= Limits[w[2]].limit

WindowInv == WindowsTyped /\ \A w \in Windows : Exact(w)

\* What the constants are.
LEMMA LimitShape ==
    /\ Len(Limits) \in Nat
    /\ \A i \in 1 .. Len(Limits) :
           /\ Limits[i].scope \in {"contact", "device", "ip"}
           /\ Limits[i].seconds \in Nat
           /\ Limits[i].limit \in Nat
           /\ Limits[i].limit > 0
<1> DEFINE Limit == [scope : {"contact", "device", "ip"}, seconds : Nat \ {0}, limit : Nat \ {0}]
<1>1. Limits \in Seq(Limit)
    BY LimitsAssumption
<1>2. Len(Limits) \in Nat /\ \A i \in 1 .. Len(Limits) : Limits[i] \in Limit
  <2> HIDE DEF Limit
  <2> QED
      BY <1>1
<1>3. ASSUME NEW limit \in Limit
      PROVE  /\ limit.scope \in {"contact", "device", "ip"}
             /\ limit.seconds \in Nat
             /\ limit.limit \in Nat
             /\ limit.limit > 0
    OBVIOUS
<1> HIDE DEF Limit
<1> QED
    BY <1>2, <1>3

\* A window is of a purpose, a limit and a subject of the limit's scope.
LEMMA WindowShape ==
    ASSUME NEW w \in Windows
    PROVE  /\ w = <<w[1], w[2], w[3]>>
           /\ w[1] \in Purposes
           /\ w[2] \in 1 .. Len(Limits)
    BY DEF Windows

\* A window a request is in is one of the buckets.
LEMMA WindowOfRequest ==
    ASSUME RequestsTyped, NEW r \in Requests, place[r] # "idle", NEW i \in 1 .. Len(Limits)
    PROVE  Window(r, i) \in Windows
<1>1. request[r] \in Calls
    BY DEF RequestsTyped
<1>2. request[r][Limits[i].scope] \in Subjects[Limits[i].scope]
    BY <1>1, LimitShape DEF Calls, Subjects
<1>3. Window(r, i) \in Purposes \X {i} \X Subjects[Limits[i].scope]
    BY <1>1, <1>2 DEF Calls, Window
<1> QED
    BY <1>3 DEF Windows

\* The bucket after one more request in it.
LEMMA CountedRow ==
    ASSUME NEW b \in WindowRows, NEW seconds \in Nat, NEW time \in Nat, b.admitted <= b.count
    PROVE  /\ Counted(b, seconds, time) \in WindowRows
           /\ Counted(b, seconds, time).charges = b.charges + 1
           /\ Counted(b, seconds, time).admitted + 1 <= Counted(b, seconds, time).count
           /\ Counted(b, seconds, time).admitted <= b.admitted
<1>1. CASE b = Unused \/ time >= b.start + seconds
  <2>1. Counted(b, seconds, time) = [start |-> time, count |-> 1, charges |-> b.charges + 1, admitted |-> 0]
      BY <1>1 DEF Counted
  <2>2. b.charges \in Nat /\ b.admitted \in Nat
      BY DEF WindowRows
  <2> QED
      BY <2>1, <2>2 DEF WindowRows
<1>2. CASE ~(b = Unused \/ time >= b.start + seconds)
  <2>1. Counted(b, seconds, time) = [b EXCEPT !.count = b.count + 1, !.charges = b.charges + 1]
      BY <1>2 DEF Counted
  <2>2. b.start \in Nat /\ b.count \in Nat /\ b.charges \in Nat /\ b.admitted \in Nat
      BY DEF WindowRows
  <2>3. Counted(b, seconds, time) =
            [start |-> b.start, count |-> b.count + 1, charges |-> b.charges + 1, admitted |-> b.admitted]
      BY <2>1 DEF WindowRows
  <2>4. b.count + 1 \in Nat /\ b.charges + 1 \in Nat /\ b.admitted + 1 <= b.count + 1
      BY <2>2
  <2> QED
      BY <2>2, <2>3, <2>4 DEF WindowRows
<1> QED
    BY <1>1, <1>2

\* A window the request is not in has the records it had.
LEMMA RecordedElsewhere ==
    ASSUME CodeInv, NEW r \in Requests, Charge(r), NEW w \in Windows, w # Window(r, w[2])
    PROVE  Recorded(w)' = Recorded(w)
<1>1. request[r] \in Calls /\ Id(r) \in Ids /\ record[Id(r)] = Unsent
    BY DEF CodeInv, RequestsTyped, OneAnswer, Charge, Id, Ids, Calls
<1>2. \A id \in Ids : id # Id(r) => record'[id] = record[id]
    BY <1>1 DEF Charge, CodeInv, CodesTyped
<1>3. /\ record'[Id(r)].contact = request[r].contact
      /\ record'[Id(r)].device = request[r].device
      /\ record'[Id(r)].ip = request[r].ip
    BY <1>1 DEF Charge, CodeInv, CodesTyped
<1>4. record'[Id(r)][Limits[w[2]].scope] = request[r][Limits[w[2]].scope]
    BY <1>3, LimitShape, WindowShape
<1>5. ~(Id(r)[1] = w[1] /\ record'[Id(r)][Limits[w[2]].scope] = w[3])
    BY <1>4, WindowShape DEF Window, Id
<1> QED
    BY <1>1, <1>2, <1>5 DEF Recorded

\* A window the request is in has one record more.
LEMMA RecordedThere ==
    ASSUME CodeInv, NEW r \in Requests, Charge(r), NEW w \in Windows, w = Window(r, w[2])
    PROVE  Recorded(w)' = Recorded(w) \cup {Id(r)} /\ Id(r) \notin Recorded(w)
<1>1. request[r] \in Calls /\ Id(r) \in Ids /\ record[Id(r)] = Unsent
    BY DEF CodeInv, RequestsTyped, OneAnswer, Charge, Id, Ids, Calls
<1>2. \A id \in Ids : id # Id(r) => record'[id] = record[id]
    BY <1>1 DEF Charge, CodeInv, CodesTyped
<1>3. /\ record'[Id(r)].contact = request[r].contact
      /\ record'[Id(r)].device = request[r].device
      /\ record'[Id(r)].ip = request[r].ip
      /\ record'[Id(r)].status \in {202, 429}
    BY <1>1 DEF Charge, CodeInv, CodesTyped
<1>4. record'[Id(r)][Limits[w[2]].scope] = request[r][Limits[w[2]].scope]
    BY <1>3, LimitShape, WindowShape
<1>5. Id(r)[1] = w[1] /\ record'[Id(r)][Limits[w[2]].scope] = w[3]
    BY <1>4, WindowShape DEF Window, Id
<1>6. record'[Id(r)] # Unsent
    BY <1>3 DEF Unsent
<1> QED
    BY <1>1, <1>2, <1>5, <1>6 DEF Recorded

\* The commit charges every window the request is in, and lets it through where all do.
LEMMA ChargeExact ==
    ASSUME CodeInv, WindowInv, NEW r \in Requests, Charge(r), NEW w \in Windows
    PROVE  window'[w] \in WindowRows /\ Exact(w)'
<1>1. window'[w] = Charged(r, w)
    BY DEF Charge
<1>2. window[w] \in WindowRows /\ Exact(w)
    BY DEF WindowInv, WindowsTyped
<1>3. CASE w # Window(r, w[2])
  <2>1. window'[w] = window[w]
      BY <1>1, <1>3 DEF Charged
  <2> QED
      BY <1>2, <1>3, <2>1, RecordedElsewhere DEF Exact
<1>4. CASE w = Window(r, w[2])
  <2> DEFINE after == After(r, w[2])
             new   == IF Allowed(r) THEN after.admitted + 1 ELSE after.admitted
  <2>1. w[2] \in 1 .. Len(Limits) /\ Limits[w[2]].seconds \in Nat /\ Limits[w[2]].limit \in Nat
      BY LimitShape, WindowShape
  <2>2. now[r] \in Nat
      BY BoundsAssumption DEF WindowInv, WindowsTyped
  <2>3. /\ after = Counted(window[w], Limits[w[2]].seconds, now[r])
        /\ window[w].admitted <= window[w].count
      BY <1>2, <1>4 DEF After, Exact
  <2>4. Allowed(r) => after.count <= Limits[w[2]].limit
      BY <2>1 DEF Allowed, Within
  <2>5. window'[w] = [after EXCEPT !.admitted = new]
      BY <1>1, <1>4 DEF Charged
  <2> HIDE DEF after
  <2>6. /\ after \in WindowRows
        /\ after.charges = window[w].charges + 1
        /\ after.admitted + 1 <= after.count
        /\ after.admitted <= window[w].admitted
      BY <1>2, <2>1, <2>2, <2>3, CountedRow
  <2>7. after.admitted \in Nat /\ after.count \in Nat /\ window[w].admitted \in Nat
      BY <1>2, <2>6 DEF WindowRows
  <2>8. new \in Nat /\ new <= after.count /\ new <= Limits[w[2]].limit
      BY <1>2, <2>1, <2>4, <2>6, <2>7 DEF Exact
  <2> HIDE DEF new
  <2>9. /\ window'[w] \in WindowRows
        /\ window'[w].charges = window[w].charges + 1
        /\ window'[w].admitted = new
        /\ window'[w].count = after.count
      BY <2>5, <2>6, <2>8 DEF WindowRows
  <2>10. /\ Recorded(w)' = Recorded(w) \cup {Id(r)}
        /\ Id(r) \notin Recorded(w)
      BY <1>4, RecordedThere
  <2>11. /\ IsFiniteSet(Recorded(w)')
         /\ Cardinality(Recorded(w)') = Cardinality(Recorded(w)) + 1
      BY <1>2, <2>10, FS_AddElement DEF Exact
  <2> QED
      BY <1>2, <2>8, <2>9, <2>11 DEF Exact
<1> QED
    BY <1>3, <1>4

LEMMA WindowInit == Init => WindowInv
<1> SUFFICES ASSUME Init PROVE WindowInv
    OBVIOUS
<1>1. WindowsTyped
    BY LimitShape, BoundsAssumption DEF Init, CodeInit, WindowsTyped, Unused, WindowRows
<1>2. ASSUME NEW w \in Windows PROVE Exact(w)
  <2>1. Recorded(w) = {}
      BY DEF Init, CodeInit, Recorded
  <2>2. Limits[w[2]].limit \in Nat
      BY LimitShape, WindowShape
  <2> QED
      BY <2>1, <2>2, FS_EmptySet DEF Init, CodeInit, Unused, Exact
<1> QED
    BY <1>1, <1>2 DEF WindowInv

\* Whatever leaves records and windows alone.
LEMMA WindowsStay ==
    ASSUME WindowInv, UNCHANGED <<record, window>>,
           clock' \in 0 .. MaxClock, now' \in [Requests -> 0 .. MaxClock],
           locked' \in [Requests -> 0 .. Len(Limits)]
    PROVE  WindowInv'
    BY DEF WindowInv, WindowsTyped, Exact, Recorded

LEMMA EndsClock ==
    ASSUME WindowInv, NEW r \in Requests, Ends(r)
    PROVE  /\ clock' \in 0 .. MaxClock
           /\ now' \in [Requests -> 0 .. MaxClock]
           /\ locked' \in [Requests -> 0 .. Len(Limits)]
    BY LimitShape, BoundsAssumption DEF WindowInv, WindowsTyped, Ends

LEMMA WindowNext == RegistrationInv /\ WindowInv /\ [Next]_vars => WindowInv'
<1> SUFFICES ASSUME RegistrationInv, WindowInv, [Next]_vars PROVE WindowInv'
    OBVIOUS
<1>1. CASE UNCHANGED <<clock, requestVars>>
    BY <1>1, WindowsStay DEF requestVars, WindowInv, WindowsTyped
<1>2. ASSUME NEW r \in Requests, NEW call \in Calls, Ask(r, call)
      PROVE  WindowInv'
    BY <1>2, WindowsStay DEF Ask, WindowInv, WindowsTyped
<1>3. ASSUME NEW r \in Requests, RequestStep(r)
      PROVE  WindowInv'
  <2>1. CASE Replay(r) \/ RequestFails(r)
      BY <2>1, EndsClock, WindowsStay DEF Replay, RequestFails
  <2>2. CASE LockKey(r)
      BY <2>2, WindowsStay DEF LockKey, WindowInv, WindowsTyped
  <2>3. CASE LockWindow(r)
    <3>1. locked' \in [Requests -> 0 .. Len(Limits)]
        BY <2>3, LimitShape DEF LockWindow, WindowInv, WindowsTyped
    <3> QED
        BY <2>3, <3>1, WindowsStay DEF LockWindow, WindowInv, WindowsTyped
  <2>4. CASE Charge(r)
    <3>1. \A w \in Windows : window'[w] \in WindowRows /\ Exact(w)'
        BY <2>4, ChargeExact DEF RegistrationInv
    <3>2. window' = [w \in Windows |-> window'[w]]
        BY <2>4 DEF Charge
    <3>3. WindowsTyped'
        BY <2>4, <3>1, <3>2, EndsClock DEF Charge, WindowsTyped
    <3> QED
        BY <3>1, <3>3 DEF WindowInv
  <2> QED
      BY <1>3, <2>1, <2>2, <2>3, <2>4 DEF RequestStep
<1>4. CASE Tick
    BY <1>4, WindowsStay, BoundsAssumption DEF Tick, requestVars, WindowInv, WindowsTyped
<1>5. CASE \E c \in Contacts : Closes(c)
    BY <1>1, <1>5 DEF Closes
<1>6. CASE \E id \in Ids : Delivers(id)
    BY <1>1, <1>6 DEF Delivers, Mailed
<1>7. CASE \/ \E s \in Signups, offer \in Offers : Signup(s, offer)
           \/ \E b \in Buckets : BucketExpires(b)
    BY <1>1, <1>7 DEF Signup, BucketExpires, codeVars
<1>8. ASSUME NEW s \in Signups, SignupStep(s)
      PROVE  UNCHANGED <<clock, requestVars>>
    BY <1>8 DEF SignupStep, Add, Increment, LockName, LockScope, WrongCode, Taken, Accept, Insert,
                SignupFails, codeVars
<1>9. CASE UNCHANGED vars
    BY <1>1, <1>9 DEF vars, codeVars
<1> QED
    BY <1>1, <1>2, <1>3, <1>4, <1>5, <1>6, <1>7, <1>8, <1>9 DEF Next

-----------------------------------------------------------------------------
(* The cached limits of registrations.                                       *)

\* The calls that have yet to count in a bucket.
Pending(b) ==
    {s \in Signups :
        /\ step[s] \in {"adding", "incrementing"}
        /\ \/ b = <<"ip", signup[s].ip>>
           \/ use[s].scope = "account" /\ b = <<"account", signup[s].name>>}

Uses == [scope : Scopes, again : BOOLEAN, fine : BOOLEAN]

CacheTyped ==
    /\ tried \in 0 .. MaxSignups
    /\ use \in [Signups -> Uses]
    /\ cache \in [Buckets -> Nat]
    /\ passed \in [Buckets -> Nat]

\* The uses of bucket b that met no limit are among those it counts and within its limit; each
\* use was a call of its own, which has none left.
Counts(b) ==
    /\ passed[b] <= cache[b]
    /\ passed[b] <= CacheLimit[b[1]]
    /\ IsFiniteSet(Pending(b))
    /\ cache[b] + Cardinality(Pending(b)) <= tried

CacheInv == CacheTyped /\ \A b \in Buckets : Counts(b)

\* What the constants are.
LEMMA BucketShape ==
    ASSUME NEW b \in Buckets
    PROVE  b[1] \in Scopes /\ CacheLimit[b[1]] \in Nat /\ CacheLimit[b[1]] > 0
    BY SignupsAssumption DEF Buckets, Scopes

\* A call uses one of the buckets, and it is pending there.
LEMMA BucketOfCall ==
    ASSUME CallsTyped, CacheTyped, NEW s \in Signups, step[s] \in {"adding", "incrementing"}
    PROVE  /\ Bucket(s) \in Buckets
           /\ Bucket(s)[1] = use[s].scope
           /\ s \in Pending(Bucket(s))
<1>1. signup[s].name \in Names /\ signup[s].ip \in Ips
    BY DEF CallsTyped, Offers
<1>2. use[s].scope \in {"account", "ip"}
    BY DEF CacheTyped, Uses, Scopes
<1> QED
    BY <1>1, <1>2 DEF Bucket, Buckets, Pending

\* No use more and no call more.
LEMMA CountsStay ==
    ASSUME CacheInv, CacheTyped', tried' = tried, NEW b \in Buckets,
           Pending(b)' \subseteq Pending(b),
           \/ passed'[b] = passed[b] /\ cache'[b] = cache[b]
           \/ passed'[b] = 0 /\ cache'[b] = 0
    PROVE  Counts(b)'
<1>1. /\ IsFiniteSet(Pending(b)')
      /\ Cardinality(Pending(b)') <= Cardinality(Pending(b))
      /\ Cardinality(Pending(b)) \in Nat
      /\ Cardinality(Pending(b)') \in Nat
    BY FS_Subset, FS_CardinalityType DEF CacheInv, Counts
<1>2. passed[b] \in Nat /\ cache[b] \in Nat /\ tried \in Nat /\ CacheLimit[b[1]] \in Nat
    BY SignupsAssumption, BucketShape DEF CacheInv, CacheTyped
<1> QED
    BY <1>1, <1>2 DEF CacheInv, Counts

\* One use of a bucket, of a call that has none left there.
LEMMA CountsOneMore ==
    ASSUME CacheInv, CacheTyped', tried' = tried, NEW b \in Buckets, NEW s \in Pending(b),
           Pending(b)' = Pending(b) \ {s},
           cache'[b] = cache[b] + 1,
           passed'[b] = IF cache[b] + 1 <= CacheLimit[b[1]] THEN passed[b] + 1 ELSE passed[b]
    PROVE  Counts(b)'
<1>1. /\ IsFiniteSet(Pending(b)')
      /\ Cardinality(Pending(b)') = Cardinality(Pending(b)) - 1
      /\ Cardinality(Pending(b)) \in Nat
    BY FS_RemoveElement, FS_CardinalityType DEF CacheInv, Counts
<1>2. passed[b] \in Nat /\ cache[b] \in Nat /\ tried \in Nat /\ CacheLimit[b[1]] \in Nat
    BY SignupsAssumption, BucketShape DEF CacheInv, CacheTyped
<1> QED
    BY <1>1, <1>2 DEF CacheInv, Counts

LEMMA CacheInit == Init => CacheInv
<1> SUFFICES ASSUME Init PROVE CacheInv
    OBVIOUS
<1>1. CacheTyped
    BY SignupsAssumption DEF Init, CacheTyped, Uses, Scopes, Fresh
<1>2. ASSUME NEW b \in Buckets PROVE Counts(b)
  <2>1. Pending(b) = {}
      BY DEF Init, Pending
  <2> QED
      BY <2>1, BucketShape, FS_EmptySet DEF Init, Counts
<1> QED
    BY <1>1, <1>2 DEF CacheInv

\* A call that uses no bucket: those that have a use left keep it or lose it.
LEMMA CacheStays ==
    ASSUME CacheInv, UNCHANGED <<tried, cache, passed>>, use' \in [Signups -> Uses],
           \A b \in Buckets : Pending(b)' \subseteq Pending(b)
    PROVE  CacheInv'
<1>1. CacheTyped'
    BY DEF CacheInv, CacheTyped
<1> QED
    BY <1>1, CountsStay DEF CacheInv

LEMMA OverLeaves ==
    ASSUME CallsTyped, CacheInv, NEW s \in Signups, Over(s)
    PROVE  /\ use' \in [Signups -> Uses]
           /\ tried' = tried
           /\ \A b : Pending(b)' = Pending(b) \ {s}
<1>1. use' \in [Signups -> Uses]
    BY DEF Over, CacheInv, CacheTyped, Uses, Scopes, Fresh
<1>2. step'[s] = "idle"
    BY DEF Over, CallsTyped
<1>3. \A t \in Signups \ {s} : step'[t] = step[t] /\ signup'[t] = signup[t] /\ use'[t] = use[t]
    BY DEF Over, CallsTyped, CacheInv, CacheTyped
<1> QED
    BY <1>1, <1>2, <1>3 DEF Over, Pending

\* A call that goes on to another step.
LEMMA GoesTo ==
    ASSUME CallsTyped, NEW s \in Signups, NEW to, Goes(s, to)
    PROVE  /\ step'[s] = to
           /\ tried' = tried
           /\ signup' = signup
           /\ \A t \in Signups \ {s} : step'[t] = step[t]
    BY DEF Goes, CallsTyped

\* _consume_bucket: the call counts in its bucket and has no use left there.
LEMMA ConsumedOnce ==
    ASSUME CallsTyped, CacheInv, NEW s \in Signups, step[s] \in {"adding", "incrementing"},
           cache' = [cache EXCEPT ![Bucket(s)] = cache[Bucket(s)] + 1],
           Consumed(s, cache[Bucket(s)] + 1)
    PROVE  CacheInv'
<1> DEFINE n == cache[Bucket(s)] + 1
           within == n <= CacheLimit[use[s].scope]
<1>1. /\ Bucket(s) \in Buckets
      /\ Bucket(s)[1] = use[s].scope
      /\ s \in Pending(Bucket(s))
    BY BucketOfCall DEF CacheInv
<1>2. passed' = [passed EXCEPT ![Bucket(s)] = IF within THEN @ + 1 ELSE @]
    BY DEF Consumed
<1>3. /\ use' \in [Signups -> Uses]
      /\ tried' = tried
      /\ \A b : Pending(b)' = Pending(b) \ (IF b = Bucket(s) THEN {s} ELSE {})
  <2>1. CASE use[s].scope = "account"
    <3>1. /\ Goes(s, "adding")
          /\ use' = [use EXCEPT ![s] = [Fresh EXCEPT !.scope = "ip", !.fine = use[s].fine /\ within]]
        BY <2>1 DEF Consumed
    <3>2. (use[s].fine /\ within) \in BOOLEAN
        OBVIOUS
    <3>3. [Fresh EXCEPT !.scope = "ip", !.fine = use[s].fine /\ within] \in Uses
        BY <3>2 DEF Fresh, Uses, Scopes
    <3>4. use' \in [Signups -> Uses] /\ use'[s].scope = "ip"
        BY <3>1, <3>3 DEF CacheInv, CacheTyped, Fresh
    <3>5. \A t \in Signups \ {s} : use'[t] = use[t]
        BY <3>1 DEF CacheInv, CacheTyped
    <3>6. \A b : Pending(b)' = Pending(b) \ (IF b = Bucket(s) THEN {s} ELSE {})
        BY <2>1, <3>1, <3>4, <3>5, GoesTo DEF Pending, Bucket
    <3> QED
        BY <3>1, <3>4, <3>6, GoesTo
  <2>2. CASE use[s].scope # "account"
    <3>1. \A b : s \in Pending(b) => b = Bucket(s)
        BY <2>2 DEF Pending, Bucket
    <3>2. CASE Over(s)
        BY <3>1, <3>2, OverLeaves
    <3>3. CASE Goes(s, "naming") /\ UNCHANGED use
        BY <3>1, <3>3, GoesTo DEF Pending, CacheInv, CacheTyped
    <3> QED
        BY <2>2, <3>2, <3>3 DEF Consumed
  <2> QED
      BY <2>1, <2>2
<1>4. CacheTyped'
    BY <1>1, <1>2, <1>3 DEF CacheInv, CacheTyped
<1>5. ASSUME NEW b \in Buckets
      PROVE  Counts(b)'
  <2>1. CASE b = Bucket(s)
      BY <1>1, <1>2, <1>3, <1>4, <2>1, CountsOneMore DEF CacheInv, CacheTyped
  <2>2. CASE b # Bucket(s)
      BY <1>1, <1>2, <1>3, <1>4, <2>2, CountsStay DEF CacheInv, CacheTyped
  <2> QED
      BY <2>1, <2>2
<1> QED
    BY <1>4, <1>5 DEF CacheInv

\* cache.add and cache.incr, with a bucket that may have expired before.
LEMMA UseStep ==
    ASSUME CallsTyped, CacheInv, NEW s \in Signups, Add(s) \/ Increment(s)
    PROVE  CacheInv'
<1>1. Bucket(s) \in Buckets /\ cache[Bucket(s)] \in Nat
    BY BucketOfCall DEF Add, Increment, CacheInv, CacheTyped
<1>2. CASE Add(s) /\ cache[Bucket(s)] = 0
    BY <1>2, ConsumedOnce DEF Add
<1>3. CASE Increment(s) /\ cache[Bucket(s)] > 0
    BY <1>1, <1>3, ConsumedOnce DEF Increment
<1>4. CASE Add(s) /\ cache[Bucket(s)] # 0
  <2>1. Goes(s, "incrementing") /\ UNCHANGED <<use, cache, passed>> /\ step[s] = "adding"
      BY <1>4 DEF Add
  <2>2. \A b : Pending(b)' = Pending(b)
      BY <2>1, GoesTo DEF Pending
  <2> QED
      BY <2>1, <2>2, GoesTo, CacheStays DEF CacheInv, CacheTyped
<1>5. CASE Increment(s) /\ cache[Bucket(s)] = 0
  <2>1. UNCHANGED <<cache, passed>> /\ step[s] = "incrementing"
      BY <1>5 DEF Increment
  <2>2. CASE Over(s)
      BY <2>1, <2>2, OverLeaves, CacheStays
  <2>3. CASE Goes(s, "adding") /\ use' = [use EXCEPT ![s].again = TRUE]
    <3>1. use' \in [Signups -> Uses]
        BY <2>3 DEF CacheInv, CacheTyped, Uses
    <3>2. \A t \in Signups : use'[t].scope = use[t].scope
        BY <2>3 DEF CacheInv, CacheTyped, Uses
    <3>3. \A b : Pending(b)' = Pending(b)
        BY <2>1, <2>3, <3>2, GoesTo DEF Pending
    <3> QED
        BY <2>1, <2>3, <3>1, <3>3, GoesTo, CacheStays
  <2> QED
      BY <1>5, <2>2, <2>3 DEF Increment
<1> QED
    BY <1>1, <1>2, <1>3, <1>4, <1>5

\* A new call has its uses before it.
LEMMA SignupStarts ==
    ASSUME CallsTyped, CacheInv, NEW s \in Signups, NEW offer \in Offers, Signup(s, offer)
    PROVE  CacheInv'
<1>1. tried \in Nat /\ tried' = tried + 1 /\ tried < MaxSignups /\ UNCHANGED <<cache, passed>>
    BY DEF Signup, CacheInv, CacheTyped
<1>2. use' \in [Signups -> Uses]
    BY DEF Signup, CacheInv, CacheTyped, Uses, Scopes, Fresh
<1>3. CacheTyped'
    BY <1>1, <1>2, SignupsAssumption DEF CacheInv, CacheTyped
<1>4. ASSUME NEW b \in Buckets
      PROVE  Counts(b)'
  <2>1. \A t \in Signups \ {s} : step'[t] = step[t] /\ signup'[t] = signup[t] /\ use'[t] = use[t]
      BY DEF Signup, CallsTyped, CacheInv, CacheTyped
  <2>2. Pending(b)' \subseteq Pending(b) \cup {s}
      BY <2>1 DEF Pending
  <2>3. /\ IsFiniteSet(Pending(b) \cup {s})
        /\ Cardinality(Pending(b) \cup {s}) <= Cardinality(Pending(b)) + 1
        /\ Cardinality(Pending(b)) \in Nat
    <3>1. IsFiniteSet(Pending(b))
        BY DEF CacheInv, Counts
    <3>2. Cardinality(Pending(b)) \in Nat
        BY <3>1, FS_CardinalityType
    <3>3. /\ IsFiniteSet(Pending(b) \cup {s})
          /\ Cardinality(Pending(b) \cup {s}) =
                 IF s \in Pending(b) THEN Cardinality(Pending(b)) ELSE Cardinality(Pending(b)) + 1
        BY <3>1, FS_AddElement
    <3> QED
        BY <3>2, <3>3
  <2>4. /\ IsFiniteSet(Pending(b)')
        /\ Cardinality(Pending(b)') <= Cardinality(Pending(b)) + 1
        /\ Cardinality(Pending(b)') \in Nat
        /\ Cardinality(Pending(b) \cup {s}) \in Nat
    <3>1. /\ IsFiniteSet(Pending(b)')
          /\ Cardinality(Pending(b)') <= Cardinality(Pending(b) \cup {s})
        BY <2>2, <2>3, FS_Subset
    <3>2. Cardinality(Pending(b)') \in Nat /\ Cardinality(Pending(b) \cup {s}) \in Nat
        BY <2>3, <3>1, FS_CardinalityType
    <3> QED
        BY <2>3, <3>1, <3>2
  <2>5. cache[b] \in Nat
      BY DEF CacheInv, CacheTyped
  <2> QED
      BY <1>1, <2>3, <2>4, <2>5 DEF CacheInv, Counts
<1> QED
    BY <1>3, <1>4 DEF CacheInv

LEMMA CacheNext == RegistrationInv /\ CacheInv /\ [Next]_vars => CacheInv'
<1> SUFFICES ASSUME RegistrationInv, CacheInv, [Next]_vars PROVE CacheInv'
    OBVIOUS
<1>1. CallsTyped
    BY DEF RegistrationInv, AccountInv
<1>2. CASE UNCHANGED signupVars
    BY <1>2 DEF signupVars, CacheInv, CacheTyped, Counts, Pending
<1>3. CASE \E s \in Signups, offer \in Offers : Signup(s, offer)
    BY <1>1, <1>3, SignupStarts
<1>4. ASSUME NEW s \in Signups, SignupStep(s)
      PROVE  CacheInv'
  <2>1. CASE Add(s) \/ Increment(s)
      BY <1>1, <2>1, UseStep
  <2>2. CASE WrongCode(s) \/ Taken(s) \/ Insert(s) \/ SignupFails(s)
    <3>1. Over(s) /\ UNCHANGED <<cache, passed>>
        BY <2>2 DEF WrongCode, Taken, Insert, SignupFails
    <3> QED
        BY <1>1, <3>1, OverLeaves, CacheStays
  <2>3. CASE LockName(s) \/ LockScope(s) \/ Accept(s)
    <3>1. UNCHANGED <<use, cache, passed>> /\ \E to \in {"scoping", "deciding", "inserting"} : Goes(s, to)
        BY <2>3 DEF LockName, LockScope, Accept
    <3>2. tried' = tried /\ \A b : Pending(b)' \subseteq Pending(b)
        BY <1>1, <3>1, GoesTo DEF Pending
    <3> QED
        BY <3>1, <3>2, CacheStays DEF CacheInv, CacheTyped
  <2> QED
      BY <1>4, <2>1, <2>2, <2>3 DEF SignupStep
<1>5. ASSUME NEW b \in Buckets, BucketExpires(b)
      PROVE  CacheInv'
  <2>1. /\ cache' = [cache EXCEPT ![b] = 0]
        /\ passed' = [passed EXCEPT ![b] = 0]
        /\ UNCHANGED <<tried, step, signup, use>>
      BY <1>5 DEF BucketExpires
  <2>2. CacheTyped'
      BY <2>1 DEF CacheInv, CacheTyped
  <2>3. ASSUME NEW c \in Buckets
        PROVE  Counts(c)'
    <3>1. Pending(c)' = Pending(c)
        BY <2>1 DEF Pending
    <3>2. \/ passed'[c] = passed[c] /\ cache'[c] = cache[c]
          \/ passed'[c] = 0 /\ cache'[c] = 0
        BY <2>1 DEF CacheInv, CacheTyped
    <3> QED
        BY <2>1, <2>2, <3>1, <3>2, CountsStay
  <2> QED
      BY <2>2, <2>3 DEF CacheInv
<1>6. CASE \E id \in Ids : Delivers(id)
    BY <1>2, <1>6 DEF Delivers
<1> QED
    BY <1>2, <1>3, <1>4, <1>5, <1>6 DEF Next, vars

-----------------------------------------------------------------------------
\* verification_limits.py:65 and rate_limits.py:39: whatever requests wait for each other, fail
\* or are sent again, a persistent window was charged once for every recorded request of its
\* subject and admitted no more than its limit; whenever cached buckets expire between two
\* operations of a call, no use within the limit is missing from its bucket.
THEOREM LimitsCountHolds == Spec => []LimitsCount
<1>1. Init => WindowInv /\ CacheInv
    BY WindowInit, CacheInit
<1>2. RegistrationInv /\ WindowInv /\ CacheInv /\ [Next]_vars => (WindowInv /\ CacheInv)'
    BY WindowNext, CacheNext
<1>3. RegistrationInv /\ WindowInv /\ CacheInv => LimitsCount
  <2> SUFFICES ASSUME RegistrationInv, WindowInv, CacheInv PROVE LimitsCount
      OBVIOUS
  <2>1. cache \in [Buckets -> 0 .. MaxSignups]
    <3>1. ASSUME NEW b \in Buckets PROVE cache[b] \in 0 .. MaxSignups
      <4>1. Cardinality(Pending(b)) \in Nat /\ cache[b] + Cardinality(Pending(b)) <= tried
          BY FS_CardinalityType DEF CacheInv, Counts
      <4> QED
          BY <4>1, SignupsAssumption DEF CacheInv, CacheTyped
    <3> QED
        BY <3>1 DEF CacheInv, CacheTyped
  <2>2. RegistrationTypeOK
      BY <2>1 DEF RegistrationTypeOK, RegistrationInv, CodeInv, RequestsTyped, AccountInv, CallsTyped,
                  WindowInv, WindowsTyped, CacheInv, CacheTyped, Uses
  <2>3. WindowsMatchRecords
      BY DEF WindowInv, Exact, WindowsMatchRecords
  <2>4. NoUncountedUse
      BY DEF CacheInv, Counts, NoUncountedUse
  <2> QED
      BY <2>2, <2>3, <2>4 DEF LimitsCount
<1> QED
    BY <1>1, <1>2, <1>3, RegistrationInvariant, PTL DEF Spec

-----------------------------------------------------------------------------
(* The promise of CodeLifecycle: what a step shows of the codes.             *)

LEMMA InitPromised == Init => Promise!Init
<1> SUFFICES ASSUME Init PROVE Promise!Init
    OBVIOUS
<1>1. \A id \in Ids : Phase(id) = "new" /\ Subject(id) = <<>>
    BY DEF Init, CodeInit, Phase, Subject
<1> QED
    BY <1>1 DEF Promise!Init

\* A step that leaves the codes, and the records of those that are there, shows nothing.
LEMMA ShowsNothing ==
    ASSUME code' = code, \A id \in Ids : code[id] # "none" => record'[id] = record[id]
    PROVE  UNCHANGED Promise!lifecycle
<1>1. \A id \in Ids : Phase(id)' = Phase(id) /\ Subject(id)' = Subject(id)
    BY DEF Phase, Subject
<1> QED
    BY <1>1 DEF Promise!lifecycle

\* One code changes its state and those of S are superseded with it.
LEMMA CodesGo ==
    ASSUME NEW id \in Ids, NEW S, record' = record, code[id] # "none", code'[id] # "none",
           \A d \in Ids \ {id} :
              code'[d] = (IF d \in S THEN "superseded" ELSE code[d]) /\ (d \in S => code[d] # "none")
    PROVE  Promise!Moves(id, Phase(id)', S)
<1>1. \A d \in Ids : Subject(d)' = Subject(d)
    BY DEF Subject
<1>2. \A d \in Ids : Phase(d)' = IF d = id THEN Phase(id)' ELSE IF d \in S THEN "ended" ELSE Phase(d)
    BY DEF Phase
<1> QED
    BY <1>1, <1>2 DEF Promise!Moves

\* The rivals of a code are the usable codes of its subject.
LEMMA RivalsPromised ==
    ASSUME NEW id \in Ids, code[id] # "none"
    PROVE  Rivals(id) = Promise!Others(id, {"usable"})
<1>1. \A d \in Ids : Phase(d) = "usable" <=> code[d] = "active"
    BY DEF Phase
<1>2. \A d \in Ids : code[d] = "active" =>
          (Subject(d) = Subject(id) <=> d[1] = id[1] /\ record[d].contact = record[id].contact)
    BY DEF Subject
<1> QED
    BY <1>1, <1>2 DEF Promise!Others, Rivals

\* A request that is committed: its code is asked for, or there is none.
LEMMA ChargePromised ==
    ASSUME CodeInv, NEW r \in Requests, Charge(r)
    PROVE  Promise!Next \/ UNCHANGED Promise!lifecycle
<1>1. request[r] \in Calls /\ Id(r) \in Ids
    BY DEF CodeInv, RequestsTyped, Charge, Id, Ids, Calls
<1>2. PICK id \in Ids : id = Id(r)
    BY <1>1
<1>3. code[id] = "none"
  <2>1. record[id].status = 0
      BY <1>2 DEF CodeInv, OneAnswer, Charge, Unsent
  <2> QED
      BY <2>1 DEF CodeInv, OneAnswer
<1>4. \A d \in Ids \ {id} : code'[d] = code[d] /\ record'[d] = record[d]
    BY <1>2 DEF Charge, CodeInv, CodesTyped
<1>5. record'[id].contact = request[r].contact
    BY <1>2 DEF Charge, CodeInv, CodesTyped
<1>6. CASE code'[id] = "pending_delivery"
  <2>1. /\ Phase(id) = "new" /\ Phase(id)' = "requested"
        /\ Subject(id)' = <<id[1], request[r].contact>>
        /\ \A d \in Ids \ {id} : Phase(d)' = Phase(d) /\ Subject(d)' = Subject(d)
      BY <1>3, <1>4, <1>5, <1>6 DEF Phase, Subject
  <2>2. Promise!Request(id, <<id[1], request[r].contact>>)
      BY <2>1 DEF Promise!Request
  <2>3. <<id[1], request[r].contact>> \in Purposes \X Contacts
      BY <1>1 DEF Ids, Calls
  <2> QED
      BY <2>2, <2>3 DEF Promise!Next
<1>7. CASE code' = code
    BY <1>3, <1>4, <1>7, ShowsNothing
<1> QED
    BY <1>2, <1>6, <1>7 DEF Charge, CodeInv, CodesTyped

\* The worker: the mail was accepted, and the code takes the place of the one before it, or not.
LEMMA DeliversPromised ==
    ASSUME CodeInv, NEW id \in Ids, Delivers(id)
    PROVE  Promise!Next
<1>1. code[id] = "pending_delivery" /\ record' = record /\ Phase(id) = "requested"
    BY DEF Delivers, Mailed, requestVars, Phase
<1>2. CASE code' = [d \in Ids |->
               IF d = id THEN "active" ELSE IF d \in Rivals(id) THEN "superseded" ELSE code[d]]
  <2>1. /\ code'[id] = "active"
        /\ \A d \in Ids \ {id} :
              code'[d] = (IF d \in Rivals(id) THEN "superseded" ELSE code[d])
              /\ (d \in Rivals(id) => code[d] # "none")
      BY <1>2 DEF Rivals
  <2>2. Phase(id)' = "usable"
      BY <2>1 DEF Phase
  <2>3. Promise!Moves(id, "usable", Promise!Others(id, {"usable"}))
      BY <1>1, <2>1, <2>2, CodesGo, RivalsPromised
  <2>4. Promise!Deliver(id)
      BY <1>1, <2>3 DEF Promise!Deliver
  <2> QED
      BY <2>4 DEF Promise!Next
<1>3. CASE code' = [code EXCEPT ![id] = "delivery_failed"]
  <2>1. code'[id] = "delivery_failed" /\ \A d \in Ids \ {id} : code'[d] = code[d]
      BY <1>3 DEF CodeInv, CodesTyped
  <2>2. Phase(id)' = "ended"
      BY <2>1 DEF Phase
  <2>3. Promise!Moves(id, "ended", {})
      BY <1>1, <2>1, <2>2, CodesGo
  <2>4. Promise!End(id)
      BY <1>1, <2>3 DEF Promise!End
  <2> QED
      BY <2>4 DEF Promise!Next
<1> QED
    BY <1>2, <1>3 DEF Delivers, Mailed

\* An attempt with another code, one too late, or one too many.
LEMMA WrongCodePromised ==
    ASSUME CodeInv, NEW s \in Signups, WrongCode(s)
    PROVE  Promise!Next \/ UNCHANGED Promise!lifecycle
<1>1. record' = record
    BY DEF WrongCode, requestVars
<1>2. CASE code' = code
    BY <1>1, <1>2, ShowsNothing
<1>3. ASSUME NEW id \in Ids, code[id] = "active", NEW to \in {"locked", "expired"},
             code' = [code EXCEPT ![id] = to]
      PROVE  Promise!Next
  <2>1. code'[id] = to /\ \A d \in Ids \ {id} : code'[d] = code[d]
      BY <1>3 DEF CodeInv, CodesTyped
  <2>2. Phase(id) = "usable" /\ Phase(id)' = "ended"
      BY <1>3, <2>1 DEF Phase
  <2>3. Promise!Moves(id, "ended", {})
      BY <1>1, <1>3, <2>1, <2>2, CodesGo
  <2>4. Promise!End(id)
      BY <2>2, <2>3 DEF Promise!End
  <2> QED
      BY <2>4 DEF Promise!Next
<1>4. ASSUME NEW id \in Ids, code[id] = "active", code' = [code EXCEPT ![id] = "active"]
      PROVE  code' = code
    BY <1>4 DEF CodeInv, CodesTyped
<1>5. \A d \in Active(signup[s].contact) : d \in Ids /\ code[d] = "active"
    BY DEF Active, Sent
<1> QED
    BY <1>2, <1>3, <1>4, <1>5 DEF WrongCode

\* The account is there, its code used: it was active until now.
LEMMA InsertPromised ==
    ASSUME CodeInv, AccountInv, NEW s \in Signups, Insert(s)
    PROVE  Promise!Next
<1>1. signup[s].code \in Ids /\ code[signup[s].code] = "active"
    BY InsertersCode DEF Insert
<1>2. PICK id \in Ids : id = signup[s].code
    BY <1>1
<1>3. record' = record /\ code'[id] = "consumed" /\ \A d \in Ids \ {id} : code'[d] = code[d]
    BY <1>2 DEF Insert, requestVars, CodeInv, CodesTyped
<1>4. Phase(id) = "usable" /\ Phase(id)' = "used" /\ code[id] # "none"
    BY <1>1, <1>2, <1>3 DEF Phase
<1>5. Promise!Moves(id, "used", {})
    BY <1>3, <1>4, CodesGo
<1>6. Promise!Use(id)
    BY <1>4, <1>5 DEF Promise!Use
<1> QED
    BY <1>6 DEF Promise!Next

\* Whatever requests, deliveries and registrations run at once, wait for each other or fail, a
\* code keeps the promise of CodeLifecycle: it is asked for once and for one address, usable once
\* it was delivered, used for at most one account, and ended only by its own delivery, its own
\* end or a newer code of its purpose and address.
THEOREM CodesImplemented == Spec => ImplementsCodes
<1>1. RegistrationInv /\ [Next]_vars => [Promise!Next]_(Promise!lifecycle)
  <2> SUFFICES ASSUME RegistrationInv, [Next]_vars
               PROVE  Promise!Next \/ UNCHANGED Promise!lifecycle
      OBVIOUS
  <2> CodeInv /\ AccountInv
      BY DEF RegistrationInv
  <2>1. CASE code' = code /\ record' = record
      BY <2>1, ShowsNothing
  <2>2. ASSUME NEW r \in Requests, RequestStep(r)
        PROVE  Promise!Next \/ UNCHANGED Promise!lifecycle
      BY <2>1, <2>2, ChargePromised
      DEF RequestStep, Replay, LockKey, LockWindow, RequestFails
  <2>3. ASSUME NEW s \in Signups, SignupStep(s)
        PROVE  Promise!Next \/ UNCHANGED Promise!lifecycle
      BY <2>1, <2>3, WrongCodePromised, InsertPromised
      DEF SignupStep, Add, Increment, LockName, LockScope, Taken, Accept, SignupFails, codeVars,
          requestVars
  <2>4. CASE \/ Tick
             \/ \E c \in Contacts : Closes(c)
             \/ \E s \in Signups, offer \in Offers : Signup(s, offer)
             \/ \E b \in Buckets : BucketExpires(b)
             \/ \E r \in Requests, call \in Calls : Ask(r, call)
      BY <2>1, <2>4 DEF Tick, Closes, Signup, BucketExpires, Ask, codeVars, requestVars
  <2>5. CASE UNCHANGED vars
      BY <2>1, <2>5 DEF vars, codeVars, requestVars
  <2> QED
      BY <2>2, <2>3, <2>4, <2>5, DeliversPromised DEF Next
<1> QED
    BY <1>1, InitPromised, RegistrationInvariant, PTL DEF Spec, ImplementsCodes, Promise!Spec
=============================================================================
