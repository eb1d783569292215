----------------------- MODULE CharacterCreationProofs -----------------------
(***************************************************************************)
(* Theorems about ContentStartup and CharacterCreation, for any processes,   *)
(* builds, requests, accounts and names: what the advisory lock, the lease    *)
(* and the two row locks are for.                                          *)
(***************************************************************************)
EXTENDS CharacterCreation, FiniteSetTheorems, TLAPS

-----------------------------------------------------------------------------
(* Servers, commands and the release.                                        *)

ProcessesTyped ==
    /\ pc \in [Processes -> Places]
    /\ lease \in Servers \cup {NoProcess}
    /\ namespace \in Processes \cup {NoProcess}

\* The advisory lock of the namespace is held exactly while a transaction of the startup is open.
NamespaceHeld ==
    \A p \in Processes : namespace = p <=> pc[p] \in {"inspecting", "writing"}

\* Nobody writes a release where there is one.
WritersFindNone == \A p \in Processes : pc[p] = "writing" => release = NoRelease

\* While a server holds the lease, no other one was let pass since it took it.
AdmittedHolds ==
    /\ lease # NoProcess => admitted \subseteq {lease}
    /\ \E s : admitted \subseteq {s}

ContentInv == ProcessesTyped /\ NamespaceHeld /\ WritersFindNone /\ AdmittedHolds

LEMMA InitContentInv == ContentInit => ContentInv
<1> SUFFICES ASSUME ContentInit PROVE ContentInv
    OBVIOUS
<1>1. ProcessesTyped /\ NamespaceHeld /\ WritersFindNone
    BY ProcessesAssumption DEF ContentInit, ProcessesTyped, NamespaceHeld, WritersFindNone, Places
<1>2. AdmittedHolds
    BY DEF ContentInit, AdmittedHolds
<1> QED
    BY <1>1, <1>2 DEF ContentInv

\* A process moves, and takes or leaves the advisory lock as its place says.
LEMMA PlaceStep ==
    ASSUME ProcessesTyped, NamespaceHeld, NEW p \in Processes, NEW place \in Places,
           pc' = [pc EXCEPT ![p] = place],
           \/ place \notin {"inspecting", "writing"} /\ namespace' = Unlocked(p)
           \/ place = "writing" /\ pc[p] = "inspecting" /\ namespace' = namespace
           \/ place = "inspecting" /\ TakeNamespace(p),
           lease' \in Servers \cup {NoProcess}
    PROVE  ProcessesTyped' /\ NamespaceHeld'
<1>1. ProcessesTyped'
    BY DEF ProcessesTyped, Unlocked, TakeNamespace
<1>2. NamespaceHeld'
    BY ProcessesAssumption DEF ProcessesTyped, NamespaceHeld, Unlocked, TakeNamespace, Processes
<1> QED
    BY <1>1, <1>2

LEMMA ProcessStep ==
    ASSUME ContentInv, NEW p \in Processes, ProcessSteps(p)
    PROVE  ContentInv'
<1> USE DEF ContentInv
<1>1. CASE Load(p)
  <2>1. PICK place \in {"locking", "serving", "off"} : pc' = [pc EXCEPT ![p] = place]
      BY <1>1 DEF Load, Ends
  <2>2. pc[p] = "loading" /\ UNCHANGED <<lease, admitted, namespace, release>>
      BY <1>1 DEF Load
  <2>3. namespace' = Unlocked(p)
      BY <2>2 DEF NamespaceHeld, Unlocked
  <2>4. ProcessesTyped' /\ NamespaceHeld'
      BY <2>1, <2>2, <2>3, PlaceStep DEF Places, ProcessesTyped
  <2> QED
      BY <2>1, <2>2, <2>4 DEF WritersFindNone, AdmittedHolds, ProcessesTyped
<1>2. CASE LockNamespace(p)
  <2>1. ProcessesTyped' /\ NamespaceHeld'
      BY <1>2, PlaceStep DEF LockNamespace, Places, ProcessesTyped
  <2> QED
      BY <1>2, <2>1 DEF LockNamespace, WritersFindNone, AdmittedHolds, ProcessesTyped
<1>3. CASE Inspect(p)
  <2>1. UNCHANGED <<lease, admitted, release>> /\ pc[p] = "inspecting"
      BY <1>3 DEF Inspect
  <2>2. CASE release = NoRelease
    <3>1. ProcessesTyped' /\ NamespaceHeld'
        BY <1>3, <2>2, PlaceStep DEF Inspect, Places, ProcessesTyped
    <3> QED
        BY <2>1, <2>2, <3>1 DEF WritersFindNone, AdmittedHolds
  <2>3. CASE release # NoRelease
    <3>1. PICK place \in {"serving", "off"} : pc' = [pc EXCEPT ![p] = place]
        BY <1>3, <2>3 DEF Inspect, Ends
    <3>2. ProcessesTyped' /\ NamespaceHeld'
        BY <1>3, <2>3, <3>1, PlaceStep DEF Inspect, Places, ProcessesTyped
    <3> QED
        BY <2>1, <3>1, <3>2 DEF WritersFindNone, AdmittedHolds, ProcessesTyped
  <2> QED
      BY <2>2, <2>3
<1>4. CASE Commit(p)
  <2>1. /\ UNCHANGED <<lease, admitted>>
        /\ pc[p] = "writing"
        /\ namespace' = Unlocked(p)
      BY <1>4 DEF Commit
  <2>2. PICK place \in {"serving", "off"} : pc' = [pc EXCEPT ![p] = place]
      BY <1>4 DEF Commit, Ends
  <2>3. ProcessesTyped' /\ NamespaceHeld'
      BY <2>1, <2>2, PlaceStep DEF Places, ProcessesTyped
  <2>4. \A q \in Processes : pc'[q] # "writing"
      BY <2>1, <2>2 DEF NamespaceHeld, ProcessesTyped
  <2> QED
      BY <2>1, <2>3, <2>4 DEF WritersFindNone, AdmittedHolds
<1>5. CASE DatabaseFails(p)
  <2>1. PICK place \in {"serving", "off"} : pc' = [pc EXCEPT ![p] = place]
      BY <1>5 DEF DatabaseFails, Ends
  <2>2. ProcessesTyped' /\ NamespaceHeld'
      BY <1>5, <2>1, PlaceStep DEF DatabaseFails, Places, ProcessesTyped
  <2> QED
      BY <1>5, <2>1, <2>2 DEF DatabaseFails, WritersFindNone, AdmittedHolds, ProcessesTyped
<1>6. CASE Stops(p)
  <2>1. /\ pc' = [pc EXCEPT ![p] = "off"]
        /\ namespace' = Unlocked(p)
        /\ lease' \in {lease, NoProcess}
        /\ UNCHANGED <<admitted, release>>
      BY <1>6 DEF Stops
  <2>2. ProcessesTyped' /\ NamespaceHeld'
      BY <2>1, PlaceStep DEF Places, ProcessesTyped
  <2> QED
      BY <2>1, <2>2 DEF WritersFindNone, AdmittedHolds, ProcessesTyped
<1> QED
    BY <1>1, <1>2, <1>3, <1>4, <1>5, <1>6 DEF ProcessSteps

LEMMA ContentStep ==
    ASSUME ContentInv, ContentNext
    PROVE  ContentInv'
<1> USE DEF ContentInv
<1>1. ASSUME NEW s \in Servers, NEW b \in Builds, StartServer(s, b)
      PROVE  ContentInv'
  <2>1. /\ pc[s] = "off" /\ pc' = [pc EXCEPT ![s] = "loading"]
        /\ lease' = s /\ admitted' = {s}
        /\ UNCHANGED <<namespace, release>>
      BY <1>1 DEF StartServer, TakeLease
  <2>2. s \in Processes /\ namespace' = Unlocked(s)
      BY <2>1 DEF Processes, NamespaceHeld, Unlocked
  <2>3. ProcessesTyped' /\ NamespaceHeld'
      BY <2>1, <2>2, PlaceStep DEF Places
  <2> QED
      BY <2>1, <2>2, <2>3 DEF WritersFindNone, AdmittedHolds, ProcessesTyped
<1>2. ASSUME NEW c \in Commands, NEW b \in Builds, StartCommand(c, b)
      PROVE  ContentInv'
  <2>1. /\ pc[c] = "off" /\ pc' = [pc EXCEPT ![c] = "loading"]
        /\ UNCHANGED <<namespace, release, lease, admitted>>
      BY <1>2 DEF StartCommand
  <2>2. c \in Processes /\ namespace' = Unlocked(c)
      BY <2>1 DEF Processes, NamespaceHeld, Unlocked
  <2>3. ProcessesTyped' /\ NamespaceHeld'
      BY <2>1, <2>2, PlaceStep DEF Places, ProcessesTyped
  <2> QED
      BY <2>1, <2>2, <2>3 DEF WritersFindNone, AdmittedHolds, ProcessesTyped
<1>3. ASSUME NEW p \in Processes, ProcessSteps(p)
      PROVE  ContentInv'
    BY <1>3, ProcessStep
<1>4. ASSUME NEW s \in Servers, ProbeLease(s) \/ ProbeContent(s) \/ ProbeHeads(s) \/ LoseLease(s)
      PROVE  ContentInv'
  <2>1. UNCHANGED <<namespace, release, pc>>
      BY <1>4 DEF ProbeLease, ProbeContent, ProbeHeads, LoseLease
  <2>2. \/ lease' = s /\ admitted' = {s}
        \/ lease' = lease /\ lease = s /\ admitted' = admitted \cup {s}
        \/ lease' \in {lease, NoProcess} /\ admitted' = admitted
      BY <1>4 DEF ProbeLease, ProbeContent, ProbeHeads, LoseLease, TakeLease, LeaseAnswers
  <2>3. AdmittedHolds'
      BY <2>2, ProcessesAssumption DEF AdmittedHolds, Processes
  <2>4. ProcessesTyped'
      BY <2>1, <2>2 DEF ProcessesTyped
  <2> QED
      BY <2>1, <2>3, <2>4 DEF NamespaceHeld, WritersFindNone
<1> QED
    BY <1>1, <1>2, <1>3, <1>4 DEF ContentNext

-----------------------------------------------------------------------------
(* Requests and their row locks.                                             *)

RequestsTyped ==
    /\ at \in [Requests -> {"idle", "refused"} \cup Working]
    /\ accountLock \in [Accounts -> Requests \cup {Nobody}]
    /\ headLock \in Requests \cup {Nobody}
    /\ \A r \in Requests : at[r] \in Working => request[r] \in Calls
    /\ DOMAIN request = Requests

\* A row lock is held exactly while the transaction that took it is open.
LocksHeld ==
    /\ \A a \in Accounts, r \in Requests :
           accountLock[a] = r <=> at[r] \in Locking /\ request[r].account = a
    /\ \A r \in Requests : headLock = r <=> at[r] \in {"name", "insert"}

\* What a request has found under its locks is still so.
FoundFree ==
    \A r \in Requests :
        /\ at[r] \in Locking => Owned(Account(r)) = {} /\ Recorded(r) = {}
        /\ at[r] = "insert" => ~NameTaken(r)

CreationInv == RequestsTyped /\ LocksHeld /\ FoundFree

LEMMA InitCreationInv == CreationInit => CreationInv
<1> SUFFICES ASSUME CreationInit PROVE CreationInv
    OBVIOUS
<1>1. RequestsTyped
    BY DEF CreationInit, RequestsTyped, Working
<1>2. LocksHeld /\ FoundFree
    BY NobodyAssumption DEF CreationInit, LocksHeld, FoundFree, Locking
<1> QED
    BY <1>1, <1>2 DEF CreationInv

\* Nothing of characters and records changes: who goes on from where it stood has found it so.
LEMMA NothingWritten ==
    ASSUME CreationInv, RequestsTyped', LocksHeld', UNCHANGED <<characters, records>>,
           \A r \in Requests : at'[r] \in Locking =>
               /\ request'[r] = request[r]
               /\ at[r] \in Locking \/ (Owned(Account(r)) = {} /\ Recorded(r) = {})
               /\ at'[r] = "insert" => at[r] = "insert" \/ ~NameTaken(r)
    PROVE  CreationInv'
<1>1. ASSUME NEW r \in Requests, at'[r] \in Locking
      PROVE  (Owned(Account(r)) = {} /\ Recorded(r) = {})'
  <2>1. Owned(Account(r)) = {} /\ Recorded(r) = {}
      BY <1>1 DEF CreationInv, FoundFree
  <2> QED
      BY <1>1, <2>1 DEF Owned, Recorded, Account
<1>2. ASSUME NEW r \in Requests, at'[r] = "insert"
      PROVE  ~NameTaken(r)'
  <2>1. ~NameTaken(r) /\ request'[r] = request[r]
      BY <1>2 DEF CreationInv, FoundFree, Locking
  <2> QED
      BY <2>1 DEF NameTaken, Name
<1> QED
    BY <1>1, <1>2 DEF CreationInv, FoundFree

\* A transaction ends: its locks are free again.
LEMMA FinishFrees ==
    ASSUME CreationInv, NEW r \in Requests, NEW place \in {"idle", "refused"}, Finish(r, place)
    PROVE  /\ RequestsTyped' /\ LocksHeld'
           /\ at'[r] = place
           /\ \A q \in Requests \ {r} : at'[q] = at[q] /\ request'[q] = request[q]
<1>1. /\ at' = [at EXCEPT ![r] = place]
      /\ request' = [request EXCEPT ![r] = Nobody]
      /\ accountLock' = [a \in Accounts |-> IF accountLock[a] = r THEN Nobody ELSE accountLock[a]]
      /\ headLock' = IF headLock = r THEN Nobody ELSE headLock
    BY DEF Finish, Unlocks
<1>2. /\ at'[r] = place
      /\ \A q \in Requests \ {r} : at'[q] = at[q] /\ request'[q] = request[q]
    BY <1>1 DEF CreationInv, RequestsTyped
<1>3. RequestsTyped'
    BY <1>1, <1>2 DEF CreationInv, RequestsTyped, Working
<1>4. LocksHeld'
    BY <1>1, <1>2, NobodyAssumption DEF CreationInv, RequestsTyped, LocksHeld, Locking
<1> QED
    BY <1>2, <1>3, <1>4

LEMMA EndsUnwritten ==
    ASSUME CreationInv, NEW r \in Requests, NEW place \in {"idle", "refused"}, Finish(r, place),
           UNCHANGED <<characters, records>>
    PROVE  CreationInv'
    BY FinishFrees, NothingWritten DEF Locking

LEMMA LockAccountStep ==
    ASSUME CreationInv, NEW r \in Requests, LockAccount(r)
    PROVE  CreationInv'
<1>1. /\ at[r] = "account" /\ accountLock[Account(r)] = Nobody
      /\ Recorded(r) = {} /\ Owned(Account(r)) = {}
      /\ accountLock' = [accountLock EXCEPT ![Account(r)] = r]
      /\ at' = [at EXCEPT ![r] = "head"]
      /\ UNCHANGED <<headLock, request, characters, records>>
    BY DEF LockAccount, AccountTurn
<1>2. Account(r) \in Accounts
    BY <1>1 DEF CreationInv, RequestsTyped, Working, Calls, Account
<1>3. at'[r] = "head" /\ \A q \in Requests \ {r} : at'[q] = at[q]
    BY <1>1 DEF CreationInv, RequestsTyped
<1>4. RequestsTyped'
    BY <1>1, <1>2, <1>3 DEF CreationInv, RequestsTyped, Working
<1>5. LocksHeld'
    BY <1>1, <1>2, <1>3, NobodyAssumption DEF CreationInv, RequestsTyped, LocksHeld, Locking, Account
<1> QED
    BY <1>1, <1>3, <1>4, <1>5, NothingWritten DEF Locking

LEMMA LockHeadStep ==
    ASSUME CreationInv, NEW r \in Requests, LockHead(r)
    PROVE  CreationInv'
<1>1. /\ at[r] = "head" /\ headLock = Nobody /\ headLock' = r
      /\ at' = [at EXCEPT ![r] = "name"]
      /\ UNCHANGED <<accountLock, request, characters, records>>
    BY DEF LockHead, HeadTurn
<1>2. at'[r] = "name" /\ \A q \in Requests \ {r} : at'[q] = at[q]
    BY <1>1 DEF CreationInv, RequestsTyped
<1>3. RequestsTyped'
    BY <1>1, <1>2 DEF CreationInv, RequestsTyped, Working
<1>4. LocksHeld'
    BY <1>1, <1>2, NobodyAssumption DEF CreationInv, RequestsTyped, LocksHeld, Locking
<1> QED
    BY <1>1, <1>2, <1>3, <1>4, NothingWritten DEF Locking

LEMMA CheckNameStep ==
    ASSUME CreationInv, NEW r \in Requests, CheckName(r)
    PROVE  CreationInv'
<1>1. CASE NameTaken(r)
    BY <1>1, EndsUnwritten DEF CheckName, Refuse
<1>2. CASE ~NameTaken(r)
  <2>1. /\ at[r] = "name" /\ at' = [at EXCEPT ![r] = "insert"]
        /\ UNCHANGED <<accountLock, headLock, request, characters, records>>
      BY <1>2 DEF CheckName
  <2>2. at'[r] = "insert" /\ \A q \in Requests \ {r} : at'[q] = at[q]
      BY <2>1 DEF CreationInv, RequestsTyped
  <2>3. RequestsTyped'
      BY <2>1, <2>2 DEF CreationInv, RequestsTyped, Working
  <2>4. LocksHeld'
      BY <2>1, <2>2 DEF CreationInv, LocksHeld, Locking
  <2> QED
      BY <1>2, <2>1, <2>2, <2>3, <2>4, NothingWritten DEF Locking
<1> QED
    BY <1>1, <1>2

\* The rows of a new character: of another account than those of the transactions still open,
\* none of which has checked its name.
LEMMA InsertStep ==
    ASSUME CreationInv, NEW r \in Requests, Insert(r)
    PROVE  CreationInv'
<1>1. at[r] = "insert" /\ Finish(r, "idle")
    BY DEF Insert
<1>2. PICK row, form :
          /\ characters' = characters \cup {row} /\ row.owner = Account(r)
          /\ records' = records \cup {form} /\ form.account = Account(r)
  <2> DEFINE id == Cardinality(characters) + 1
  <2>1. /\ characters' = characters \cup {[id |-> id, owner |-> Account(r), name |-> Name(r)]}
        /\ records' = records \cup {Form(r, id)}
      BY DEF Insert
  <2>2. [id |-> id, owner |-> Account(r), name |-> Name(r)].owner = Account(r)
      OBVIOUS
  <2>3. Form(r, id).account = Account(r)
      BY DEF Form
  <2> QED
      BY <2>1, <2>2, <2>3
<1>3. /\ RequestsTyped' /\ LocksHeld' /\ at'[r] = "idle"
      /\ \A q \in Requests \ {r} : at'[q] = at[q] /\ request'[q] = request[q]
    BY <1>1, FinishFrees
<1>4. ASSUME NEW q \in Requests, at'[q] \in Locking
      PROVE  (Owned(Account(q)) = {} /\ Recorded(q) = {})' /\ at'[q] # "insert"
  <2>1. q # r /\ at[q] \in Locking /\ request'[q] = request[q] /\ at'[q] = at[q]
      BY <1>3, <1>4 DEF Locking
  <2>2. Account(r) \in Accounts /\ at[r] \in Locking
      BY <1>1 DEF CreationInv, RequestsTyped, Working, Calls, Account, Locking
  <2>3. Account(q) # Account(r)
      BY <2>1, <2>2 DEF CreationInv, LocksHeld, Account
  <2>4. Owned(Account(q)) = {} /\ Recorded(q) = {}
      BY <2>1 DEF CreationInv, FoundFree
  <2>5. (Owned(Account(q)) = {} /\ Recorded(q) = {})'
      BY <1>2, <2>1, <2>3, <2>4 DEF Owned, Recorded, Account
  <2>6. at[q] # "insert"
      BY <1>1, <2>1 DEF CreationInv, LocksHeld
  <2> QED
      BY <2>1, <2>5, <2>6
<1> QED
    BY <1>3, <1>4 DEF CreationInv, FoundFree, Locking

LEMMA SendStep ==
    ASSUME CreationInv, NEW r \in Requests, NEW s \in Servers, NEW call \in Calls, Send(r, s, call)
    PROVE  CreationInv'
<1>1. /\ at[r] \notin Working /\ at' = [at EXCEPT ![r] = "account"]
      /\ request' = [request EXCEPT ![r] = call]
      /\ UNCHANGED <<accountLock, headLock, characters, records>>
    BY DEF Send
<1>2. /\ at'[r] = "account" /\ request'[r] = call
      /\ \A q \in Requests \ {r} : at'[q] = at[q] /\ request'[q] = request[q]
    BY <1>1 DEF CreationInv, RequestsTyped
<1>3. RequestsTyped'
    BY <1>1, <1>2 DEF CreationInv, RequestsTyped, Working
<1>4. LocksHeld'
    BY <1>1, <1>2 DEF CreationInv, LocksHeld, Locking, Working
<1> QED
    BY <1>1, <1>2, <1>3, <1>4, NothingWritten DEF Locking

LEMMA CreationSteps ==
    ASSUME CreationInv, NEW r \in Requests, CreationStep(r)
    PROVE  CreationInv'
<1>1. CASE Replay(r)
    BY <1>1, EndsUnwritten DEF Replay
<1>2. CASE KeyConflict(r) \/ CreationFails(r)
    BY <1>2, EndsUnwritten DEF KeyConflict, CreationFails, Unavailable
<1>3. CASE AtLimit(r) \/ RefuseInput(r) \/ NoStartRoom(r)
    BY <1>3, EndsUnwritten DEF AtLimit, RefuseInput, NoStartRoom, Refuse
<1> QED
    BY <1>1, <1>2, <1>3, LockAccountStep, LockHeadStep, CheckNameStep, InsertStep DEF CreationStep

-----------------------------------------------------------------------------
(* All steps.                                                                *)

LEMMA NextInv == ContentInv /\ CreationInv /\ [Next]_vars => ContentInv' /\ CreationInv'
<1> SUFFICES ASSUME ContentInv, CreationInv, [Next]_vars
             PROVE  ContentInv' /\ CreationInv'
    OBVIOUS
<1>1. ASSUME UNCHANGED contentVars
      PROVE  ContentInv'
    BY <1>1 DEF contentVars, ContentInv, ProcessesTyped, NamespaceHeld, WritersFindNone, AdmittedHolds
<1>2. ASSUME UNCHANGED creationVars
      PROVE  CreationInv'
    BY <1>2 DEF creationVars, CreationInv, RequestsTyped, LocksHeld, FoundFree, Owned, Account,
                Recorded, NameTaken, Name
<1>3. CASE ContentNext /\ UNCHANGED creationVars
    BY <1>2, <1>3, ContentStep
<1>4. ASSUME NEW r \in Requests, NEW s \in Servers, NEW call \in Calls, Send(r, s, call)
      PROVE  ContentInv' /\ CreationInv'
    BY <1>1, <1>4, SendStep DEF Send
<1>5. ASSUME NEW r \in Requests, CreationStep(r)
      PROVE  ContentInv' /\ CreationInv'
  <2>1. UNCHANGED contentVars
      BY <1>5 DEF CreationStep, Replay, KeyConflict, AtLimit, RefuseInput, LockAccount, LockHead,
                  NoStartRoom, CheckName, Insert, CreationFails, Unavailable, Refuse, Finish
  <2> QED
      BY <1>1, <1>5, <2>1, CreationSteps
<1>6. CASE UNCHANGED vars
    BY <1>1, <1>2, <1>6 DEF vars
<1> QED
    BY <1>3, <1>4, <1>5, <1>6 DEF Next

LEMMA Invariant == Spec => [](ContentInv /\ CreationInv)
<1>1. Init => ContentInv /\ CreationInv
    BY InitContentInv, InitCreationInv DEF Init
<1> QED
    BY <1>1, NextInv, PTL DEF Spec

\* Of processes that start together one writes the release, whoever stops, fails or starts in
\* between: the startup advisory lock is taken before a process looks (content/startup.py:874).
THEOREM BootstrapsAloneHolds == Spec => []BootstrapsAlone
<1>1. ContentInv => BootstrapsAlone
    BY DEF ContentInv, WritersFindNone, NamespaceHeld, BootstrapsAlone
<1> QED
    BY <1>1, Invariant, PTL

\* Probes let one server pass for as long as the lease has not changed hands, also when its
\* connection broke in between (process_guard.py:26).
THEOREM OneTenantHolds == Spec => []OneTenant
<1>1. AdmittedHolds => OneTenant
  <2> SUFFICES ASSUME NEW s, admitted \subseteq {s}
               PROVE  OneTenant
      BY DEF AdmittedHolds
  <2>1. admitted = {} \/ admitted = {s}
      OBVIOUS
  <2> QED
      BY <2>1, FS_EmptySet, FS_Singleton DEF OneTenant
<1>2. ContentInv => AdmittedHolds
    BY DEF ContentInv
<1> QED
    BY <1>1, <1>2, Invariant, PTL

-----------------------------------------------------------------------------
(* Who says it is ready.                                                     *)

\* Process p says that it is ready, since its start or to a probe.
Claims(p) == outcome[p] \in {"bootstrapped", "verified"} \/ (p \in Servers /\ probe[p] = "ready")

\* It is right: the release is what its own build would have written.
IsCurrent(p) ==
    /\ release # NoRelease
    /\ release.seed = build[p].seed
    /\ release.rows = Compiled(build[p])

ReadyIfCompiled == VerifiedIsCompiled => ReadyIsCurrent

StartupTyped ==
    /\ held \subseteq Servers
    /\ admitted \subseteq Servers
    /\ build \in [Processes -> Builds \cup {NoBuild}]
    /\ outcome \in [Processes -> Outcomes]
    /\ probe \in [Servers -> Probes]

\* A process that runs has a build, and one that has got to the database an artifact that
\* loads; one that is off is not probed.
BuildsRun ==
    /\ \A p \in Processes : pc[p] # "off" => build[p] \in Builds
    /\ \A p \in Processes : pc[p] \in {"locking", "inspecting", "writing"} => Loads(build[p])
    /\ \A s \in Servers : pc[s] = "off" => probe[s] = "none"

\* The release was written by a build whose artifact loads.
ReleaseLoads == release = NoRelease \/ \E b \in Builds : Loads(b) /\ release = Published(b)

StartupInv == StartupTyped /\ BuildsRun /\ ReleaseLoads /\ ReadyIfCompiled

\* A step of p that writes no release: the others say what they said, and p what it has verified.
LEMMA ClaimsKept ==
    ASSUME ReadyIfCompiled, UNCHANGED release, NEW p,
           \A q \in Processes \ {p} : build'[q] = build[q] /\ (Claims(q)' => Claims(q)),
           Claims(p)' => build'[p] = build[p] /\ (Claims(p) \/ (VerifiedIsCompiled => IsCurrent(p)))
    PROVE  ReadyIfCompiled'
    BY DEF ReadyIfCompiled, ReadyIsCurrent, Claims, IsCurrent

\* A process that verifies a release accepts what it would have written.
LEMMA VerifiedIsCurrent ==
    ASSUME VerifiedIsCompiled, ReleaseLoads, release # NoRelease, NEW b \in Builds, Loads(b),
           Verifies(release, b)
    PROVE  release.seed = b.seed /\ release.rows = Compiled(b)
<1>1. PICK c \in Builds : Loads(c) /\ release = Published(c)
    BY DEF ReleaseLoads
<1>2. Compiled(c) = Compiled(b)
    BY <1>1 DEF VerifiedIsCompiled
<1>3. release.rows = Compiled(c)
    BY <1>1 DEF Published
<1>4. release.seed = b.seed
    BY DEF Verifies, VerifiesExactly
<1> QED
    BY <1>2, <1>3, <1>4

\* The end of start() changes the outcome and the place of one process.
LEMMA EndsEffect ==
    ASSUME ProcessesTyped, StartupTyped, NEW p \in Processes, NEW result \in Outcomes, Ends(p, result)
    PROVE  /\ outcome' \in [Processes -> Outcomes]
           /\ outcome'[p] = result
           /\ pc'[p] = IF p \in Servers THEN "serving" ELSE "off"
           /\ \A q \in Processes \ {p} : outcome'[q] = outcome[q] /\ pc'[q] = pc[q]
    BY DEF ProcessesTyped, StartupTyped, Ends

\* A startup that ends, with the release and its own build as they are.
LEMMA EndsRight ==
    ASSUME ProcessesTyped, StartupInv, NEW p \in Processes, pc[p] # "off", NEW result \in Outcomes,
           Ends(p, result), UNCHANGED <<held, admitted, release, build, probe>>,
           result \in {"bootstrapped", "verified"} => (VerifiedIsCompiled => IsCurrent(p))
    PROVE  StartupInv'
<1>1. StartupTyped'
    BY EndsEffect DEF StartupInv, StartupTyped
<1>2. BuildsRun'
    BY EndsEffect DEF StartupInv, BuildsRun, Processes
<1>3. ReadyIfCompiled'
    BY EndsEffect, ClaimsKept DEF StartupInv, Claims
<1> QED
    BY <1>1, <1>2, <1>3 DEF StartupInv, ReleaseLoads

\* A process that goes on to a place before the end of its start.
LEMMA GoesOn ==
    ASSUME ProcessesTyped, StartupInv, NEW p \in Processes,
           NEW to \in {"locking", "inspecting", "writing"}, pc' = [pc EXCEPT ![p] = to],
           pc[p] # "off", Loads(build[p]), UNCHANGED <<held, admitted, release, build, outcome, probe>>
    PROVE  StartupInv'
<1>1. pc'[p] = to /\ \A q \in Processes \ {p} : pc'[q] = pc[q]
    BY DEF ProcessesTyped
<1>2. BuildsRun'
    BY <1>1 DEF StartupInv, BuildsRun, Processes
<1> QED
    BY <1>2 DEF StartupInv, StartupTyped, ReleaseLoads, ReadyIfCompiled, ReadyIsCurrent

LEMMA CommitRight ==
    ASSUME ProcessesTyped, StartupInv, NEW p \in Processes, Commit(p)
    PROVE  StartupInv'
<1>1. /\ pc[p] = "writing" /\ release = NoRelease /\ release' = Published(build[p])
      /\ Ends(p, "bootstrapped")
      /\ UNCHANGED <<held, admitted, build, probe>>
    BY DEF Commit
<1>2. build[p] \in Builds /\ Loads(build[p])
    BY <1>1 DEF StartupInv, BuildsRun
<1>3. /\ outcome' \in [Processes -> Outcomes]
      /\ pc'[p] = IF p \in Servers THEN "serving" ELSE "off"
      /\ \A q \in Processes \ {p} : outcome'[q] = outcome[q] /\ pc'[q] = pc[q]
    BY <1>1, EndsEffect DEF StartupInv, Outcomes
<1>4. BuildsRun'
    BY <1>1, <1>2, <1>3 DEF StartupInv, BuildsRun, Processes
<1>5. VerifiedIsCompiled => \A q \in Processes : ~Claims(q)
    BY <1>1 DEF StartupInv, ReadyIfCompiled, ReadyIsCurrent, Claims
<1>6. ASSUME VerifiedIsCompiled, NEW q \in Processes, Claims(q)'
      PROVE  q = p
    BY <1>1, <1>3, <1>5, <1>6 DEF Claims
<1>7. IsCurrent(p)'
    BY <1>1, <1>2, NoReleaseAssumption DEF Published, IsCurrent
<1>8. ReadyIfCompiled'
    BY <1>6, <1>7 DEF ReadyIfCompiled, ReadyIsCurrent, Claims, IsCurrent
<1>9. ReleaseLoads'
    BY <1>1, <1>2 DEF ReleaseLoads
<1> QED
    BY <1>1, <1>3, <1>4, <1>8, <1>9 DEF StartupInv, StartupTyped

LEMMA ProcessRight ==
    ASSUME ProcessesTyped, StartupInv, NEW p \in Processes, ProcessSteps(p)
    PROVE  StartupInv'
<1>1. CASE Load(p)
  <2>1. CASE Loads(build[p])
      BY <1>1, <2>1, GoesOn DEF Load
  <2>2. CASE ~Loads(build[p])
      BY <1>1, <2>2, EndsRight DEF Load, Outcomes
  <2> QED
      BY <2>1, <2>2
<1>2. CASE LockNamespace(p)
    BY <1>2, GoesOn DEF LockNamespace, StartupInv, BuildsRun
<1>3. CASE Inspect(p)
  <2>1. pc[p] = "inspecting" /\ Loads(build[p]) /\ build[p] \in Builds
      BY <1>3 DEF Inspect, StartupInv, BuildsRun
  <2>2. CASE release = NoRelease
      BY <1>3, <2>1, <2>2, GoesOn DEF Inspect
  <2>3. CASE release # NoRelease
    <3>1. PICK result \in {"verified", "failed"} :
              Ends(p, result) /\ (result = "verified" => Verifies(release, build[p]))
        BY <1>3, <2>3 DEF Inspect
    <3>2. result = "verified" => (VerifiedIsCompiled => IsCurrent(p))
        BY <2>1, <2>3, <3>1, VerifiedIsCurrent DEF StartupInv, IsCurrent
    <3>3. UNCHANGED <<held, admitted, release, build, probe>>
        BY <1>3 DEF Inspect
    <3>4. result \in Outcomes /\ result # "bootstrapped"
        BY DEF Outcomes
    <3> QED
        BY <2>1, <2>3, <3>1, <3>2, <3>3, <3>4, EndsRight
  <2> QED
      BY <2>2, <2>3
<1>4. CASE Commit(p)
    BY <1>4, CommitRight
<1>5. CASE DatabaseFails(p)
    BY <1>5, EndsRight DEF DatabaseFails, Outcomes
<1>6. CASE Stops(p)
  <2>1. /\ pc' = [pc EXCEPT ![p] = "off"]
        /\ build' = [build EXCEPT ![p] = NoBuild]
        /\ outcome' = [outcome EXCEPT ![p] = "none"]
        /\ probe' = [s \in Servers |-> IF s = p THEN "none" ELSE probe[s]]
        /\ held' \subseteq held
        /\ UNCHANGED <<admitted, release>>
      BY <1>6 DEF Stops
  <2>2. StartupTyped'
      BY <2>1 DEF StartupInv, StartupTyped, Outcomes, Probes
  <2>3. BuildsRun'
      BY <2>1 DEF ProcessesTyped, StartupInv, StartupTyped, BuildsRun, Processes
  <2>4. ReadyIfCompiled'
      BY <2>1, ClaimsKept DEF StartupInv, StartupTyped, Claims
  <2> QED
      BY <2>1, <2>2, <2>3, <2>4 DEF StartupInv, ReleaseLoads
<1> QED
    BY <1>1, <1>2, <1>3, <1>4, <1>5, <1>6 DEF ProcessSteps

LEMMA StartRight ==
    ASSUME ProcessesTyped, StartupInv, NEW p \in Processes, NEW b \in Builds, pc[p] = "off",
           build' = [build EXCEPT ![p] = b], pc' = [pc EXCEPT ![p] = "loading"],
           outcome' \in [Processes -> Outcomes], outcome'[p] = "none",
           \A q \in Processes \ {p} : outcome'[q] = outcome[q],
           held' \subseteq Servers, admitted' \subseteq Servers, UNCHANGED <<release, probe>>
    PROVE  StartupInv'
<1>1. StartupTyped'
    BY DEF StartupInv, StartupTyped
<1>2. BuildsRun'
    BY DEF ProcessesTyped, StartupInv, StartupTyped, BuildsRun, Processes
<1>3. ~Claims(p)'
    BY DEF StartupInv, BuildsRun, Claims
<1>4. \A q \in Processes \ {p} : build'[q] = build[q] /\ (Claims(q)' => Claims(q))
    BY DEF StartupInv, StartupTyped, Claims
<1>5. ReadyIfCompiled'
    BY <1>3, <1>4, ClaimsKept DEF StartupInv
<1> QED
    BY <1>1, <1>2, <1>5 DEF StartupInv, ReleaseLoads

\* A probe, or a session that ends: what a server says may change, if it runs.
LEMMA ProbeRight ==
    ASSUME StartupInv, NEW s \in Servers, NEW answer \in Probes,
           probe' = [probe EXCEPT ![s] = answer], pc[s] # "off",
           held' \subseteq Servers, admitted' \subseteq Servers,
           UNCHANGED <<release, build, pc, outcome>>,
           answer = "ready" => (VerifiedIsCompiled => IsCurrent(s))
    PROVE  StartupInv'
<1>1. probe'[s] = answer /\ \A q \in Servers \ {s} : probe'[q] = probe[q]
    BY DEF StartupInv, StartupTyped
<1>2. StartupTyped' /\ BuildsRun'
    BY <1>1 DEF StartupInv, StartupTyped, BuildsRun
<1>3. ReadyIfCompiled'
    BY <1>1, ClaimsKept DEF StartupInv, Claims
<1> QED
    BY <1>2, <1>3 DEF StartupInv, ReleaseLoads

LEMMA StartupStep ==
    ASSUME ProcessesTyped, StartupInv, ContentNext
    PROVE  StartupInv'
<1>1. ASSUME NEW s \in Servers, NEW b \in Builds, StartServer(s, b)
      PROVE  StartupInv'
  <2>1. /\ pc[s] = "off"
        /\ build' = [build EXCEPT ![s] = b] /\ pc' = [pc EXCEPT ![s] = "loading"]
        /\ outcome' = [outcome EXCEPT ![s] = "none"]
        /\ held' = held \cup {s} /\ admitted' = {s}
        /\ UNCHANGED <<release, probe>>
      BY <1>1 DEF StartServer, TakeLease
  <2>2. /\ outcome' \in [Processes -> Outcomes] /\ outcome'[s] = "none"
        /\ \A q \in Processes \ {s} : outcome'[q] = outcome[q]
      BY <2>1 DEF StartupInv, StartupTyped, Outcomes, Processes
  <2>3. held' \subseteq Servers /\ admitted' \subseteq Servers /\ s \in Processes
      BY <2>1 DEF StartupInv, StartupTyped, Processes
  <2> QED
      BY <2>1, <2>2, <2>3, StartRight
<1>2. ASSUME NEW c \in Commands, NEW b \in Builds, StartCommand(c, b)
      PROVE  StartupInv'
    BY <1>2, StartRight DEF StartCommand, StartupInv, StartupTyped, Processes
<1>3. ASSUME NEW s \in Servers, ProbeLease(s)
      PROVE  StartupInv'
  <2>1. PICK answer \in {"leased", "not_ready"} : probe' = [probe EXCEPT ![s] = answer]
      BY <1>3 DEF ProbeLease
  <2>2. held' \subseteq Servers /\ admitted' \subseteq Servers
      BY <1>3 DEF ProbeLease, TakeLease, StartupInv, StartupTyped
  <2>3. pc[s] # "off" /\ UNCHANGED <<release, build, pc, outcome>>
      BY <1>3 DEF ProbeLease
  <2> QED
      BY <2>1, <2>2, <2>3, ProbeRight DEF Probes
<1>4. ASSUME NEW s \in Servers, ProbeContent(s)
      PROVE  StartupInv'
  <2>1. pc[s] # "off" /\ build[s] \in Builds
      BY <1>4 DEF ProbeContent, StartupInv, BuildsRun, Processes
  <2>2. PICK answer \in {"not_ready", "unseen", "ready"} :
            /\ probe' = [probe EXCEPT ![s] = answer]
            /\ answer = "ready" => Loads(build[s]) /\ release # NoRelease /\ Verifies(release, build[s])
      BY <1>4 DEF ProbeContent
  <2>3. answer = "ready" => (VerifiedIsCompiled => IsCurrent(s))
      BY <2>1, <2>2, VerifiedIsCurrent DEF StartupInv, IsCurrent
  <2>4. held' \subseteq Servers /\ admitted' \subseteq Servers /\ UNCHANGED <<release, build, pc, outcome>>
      BY <1>4 DEF ProbeContent, StartupInv, StartupTyped
  <2> QED
      BY <2>1, <2>2, <2>3, <2>4, ProbeRight DEF Probes
<1>5. ASSUME NEW s \in Servers, ProbeHeads(s)
      PROVE  StartupInv'
  <2>1. pc[s] # "off"
      BY <1>5 DEF ProbeHeads, StartupInv, BuildsRun
  <2> QED
      BY <1>5, <2>1, ProbeRight DEF ProbeHeads, StartupInv, StartupTyped, Probes
<1>6. ASSUME NEW s \in Servers, LoseLease(s)
      PROVE  StartupInv'
    BY <1>6 DEF LoseLease, StartupInv, StartupTyped, BuildsRun, ReleaseLoads, ReadyIfCompiled, ReadyIsCurrent
<1> QED
    BY <1>1, <1>2, <1>3, <1>4, <1>5, <1>6, ProcessRight DEF ContentNext

-----------------------------------------------------------------------------
(* What a key was answered.                                                  *)

\* Every "created" answer is that of a record, a key has one record, and what it names exists.
RecordsRight ==
    /\ told = records
    /\ \A t \in records : t = [account |-> t.account, key |-> t.key, payload |-> t.payload, id |-> t.id]
    /\ \A t, u \in records : t.account = u.account /\ t.key = u.key => t = u
    /\ \A t \in records : \E c \in characters : c.id = t.id /\ c.owner = t.account

\* A key that is recorded is not refused, and is answered nothing else.
KeyKept ==
    \A r \in Requests : \A t \in told :
        at[r] \in Working /\ t.account = Account(r) /\ t.key = request[r].key
        => /\ at'[r] # "refused"
           /\ \A u \in told' : u.account = t.account /\ u.key = t.key => u = t

\* A step that records nothing, and refuses a request only if its key is not recorded.
LEMMA NothingTold ==
    ASSUME CreationInv, RecordsRight, UNCHANGED <<characters, records, told>>,
           \A r \in Requests : at[r] \in Working /\ at'[r] = "refused" => Recorded(r) = {}
    PROVE  RecordsRight' /\ KeyKept
<1>1. RecordsRight'
    BY DEF RecordsRight
<1>2. KeyKept
    BY DEF RecordsRight, KeyKept, Recorded
<1> QED
    BY <1>1, <1>2

LEMMA RefusedKept ==
    ASSUME CreationInv, RecordsRight, NEW r \in Requests, Refuse(r), Recorded(r) = {}
    PROVE  RecordsRight' /\ KeyKept
<1>1. \A q \in Requests \ {r} : at'[q] = at[q]
    BY FinishFrees DEF Refuse
<1> QED
    BY <1>1, NothingTold DEF Refuse, Working

LEMMA UnavailableKept ==
    ASSUME CreationInv, RecordsRight, NEW r \in Requests, Unavailable(r)
    PROVE  RecordsRight' /\ KeyKept
<1>1. at'[r] = "idle" /\ \A q \in Requests \ {r} : at'[q] = at[q]
    BY FinishFrees DEF Unavailable
<1> QED
    BY <1>1, NothingTold DEF Unavailable, Working

\* The recorded answer is the one told before.
LEMMA ReplayTells ==
    ASSUME CreationInv, RecordsRight, NEW r \in Requests, Replay(r)
    PROVE  RecordsRight' /\ KeyKept
<1>1. PICK t \in Recorded(r) : SamePayload(r, t) /\ told' = told \cup {Form(r, t.id)}
    BY DEF Replay
<1>2. Form(r, t.id) = t
  <2>1. t = [account |-> t.account, key |-> t.key, payload |-> t.payload, id |-> t.id]
      BY DEF RecordsRight, Recorded
  <2>2. t.account = Account(r) /\ t.key = request[r].key /\ t.payload = request[r].payload
      BY <1>1 DEF Recorded, SamePayload
  <2> QED
      BY <2>1, <2>2, Zenon DEF Form
<1>3. told' = told
    BY <1>1, <1>2 DEF RecordsRight, Recorded
<1>4. at'[r] = "idle" /\ \A q \in Requests \ {r} : at'[q] = at[q]
    BY FinishFrees DEF Replay
<1> QED
    BY <1>3, <1>4, NothingTold DEF Replay, Working

\* A character is recorded for a key that is not.
LEMMA InsertTells ==
    ASSUME CreationInv, RecordsRight, NEW r \in Requests, Insert(r)
    PROVE  RecordsRight' /\ KeyKept
<1> DEFINE id   == Cardinality(characters) + 1
           form == Form(r, id)
           row  == [id |-> id, owner |-> Account(r), name |-> Name(r)]
<1>1. /\ characters' = characters \cup {row}
      /\ records' = records \cup {form} /\ told' = told \cup {form}
    BY DEF Insert
<1>2. /\ form = [account |-> form.account, key |-> form.key, payload |-> form.payload, id |-> form.id]
      /\ form.account = Account(r) /\ form.key = request[r].key /\ form.id = id
      /\ row.id = id /\ row.owner = Account(r)
    BY DEF Form
<1>3. Recorded(r) = {}
    BY DEF Insert, CreationInv, FoundFree, Locking
<1>4. at'[r] = "idle" /\ \A q \in Requests \ {r} : at'[q] = at[q]
    BY FinishFrees DEF Insert
<1> HIDE DEF id, form, row
<1>5. \A t \in records : ~(t.account = form.account /\ t.key = form.key)
    BY <1>2, <1>3 DEF Recorded
<1>6. RecordsRight'
    BY <1>1, <1>2, <1>5 DEF RecordsRight
<1>7. KeyKept
    BY <1>1, <1>4, <1>5 DEF RecordsRight, KeyKept, Working
<1> QED
    BY <1>6, <1>7

LEMMA CreationTells ==
    ASSUME CreationInv, RecordsRight, NEW r \in Requests, CreationStep(r)
    PROVE  RecordsRight' /\ KeyKept
<1>1. CASE KeyConflict(r) \/ CreationFails(r)
    BY <1>1, UnavailableKept DEF KeyConflict, CreationFails
<1>2. CASE AtLimit(r) \/ RefuseInput(r)
    BY <1>2, RefusedKept DEF AtLimit, RefuseInput
<1>3. CASE NoStartRoom(r) \/ (CheckName(r) /\ NameTaken(r))
  <2>1. at[r] \in Locking /\ Refuse(r)
      BY <1>3 DEF NoStartRoom, HeadTurn, CheckName, Locking
  <2> QED
      BY <2>1, RefusedKept DEF CreationInv, FoundFree
<1>4. CASE LockAccount(r) \/ LockHead(r) \/ (CheckName(r) /\ ~NameTaken(r))
  <2>1. PICK place \in {"head", "name", "insert"} : at' = [at EXCEPT ![r] = place]
      BY <1>4 DEF LockAccount, LockHead, CheckName
  <2>2. \A q \in Requests : at[q] \in Working => at'[q] # "refused"
      BY <2>1 DEF CreationInv, RequestsTyped, Working
  <2>3. UNCHANGED <<characters, records, told>>
      BY <1>4 DEF LockAccount, LockHead, CheckName
  <2> QED
      BY <2>2, <2>3, NothingTold
<1> QED
    BY <1>1, <1>2, <1>3, <1>4, ReplayTells, InsertTells DEF CreationStep

LEMMA NextTells ==
    CreationInv /\ RecordsRight /\ [Next]_vars => RecordsRight' /\ [KeyKept]_vars
<1> SUFFICES ASSUME CreationInv, RecordsRight, [Next]_vars
             PROVE  RecordsRight' /\ KeyKept
    OBVIOUS
<1>1. ASSUME NEW r \in Requests, NEW s \in Servers, NEW call \in Calls, Send(r, s, call)
      PROVE  RecordsRight' /\ KeyKept
  <2>1. \A q \in Requests : at[q] \in Working => at'[q] # "refused"
      BY <1>1 DEF Send, CreationInv, RequestsTyped, Working
  <2> QED
      BY <1>1, <2>1, NothingTold DEF Send
<1>2. CASE UNCHANGED creationVars
    BY <1>2, NothingTold DEF creationVars, Working
<1> QED
    BY <1>1, <1>2, CreationTells DEF Next, vars

-----------------------------------------------------------------------------
(* Types, answers and readiness.                                             *)

LEMMA InitStartup == Init => StartupInv /\ RecordsRight
<1> SUFFICES ASSUME Init PROVE StartupInv /\ RecordsRight
    OBVIOUS
<1>1. StartupTyped /\ BuildsRun /\ ReleaseLoads
    BY DEF Init, ContentInit, StartupTyped, BuildsRun, ReleaseLoads, Outcomes, Probes, Processes
<1>2. ReadyIfCompiled
    BY DEF Init, ContentInit, ReadyIfCompiled, ReadyIsCurrent
<1>3. RecordsRight
    BY DEF Init, CreationInit, RecordsRight
<1> QED
    BY <1>1, <1>2, <1>3 DEF StartupInv

LEMMA NextStartup == ContentInv /\ StartupInv /\ [Next]_vars => StartupInv'
<1> SUFFICES ASSUME ContentInv, StartupInv, [Next]_vars PROVE StartupInv'
    OBVIOUS
<1>1. CASE ContentNext
    BY <1>1, StartupStep DEF ContentInv
<1>2. CASE UNCHANGED contentVars
    BY <1>2 DEF contentVars, StartupInv, StartupTyped, BuildsRun, ReleaseLoads, ReadyIfCompiled, ReadyIsCurrent
<1>3. CASE \E r \in Requests : CreationStep(r)
  <2>1. UNCHANGED contentVars
      BY <1>3 DEF CreationStep, Replay, KeyConflict, AtLimit, RefuseInput, LockAccount, LockHead,
                  NoStartRoom, CheckName, Insert, CreationFails, Unavailable, Refuse, Finish
  <2> QED
      BY <1>2, <2>1
<1> QED
    BY <1>1, <1>2, <1>3 DEF Next, Send, vars

LEMMA WholeInvariant == Spec => [](ContentInv /\ CreationInv /\ StartupInv /\ RecordsRight)
<1>1. Init => ContentInv /\ CreationInv
    BY InitContentInv, InitCreationInv DEF Init
<1> QED
    BY <1>1, InitStartup, NextInv, NextStartup, NextTells, PTL DEF Spec

\* Processes, requests and rows are well typed, a row lock is held exactly by the request that
\* needs it, and every recorded or told answer names a character of its account
\* (characters/services.py locks the account, then the release head, until the commit).
LEMMA CreationTypesHold == Spec => []CreationTypeOK
<1>1. ContentInv /\ CreationInv /\ StartupInv /\ RecordsRight => CreationTypeOK
  <2> SUFFICES ASSUME ContentInv, CreationInv, StartupInv, RecordsRight PROVE CreationTypeOK
      OBVIOUS
  <2>1. ContentTypeOK
      BY DEF ContentInv, ProcessesTyped, StartupInv, StartupTyped, ReleaseLoads, ContentTypeOK
  <2> QED
      BY <2>1 DEF CreationInv, RequestsTyped, LocksHeld, RecordsRight, CreationTypeOK
<1> QED
    BY <1>1, WholeInvariant, PTL

\* However many requests create characters at once, the row locks make sure that what one of
\* them checked still holds when it inserts: no unique constraint that create_character
\* translates is ever violated by it (characters/services.py:391).
THEOREM ConstraintsNeverBiteHolds == Spec => []ConstraintsNeverBite
<1>1. CreationInv /\ CreationTypeOK => ConstraintsNeverBite
    BY DEF CreationInv, FoundFree, ConstraintsNeverBite, Locking
<1> QED
    BY <1>1, WholeInvariant, CreationTypesHold, PTL

\* Once a call created a character, its key is neither refused nor answered anything else,
\* whatever the account, the names, the profiles and the servers became (services.py:323).
THEOREM RetryRepeatsHolds == Spec => RetryRepeats
<1>1. Spec => [][KeyKept]_vars
    BY WholeInvariant, NextTells, PTL DEF Spec
<1> QED
    BY <1>1, PTL DEF RetryRepeats, KeyKept

\* A process that says it is ready serves what its own build would have written, for any
\* processes and builds of which none accepts another one's release that differs from its own:
\* VerifiedIsCompiled says so of the compiler and of no state (runtime.py:124, startup.py:704).
THEOREM ReadyIsCurrentHolds == VerifiedIsCompiled /\ Spec => []ReadyIsCurrent
<1>1. StartupInv => (VerifiedIsCompiled => ReadyIsCurrent)
    BY DEF StartupInv, ReadyIfCompiled
<1>2. VerifiedIsCompiled => VerifiedIsCompiled'
    BY DEF VerifiedIsCompiled
<1>3. VerifiedIsCompiled => []VerifiedIsCompiled
    BY <1>2, PTL
<1> QED
    BY <1>1, <1>3, WholeInvariant, PTL
=============================================================================
