---------------------- MODULE VerificationDeliveryProofs ----------------------
(***************************************************************************)
(* Theorems about VerificationDelivery, for any challenges, workers, clients, *)
(* attempts, tries and crashes.                                             *)
(*                                                                         *)
(* No transaction holds all the locks, so what makes the rows agree is what   *)
(* each place of a process implies about the locks it holds and the rows      *)
(* these locks keep still (WorkerRight, ClientRight), and what the steps of    *)
(* the others may do meanwhile (Respects).                                  *)
(***************************************************************************)
EXTENDS VerificationDelivery, TLAPS

ScopePlaces  == {"scoped", "activating", "committing", "resetting"}
OutboxPlaces == {"activating", "committing", "condemning"}
WorkPlaces   == {"sending", "accepted", "failed", "rejected", "scoped"} \cup OutboxPlaces

-----------------------------------------------------------------------------
(* The invariant.                                                            *)

\* The columns of one challenge and its outbox, as every commit leaves them.
RowRight(c) ==
    /\ PayloadErased(ob[c], payload[c])
    /\ LeaseComplete(ob[c], owner[c] # Nobody)
    /\ ch[c] = "pending_delivery" <=> ob[c] \in Delivering
    /\ ch[c] \in {"active", "consumed", "expired", "locked"} => ob[c] = "delivered"
    /\ ch[c] = "delivery_failed" => ob[c] = "delivery_failed"
    /\ ch[c] = "active" => tries[c] < MaxTries
    /\ ch[c] = "none" => ob[c] = "none"
    /\ ch[c] \in {"none", "pending_delivery"} => tries[c] = 0
    /\ sends[c] <= attempts[c]

RowsRight == OneActive(purpose, ch) /\ \A c \in Challenges : RowRight(c)

\* A worker knows its challenge, an outbox it holds stays leased, and one that is about to
\* commit holds exactly the active challenges that its own replaces.
WorkerRight(w) ==
    /\ pc[w] \in WorkPlaces => task[w] \in Challenges
    /\ pc[w] \in ScopePlaces => scopeLock = w
    /\ \A c \in Challenges : chLock[c] = w => pc[w] = "committing"
    /\ pc[w] \in OutboxPlaces => obLock[task[w]] = w /\ ob[task[w]] = "leased"
    /\ pc[w] = "committing" =>
          /\ \A d \in Challenges \ {task[w]} : chLock[d] = w => ch[d] = "active"
          /\ \A d \in Rivals(task[w]) : chLock[d] = w

\* A reset about to commit holds every reset code it has seen that may still be used.
ClientRight(k) ==
    /\ pc[k] \in ScopePlaces => scopeLock = k
    /\ pc[k] \notin ScopePlaces => seen[k] = {}
    /\ \A d \in seen[k] : ch[d] # "none"
    /\ \A c \in Challenges : chLock[c] = k => pc[k] = "resetting"
    /\ pc[k] = "resetting" =>
          /\ task[k] \in Challenges
          /\ ch[task[k]] = "active"
          /\ \A d \in Challenges \ {task[k]} : chLock[d] = k => ch[d] \in Unfinished
          /\ \A d \in seen[k] : purpose[d] = "password_reset" =>
                d = task[k] \/ ch[d] \in Final \/ chLock[d] = k

DeliveryInv ==
    /\ DeliveryTypeOK
    /\ RowsRight
    /\ \A w \in Workers : WorkerRight(w)
    /\ \A k \in Clients : ClientRight(k)

-----------------------------------------------------------------------------
(* What a step of one process leaves alone.                                  *)

\* Process p, or nobody, moves; the rows that others have locked stay as they are, and nobody
\* makes a challenge active or ends one that is while another process has the advisory lock.
Respects(p) ==
    /\ \A q \in Processes \ {p} :
          /\ pc'[q] = pc[q] /\ task'[q] = task[q]
          /\ scopeLock = q => scopeLock' = q
          /\ \A c \in Challenges : obLock[c] = q => obLock'[c] = q /\ (ob[c] = "leased" => ob'[c] = "leased")
          /\ \A c \in Challenges : chLock[c] = q <=> chLock'[c] = q
          /\ \A c \in Challenges : chLock[c] = q /\ ch[c] # "none" => ch'[c] = ch[c]
          /\ scopeLock = q => \A c \in Challenges : ch[c] = "active" <=> ch'[c] = "active"
    /\ \A k \in Clients \ {p} : seen'[k] = seen[k]
    /\ \A c \in Challenges : ch[c] # "none" => purpose'[c] = purpose[c] /\ ch'[c] # "none"
    /\ \A c \in Challenges : ch[c] \in Final => ch'[c] \in Final

LEMMA WorkersRely ==
    ASSUME DeliveryInv, NEW p, Respects(p), NEW w \in Workers \ {p}
    PROVE  WorkerRight(w)'
<1>1. w \in Processes /\ WorkerRight(w)
    BY DEF DeliveryInv, Processes
<1>2. /\ pc'[w] = pc[w] /\ task'[w] = task[w]
      /\ scopeLock = w => scopeLock' = w
      /\ \A c \in Challenges : chLock[c] = w <=> chLock'[c] = w
    BY <1>1 DEF Respects
<1>3. pc[w] \in OutboxPlaces => obLock'[task[w]] = w /\ ob'[task[w]] = "leased"
    BY <1>1 DEF Respects, WorkerRight, WorkPlaces
<1>4. ASSUME pc[w] = "committing"
      PROVE  /\ \A d \in Challenges \ {task[w]} : chLock'[d] = w => ch'[d] = "active"
             /\ \A d \in Rivals(task[w])' : chLock'[d] = w
  <2>1. scopeLock = w /\ task[w] \in Challenges
      BY <1>1, <1>4 DEF WorkerRight, ScopePlaces, WorkPlaces, OutboxPlaces
  <2>2. \A d \in Challenges : ch[d] = "active" <=> ch'[d] = "active"
      BY <1>1, <2>1 DEF Respects
  <2>3. ch[task[w]] # "none"
      BY <1>1, <1>4, <2>1
      DEF WorkerRight, OutboxPlaces, DeliveryInv, RowsRight, RowRight, Delivering
  <2>4. \A d \in Challenges : ch[d] # "none" => purpose'[d] = purpose[d]
      BY DEF Respects
  <2>5. Rivals(task[w])' \subseteq Rivals(task[w])
      BY <1>2, <2>1, <2>2, <2>3, <2>4 DEF Rivals
  <2>6. \A d \in Rivals(task[w]) : chLock[d] = w
      BY <1>1, <1>4 DEF WorkerRight
  <2>7. \A d \in Rivals(task[w])' : chLock'[d] = w
      BY <1>2, <2>5, <2>6 DEF Rivals
  <2> QED
      BY <1>1, <1>2, <1>4, <2>2, <2>7 DEF WorkerRight
<1> QED
    BY <1>1, <1>2, <1>3, <1>4 DEF WorkerRight

LEMMA ClientsRely ==
    ASSUME DeliveryInv, NEW p, Respects(p), NEW k \in Clients \ {p}
    PROVE  ClientRight(k)'
<1>1. k \in Processes /\ ClientRight(k) /\ seen[k] \subseteq Challenges
    BY DEF DeliveryInv, DeliveryTypeOK, Processes
<1>2. /\ pc'[k] = pc[k] /\ task'[k] = task[k] /\ seen'[k] = seen[k]
      /\ scopeLock = k => scopeLock' = k
      /\ \A c \in Challenges : chLock[c] = k <=> chLock'[c] = k
      /\ \A c \in Challenges : chLock[c] = k /\ ch[c] # "none" => ch'[c] = ch[c]
    BY <1>1 DEF Respects
<1>3. \A d \in Challenges : ch[d] # "none" => purpose'[d] = purpose[d] /\ ch'[d] # "none"
    BY DEF Respects
<1>4. \A d \in Challenges : ch[d] \in Final => ch'[d] \in Final
    BY DEF Respects
<1>5. ASSUME pc[k] = "resetting"
      PROVE  ch'[task[k]] = "active"
  <2>1. scopeLock = k /\ task[k] \in Challenges /\ ch[task[k]] = "active"
      BY <1>1, <1>5 DEF ClientRight, ScopePlaces
  <2> QED
      BY <1>1, <2>1 DEF Respects
<1> QED
    BY <1>1, <1>2, <1>3, <1>4, <1>5 DEF ClientRight, Unfinished, ScopePlaces

\* A step is right if it respects the others, keeps the rows right, and leaves its own process
\* right.
LEMMA StepRight ==
    ASSUME DeliveryInv, NEW p \in Processes, DeliveryTypeOK', RowsRight', Respects(p),
           p \in Workers => WorkerRight(p)', p \in Clients => ClientRight(p)'
    PROVE  DeliveryInv'
    BY WorkersRely, ClientsRely DEF DeliveryInv

\* A step of time or of a new request.
LEMMA OutsideRight ==
    ASSUME DeliveryInv, DeliveryTypeOK', RowsRight', Respects(Nobody)
    PROVE  DeliveryInv'
    BY WorkersRely, ClientsRely, NobodyAssumption DEF DeliveryInv

-----------------------------------------------------------------------------
(* Steps of nobody.                                                          *)

LEMMA RequestStep ==
    ASSUME DeliveryInv, NEW c \in Challenges, NEW p \in Purposes, RequestVerification(c, p)
    PROVE  DeliveryInv'
<1>1. /\ ch[c] = "none" /\ ob[c] = "none" /\ RowRight(c)
      /\ ch' = [ch EXCEPT ![c] = "pending_delivery"]
      /\ ob' = [ob EXCEPT ![c] = "pending"]
      /\ payload' = [payload EXCEPT ![c] = TRUE]
      /\ purpose' = [purpose EXCEPT ![c] = p]
      /\ UNCHANGED <<tries, stale, owner, lapsed, attempts, registered, pc, task, aim, locks,
                     ghosts, circuit>>
    BY DEF RequestVerification, DeliveryInv, RowsRight, RowRight
<1>2. DeliveryTypeOK'
    BY <1>1 DEF DeliveryInv, DeliveryTypeOK, Unfinished, Delivering, locks, ghosts
<1>3. RowsRight'
  <2>1. OneActive(purpose, ch)'
      BY <1>1 DEF DeliveryInv, DeliveryTypeOK, RowsRight, OneActive
  <2>2. ASSUME NEW d \in Challenges
        PROVE  RowRight(d)'
      BY <1>1 DEF DeliveryInv, DeliveryTypeOK, RowsRight, RowRight, PayloadErased, LeaseComplete,
                  Delivering, ghosts
  <2> QED
      BY <2>1, <2>2 DEF RowsRight
<1>4. Respects(Nobody)
    BY <1>1, NobodyAssumption
    DEF Respects, DeliveryInv, DeliveryTypeOK, locks, ghosts, Processes, Final
<1> QED
    BY <1>2, <1>3, <1>4, OutsideRight

\* A step that leaves the rows and sends nothing leaves them right.
LEMMA RowsSame ==
    ASSUME RowsRight, UNCHANGED <<rowVars, sends>>
    PROVE  RowsRight'
    BY DEF RowsRight, RowRight, OneActive, PayloadErased, LeaseComplete, rowVars, codeVars, outVars

LEMMA TimeStep ==
    ASSUME DeliveryInv, NEW c \in Challenges, LeaseLapses(c) \/ ChallengeExpires(c)
    PROVE  DeliveryInv'
<1>1. UNCHANGED <<purpose, ch, tries, ob, owner, attempts, payload, registered, pc, task, aim, locks,
                  ghosts, circuit>>
    BY DEF LeaseLapses, ChallengeExpires, codeVars, outVars
<1>2. DeliveryTypeOK'
    BY DEF LeaseLapses, ChallengeExpires, codeVars, outVars, locks, ghosts, DeliveryInv, DeliveryTypeOK
<1>3. RowsRight'
    BY <1>1 DEF DeliveryInv, RowsRight, RowRight, OneActive, PayloadErased, LeaseComplete, ghosts
<1>4. Respects(Nobody)
    BY <1>1 DEF Respects, locks, ghosts
<1> QED
    BY <1>2, <1>3, <1>4, OutsideRight

-----------------------------------------------------------------------------
(* Steps of a process.                                                       *)

LEMMA NobodyIsNobody == Nobody \notin Processes
    BY NobodyAssumption DEF Processes

\* What giving up every lock does to the others and to the process itself.
LEMMA Released ==
    ASSUME DeliveryInv, NEW p \in Processes, Release(p)
    PROVE  /\ scopeLock' \in Processes \cup {Nobody}
           /\ obLock' \in [Challenges -> Workers \cup {Nobody}]
           /\ chLock' \in [Challenges -> Processes \cup {Nobody}]
           /\ \A c \in Challenges : obLock'[c] # p /\ chLock'[c] # p
           /\ \A q \in Processes \ {p} :
                 /\ scopeLock = q => scopeLock' = q
                 /\ \A c \in Challenges : obLock[c] = q => obLock'[c] = q
                 /\ \A c \in Challenges : chLock[c] = q <=> chLock'[c] = q
    BY NobodyIsNobody DEF Release, DeliveryInv, DeliveryTypeOK

\* A step of one process that leaves the rows and only takes locks that are free or its own.
LEMMA QuietRespects ==
    ASSUME DeliveryInv, NEW p \in Processes, UNCHANGED <<purpose, ch, ob>>,
           \A q \in Processes \ {p} :
              /\ pc'[q] = pc[q] /\ task'[q] = task[q]
              /\ scopeLock = q => scopeLock' = q
              /\ \A c \in Challenges : obLock[c] = q => obLock'[c] = q
              /\ \A c \in Challenges : chLock[c] = q <=> chLock'[c] = q,
           \A k \in Clients \ {p} : seen'[k] = seen[k]
    PROVE  Respects(p)
    BY DEF Respects

LEMMA TakeExhaustedStep ==
    ASSUME DeliveryInv, NEW w \in Workers, NEW c \in Challenges, TakeExhausted(w, c)
    PROVE  DeliveryInv'
<1>1. /\ pc[w] = "polled" /\ ob[c] = "leased" /\ obLock[c] = Nobody
      /\ obLock' = [obLock EXCEPT ![c] = w]
      /\ pc' = [pc EXCEPT ![w] = "condemning"]
      /\ task' = [task EXCEPT ![w] = c]
      /\ UNCHANGED <<rowVars, aim, scopeLock, chLock, ghosts, circuit>>
    BY DEF TakeExhausted, Exhausted, LockOutbox, Move
<1>2. w \in Processes /\ w \notin Clients
    BY ProcessesAssumption DEF Processes
<1>3. DeliveryTypeOK'
    BY <1>1, <1>2 DEF DeliveryInv, DeliveryTypeOK, WorkerPlaces, rowVars, codeVars, outVars, ghosts
<1>4. RowsRight'
    BY <1>1, RowsSame DEF DeliveryInv, ghosts
<1>5. Respects(w)
    BY <1>1, <1>2, QuietRespects, NobodyIsNobody
    DEF DeliveryInv, DeliveryTypeOK, rowVars, codeVars, outVars, ghosts
<1>6. WorkerRight(w)'
    BY <1>1, <1>2 DEF WorkerRight, DeliveryInv, DeliveryTypeOK, ScopePlaces, OutboxPlaces, WorkPlaces,
                      rowVars, codeVars, outVars
<1> QED
    BY <1>2, <1>3, <1>4, <1>5, <1>6, StepRight

\* Steps that move a worker between places where it holds nothing.
LEMMA PollStep ==
    ASSUME DeliveryInv, NEW w \in Workers,
           Poll(w) \/ NoneExhausted(w) \/ NothingToClaim(w) \/ Restart(w) \/ Send(w)
    PROVE  DeliveryInv'
<1>1. PICK to \in {"polled", "claiming", "idle", "accepted", "rejected", "failed"} :
         /\ pc' = [pc EXCEPT ![w] = to]
         /\ pc[w] \in {"idle", "polled", "claiming", "down", "sending"}
         /\ pc[w] = "sending" \/ to \in {"polled", "claiming", "idle"}
         /\ UNCHANGED <<rowVars, task, aim, locks, crashes, sends, seen>>
    BY DEF Poll, NoneExhausted, NothingToClaim, Restart, Send, Move, ghosts
<1>2. w \in Processes /\ w \notin Clients
    BY ProcessesAssumption DEF Processes
<1>3. mailed' \in [Challenges -> BOOLEAN] /\ circuit' \in {"open", "closed"}
    BY DEF Poll, NoneExhausted, NothingToClaim, Restart, Send, ghosts, DeliveryInv, DeliveryTypeOK
<1>4. DeliveryTypeOK'
    BY <1>1, <1>2, <1>3 DEF DeliveryInv, DeliveryTypeOK, WorkerPlaces, rowVars, codeVars, outVars, locks
<1>5. RowsRight'
    BY <1>1, RowsSame DEF DeliveryInv
<1>6. Respects(w)
    BY <1>1, <1>2, QuietRespects DEF DeliveryInv, DeliveryTypeOK, rowVars, codeVars, outVars, locks
<1>7. WorkerRight(w)'
    BY <1>1, <1>2 DEF WorkerRight, DeliveryInv, DeliveryTypeOK, ScopePlaces, OutboxPlaces, WorkPlaces,
                      rowVars, codeVars, outVars, locks
<1> QED
    BY <1>2, <1>4, <1>5, <1>6, <1>7, StepRight

\* RowRight follows for the rows that keep their columns.
LEMMA RowSame ==
    ASSUME DeliveryInv, NEW c \in Challenges,
           ch'[c] = ch[c], tries'[c] = tries[c], ob'[c] = ob[c], owner'[c] = owner[c],
           payload'[c] = payload[c], sends'[c] = sends[c], attempts'[c] = attempts[c]
    PROVE  RowRight(c)'
    BY DEF DeliveryInv, RowsRight, RowRight, PayloadErased, LeaseComplete

LEMMA ClaimStep ==
    ASSUME DeliveryInv, NEW w \in Workers, NEW c \in Challenges, Claim(w, c)
    PROVE  DeliveryInv'
<1>1. /\ pc[w] = "claiming" /\ ob[c] \in Delivering /\ attempts[c] < MaxAttempts /\ obLock[c] = Nobody
      /\ ob' = [ob EXCEPT ![c] = "leased"]
      /\ owner' = [owner EXCEPT ![c] = w]
      /\ lapsed' = [lapsed EXCEPT ![c] = FALSE]
      /\ pc' = [pc EXCEPT ![w] = "sending"]
      /\ task' = [task EXCEPT ![w] = c]
      /\ sends' = [sends EXCEPT ![c] = @ + 1]
      /\ attempts' = [attempts EXCEPT ![c] = @ + 1]
      /\ UNCHANGED <<codeVars, payload, registered, aim, locks, crashes, mailed, seen, circuit>>
    BY DEF Claim, Lease, Claimable, Move, Delivering
<1>2. w \in Processes /\ w \notin Clients /\ w # Nobody
    BY ProcessesAssumption, NobodyAssumption DEF Processes
<1>3. DeliveryTypeOK'
  <2>1. attempts[c] \in 0 .. MaxAttempts /\ attempts[c] + 1 \in 0 .. MaxAttempts
      BY <1>1, MaxAttemptsAssumption DEF DeliveryInv, DeliveryTypeOK
  <2>2. /\ attempts' \in [Challenges -> 0 .. MaxAttempts]
        /\ sends' \in [Challenges -> Nat]
      BY <1>1, <2>1 DEF DeliveryInv, DeliveryTypeOK
  <2> QED
      BY <1>1, <1>2, <2>2 DEF DeliveryInv, DeliveryTypeOK, WorkerPlaces, Delivering, codeVars, locks
<1>4. RowsRight'
  <2>1. ASSUME NEW d \in Challenges
        PROVE  RowRight(d)'
    <3>1. CASE d = c
      <4>1. RowRight(c) /\ attempts[c] \in Int /\ sends[c] \in Int
          BY MaxAttemptsAssumption DEF DeliveryInv, RowsRight, DeliveryTypeOK
      <4>2. /\ ob'[c] = "leased" /\ owner'[c] = w /\ ch'[c] = ch[c] /\ tries'[c] = tries[c]
            /\ payload'[c] = payload[c]
            /\ sends'[c] = sends[c] + 1 /\ attempts'[c] = attempts[c] + 1
          BY <1>1 DEF DeliveryInv, DeliveryTypeOK, codeVars
      <4> QED
          BY <1>1, <1>2, <3>1, <4>1, <4>2 DEF RowRight, PayloadErased, LeaseComplete, Delivering
    <3>2. CASE d # c
        BY <1>1, <3>2, RowSame DEF DeliveryInv, DeliveryTypeOK, codeVars
    <3> QED
        BY <3>1, <3>2
  <2> QED
      BY <1>1, <2>1 DEF DeliveryInv, RowsRight, OneActive, codeVars
<1>5. Respects(w)
    BY <1>1, <1>2, NobodyIsNobody
    DEF Respects, DeliveryInv, DeliveryTypeOK, codeVars, locks, Delivering
<1>6. WorkerRight(w)'
    BY <1>1, <1>2 DEF WorkerRight, DeliveryInv, DeliveryTypeOK, ScopePlaces, OutboxPlaces, WorkPlaces,
                      codeVars, locks
<1> QED
    BY <1>2, <1>3, <1>4, <1>5, <1>6, StepRight

LEMMA FinishLocksScopeStep ==
    ASSUME DeliveryInv, NEW w \in Workers, FinishLocksScope(w)
    PROVE  DeliveryInv'
<1>1. /\ pc[w] = "accepted" /\ scopeLock = Nobody /\ scopeLock' = w
      /\ pc' = [pc EXCEPT ![w] = "scoped"]
      /\ UNCHANGED <<rowVars, task, aim, obLock, chLock, ghosts, circuit>>
    BY DEF FinishLocksScope, Move
<1>2. w \in Processes /\ w \notin Clients
    BY ProcessesAssumption DEF Processes
<1>3. DeliveryTypeOK'
    BY <1>1, <1>2 DEF DeliveryInv, DeliveryTypeOK, WorkerPlaces, rowVars, codeVars, outVars, ghosts
<1>4. RowsRight'
    BY <1>1, RowsSame DEF DeliveryInv, ghosts
<1>5. Respects(w)
    BY <1>1, <1>2, QuietRespects, NobodyIsNobody
    DEF DeliveryInv, DeliveryTypeOK, rowVars, codeVars, outVars, ghosts
<1>6. WorkerRight(w)'
    BY <1>1, <1>2 DEF WorkerRight, DeliveryInv, DeliveryTypeOK, ScopePlaces, OutboxPlaces, WorkPlaces,
                      rowVars, codeVars, outVars
<1> QED
    BY <1>2, <1>3, <1>4, <1>5, <1>6, StepRight

\* A worker is done: it holds nothing, whatever it wrote into rows it held.
LEMMA WorkerDone ==
    ASSUME DeliveryInv, NEW w \in Workers, NEW to \in {"idle", "down"}, Done(w, to)
    PROVE  /\ pc' \in [Processes -> WorkerPlaces \cup ClientPlaces]
           /\ \A v \in Workers : pc'[v] \in WorkerPlaces
           /\ \A k \in Clients : pc'[k] \in ClientPlaces
           /\ task' \in [Processes -> Challenges \cup {NoChallenge}]
           /\ WorkerRight(w)'
           /\ \A q \in Processes \ {w} : pc'[q] = pc[q] /\ task'[q] = task[q]
<1>1. w \in Processes /\ w \notin Clients
    BY ProcessesAssumption DEF Processes
<1>2. /\ pc' = [pc EXCEPT ![w] = to]
      /\ task' = [task EXCEPT ![w] = NoChallenge]
      /\ Release(w)
    BY DEF Done
<1>3. pc'[w] = to
    BY <1>1, <1>2 DEF DeliveryInv, DeliveryTypeOK
<1>4. WorkerRight(w)'
    BY <1>1, <1>2, <1>3, Released DEF WorkerRight, ScopePlaces, OutboxPlaces, WorkPlaces
<1> QED
    BY <1>1, <1>2, <1>4 DEF DeliveryInv, DeliveryTypeOK, WorkerPlaces

\* A worker gives up without writing: a stale claim, a crash.
LEMMA WorkerQuits ==
    ASSUME DeliveryInv, NEW w \in Workers, NEW to \in {"idle", "down"}, Done(w, to),
           UNCHANGED <<rowVars, aim, mailed, sends, seen, circuit>>, crashes' \in 0 .. MaxCrashes
    PROVE  DeliveryInv'
<1>1. w \in Processes /\ w \notin Clients
    BY ProcessesAssumption DEF Processes
<1>2. Release(w)
    BY DEF Done
<1>3. DeliveryTypeOK'
    BY <1>1, <1>2, WorkerDone, Released DEF DeliveryInv, DeliveryTypeOK, rowVars, codeVars, outVars
<1>4. RowsRight'
    BY RowsSame DEF DeliveryInv
<1>5. Respects(w)
    BY <1>1, <1>2, WorkerDone, Released, QuietRespects DEF rowVars, codeVars, outVars
<1> QED
    BY <1>1, <1>3, <1>4, <1>5, WorkerDone, StepRight

LEMMA CrashStep ==
    ASSUME DeliveryInv, NEW w \in Workers, Crash(w)
    PROVE  DeliveryInv'
<1>1. crashes' \in 0 .. MaxCrashes
    BY MaxCrashesAssumption DEF Crash, DeliveryInv, DeliveryTypeOK
<1> QED
    BY <1>1, WorkerQuits DEF Crash

LEMMA FinishLocksOutboxStep ==
    ASSUME DeliveryInv, NEW w \in Workers, FinishLocksOutbox(w)
    PROVE  DeliveryInv'
<1>1. CASE ~ClaimHolds(w) /\ Done(w, "idle")
  <2>1. UNCHANGED <<rowVars, aim, mailed, sends, seen, circuit>> /\ crashes' \in 0 .. MaxCrashes
      BY DEF FinishLocksOutbox, ghosts, DeliveryInv, DeliveryTypeOK
  <2> QED
      BY <1>1, <2>1, WorkerQuits
<1>2. CASE ClaimHolds(w) /\ LockOutbox(w, task[w]) /\ Move(w, "activating")
           /\ UNCHANGED <<task, scopeLock, chLock>>
  <2>1. w \in Processes /\ w \notin Clients
      BY ProcessesAssumption DEF Processes
  <2>2. /\ pc[w] = "scoped" /\ scopeLock = w /\ task[w] \in Challenges
        /\ obLock[task[w]] = Nobody /\ ob[task[w]] = "leased"
        /\ obLock' = [obLock EXCEPT ![task[w]] = w]
        /\ pc' = [pc EXCEPT ![w] = "activating"]
        /\ UNCHANGED <<rowVars, aim, ghosts, circuit, task, scopeLock, chLock>>
      BY <1>2 DEF FinishLocksOutbox, ClaimHolds, LockOutbox, Move, DeliveryInv, WorkerRight,
                  ScopePlaces, WorkPlaces
  <2>3. DeliveryTypeOK'
      BY <2>1, <2>2 DEF DeliveryInv, DeliveryTypeOK, WorkerPlaces, rowVars, codeVars, outVars, ghosts
  <2>4. RowsRight'
      BY <2>2, RowsSame DEF DeliveryInv, ghosts
  <2>5. Respects(w)
      BY <2>1, <2>2, QuietRespects, NobodyIsNobody
      DEF DeliveryInv, DeliveryTypeOK, rowVars, codeVars, outVars, ghosts
  <2>6. WorkerRight(w)'
      BY <2>1, <2>2 DEF WorkerRight, DeliveryInv, DeliveryTypeOK, ScopePlaces, OutboxPlaces, WorkPlaces,
                        rowVars, codeVars, outVars
  <2> QED
      BY <2>1, <2>3, <2>4, <2>5, <2>6, StepRight
<1> QED
    BY <1>1, <1>2 DEF FinishLocksOutbox

LEMMA FinishLocksChallengesStep ==
    ASSUME DeliveryInv, NEW w \in Workers, FinishLocksChallenges(w)
    PROVE  DeliveryInv'
<1> DEFINE S == {task[w]} \cup Rivals(task[w])
<1>1. w \in Processes /\ w \notin Clients /\ w # Nobody
    BY ProcessesAssumption, NobodyAssumption DEF Processes
<1>2. /\ pc[w] = "activating" /\ scopeLock = w /\ task[w] \in Challenges
      /\ obLock[task[w]] = w /\ ob[task[w]] = "leased"
      /\ \A c \in Challenges : chLock[c] # w
      /\ \A c \in S : chLock[c] = Nobody
      /\ chLock' = [c \in Challenges |-> IF c \in S THEN w ELSE chLock[c]]
      /\ pc' = [pc EXCEPT ![w] = "committing"]
      /\ UNCHANGED <<rowVars, task, aim, scopeLock, obLock, ghosts, circuit>>
    BY DEF FinishLocksChallenges, LockRows, Move, DeliveryInv, WorkerRight, ScopePlaces, OutboxPlaces,
           WorkPlaces
<1>3. \A d \in S : d = task[w] \/ ch[d] = "active"
    BY DEF Rivals
<1>4. Rivals(task[w])' = Rivals(task[w])
    BY <1>2 DEF Rivals, rowVars, codeVars
<1>5. Rivals(task[w]) \subseteq S /\ S \subseteq Challenges
    BY <1>2 DEF Rivals
<1> HIDE DEF S
<1>6. DeliveryTypeOK'
    BY <1>1, <1>2 DEF DeliveryInv, DeliveryTypeOK, WorkerPlaces, rowVars, codeVars, outVars, ghosts
<1>7. RowsRight'
    BY <1>2, RowsSame DEF DeliveryInv, ghosts
<1>8. Respects(w)
    BY <1>1, <1>2, QuietRespects, NobodyIsNobody
    DEF DeliveryInv, DeliveryTypeOK, rowVars, codeVars, outVars, ghosts
<1>9. WorkerRight(w)'
  <2>1. pc'[w] = "committing" /\ task'[w] = task[w]
      BY <1>1, <1>2 DEF DeliveryInv, DeliveryTypeOK
  <2>2. \A d \in Challenges \ {task[w]} : chLock'[d] = w => ch'[d] = "active"
      BY <1>2, <1>3 DEF rowVars, codeVars
  <2>3. \A d \in Rivals(task[w]) : chLock'[d] = w
      BY <1>2, <1>5
  <2> QED
      BY <1>2, <1>4, <2>1, <2>2, <2>3 DEF WorkerRight, rowVars, outVars
<1> QED
    BY <1>1, <1>6, <1>7, <1>8, <1>9, StepRight

\* What the steps that close outboxes make of each row.
LEMMA Closed ==
    ASSUME DeliveryTypeOK, NEW S, NEW state, CloseOutboxes(S, state), NEW c \in Challenges
    PROVE  /\ c \in S => /\ ob'[c] = state /\ owner'[c] = Nobody /\ payload'[c] = FALSE
                         /\ attempts'[c] = attempts[c]
           /\ c \notin S => /\ ob'[c] = ob[c] /\ owner'[c] = owner[c] /\ payload'[c] = payload[c]
                            /\ attempts'[c] = attempts[c]
    BY DEF CloseOutboxes

LEMMA ClosedTypes ==
    ASSUME DeliveryTypeOK, NEW S, NEW state \in Delivered, CloseOutboxes(S, state)
    PROVE  /\ ob' \in [Challenges -> {"none"} \cup Delivering \cup Delivered]
           /\ owner' \in [Challenges -> Workers \cup {Nobody}]
           /\ lapsed' \in [Challenges -> BOOLEAN]
           /\ payload' \in [Challenges -> BOOLEAN]
           /\ attempts' \in [Challenges -> 0 .. MaxAttempts]
    BY DEF CloseOutboxes, DeliveryTypeOK

LEMMA FinishCommitsStep ==
    ASSUME DeliveryInv, NEW w \in Workers, FinishCommits(w)
    PROVE  DeliveryInv'
<1>1. w \in Processes /\ w \notin Clients /\ w # Nobody
    BY ProcessesAssumption, NobodyAssumption DEF Processes
<1>2. PICK t \in Challenges :
         /\ t = task[w] /\ pc[w] = "committing" /\ scopeLock = w
         /\ obLock[t] = w /\ ob[t] = "leased" /\ ch[t] = "pending_delivery"
         /\ \A d \in Challenges \ {t} : chLock[d] = w => ch[d] = "active"
         /\ \A d \in Rivals(t) : chLock[d] = w
  <2>1. WorkerRight(w) /\ RowRight(task[w])
      BY DEF FinishCommits, DeliveryInv, RowsRight, WorkerRight, OutboxPlaces, WorkPlaces
  <2> QED
      BY <2>1 DEF FinishCommits, WorkerRight, RowRight, OutboxPlaces, WorkPlaces, ScopePlaces, Delivering
<1>3. /\ CloseOutboxes({t}, "delivered") /\ Done(w, "idle") /\ Release(w)
      /\ stale' = [stale EXCEPT ![t] = FALSE]
      /\ UNCHANGED <<purpose, tries, registered, aim, ghosts, circuit>>
    BY <1>2 DEF FinishCommits, Done
<1>4. /\ ch' \in [Challenges -> {"none"} \cup Unfinished \cup Final]
      /\ ch'[t] = "active"
      /\ \A d \in Challenges \ {t} : ch'[d] = IF chLock[d] = w THEN "superseded" ELSE ch[d]
    BY <1>2 DEF FinishCommits, DeliveryInv, DeliveryTypeOK, Unfinished, Final
<1>5. DeliveryTypeOK'
    BY <1>1, <1>3, <1>4, WorkerDone, Released, ClosedTypes
    DEF DeliveryInv, DeliveryTypeOK, ghosts, Delivered
<1>6. RowsRight'
  <2>1. OneActive(purpose, ch)'
    <3> SUFFICES ASSUME NEW c \in Challenges, NEW d \in Challenges, c # d,
                        ch'[c] = "active", ch'[d] = "active", purpose[c] = purpose[d]
                 PROVE  FALSE
        BY <1>3, <1>4 DEF OneActive
    <3>1. c # t => ch[c] = "active" /\ chLock[c] # w
        BY <1>4
    <3>2. d # t => ch[d] = "active" /\ chLock[d] # w
        BY <1>4
    <3>3. c # t /\ d # t
        BY <1>2, <3>1, <3>2 DEF Rivals
    <3> QED
        BY <3>1, <3>2, <3>3 DEF DeliveryInv, DeliveryTypeOK, RowsRight, OneActive
  <2>2. RowRight(t)'
    <3>1. RowRight(t) /\ tries'[t] = tries[t] /\ sends'[t] = sends[t]
        BY <1>3 DEF DeliveryInv, RowsRight, ghosts
    <3>2. ob'[t] = "delivered" /\ payload'[t] = FALSE /\ attempts'[t] = attempts[t]
        BY <1>3 DEF CloseOutboxes, DeliveryInv, DeliveryTypeOK
    <3> QED
        BY <1>2, <1>4, <3>1, <3>2, MaxTriesAssumption
        DEF RowRight, PayloadErased, LeaseComplete, Delivering
  <2>3. ASSUME NEW d \in Challenges \ {t}
        PROVE  RowRight(d)'
    <3>1. /\ RowRight(d) /\ tries'[d] = tries[d] /\ sends'[d] = sends[d]
          /\ ob'[d] = ob[d] /\ owner'[d] = owner[d] /\ payload'[d] = payload[d]
          /\ attempts'[d] = attempts[d]
        BY <1>3, Closed DEF DeliveryInv, RowsRight, ghosts
    <3> QED
        BY <1>2, <1>4, <3>1 DEF RowRight, PayloadErased, LeaseComplete, Delivering
  <2> QED
      BY <2>1, <2>2, <2>3 DEF RowsRight
<1>7. Respects(w)
  <2>1. ASSUME NEW q \in Processes \ {w}
        PROVE  /\ scopeLock # q
               /\ pc'[q] = pc[q] /\ task'[q] = task[q]
               /\ scopeLock = q => scopeLock' = q
               /\ \A c \in Challenges : chLock[c] = q <=> chLock'[c] = q
               /\ \A c \in Challenges : obLock[c] = q =>
                     obLock'[c] = q /\ (ob[c] = "leased" => ob'[c] = "leased")
    <3>1. \A c \in Challenges : obLock[c] = q => c # t
        BY <1>2
    <3>2. \A c \in Challenges \ {t} : ob'[c] = ob[c]
        BY <1>3, Closed DEF DeliveryInv
    <3>3. /\ scopeLock # q
          /\ pc'[q] = pc[q] /\ task'[q] = task[q]
        BY <1>2, <1>3, WorkerDone
    <3>4. /\ \A c \in Challenges : chLock[c] = q <=> chLock'[c] = q
          /\ \A c \in Challenges : obLock[c] = q => obLock'[c] = q
        BY <1>1, <1>3, Released
    <3> QED
        BY <3>1, <3>2, <3>3, <3>4
  <2>2. ASSUME NEW q \in Processes \ {w}, NEW c \in Challenges, chLock[c] = q
        PROVE  ch'[c] = ch[c]
    <3>1. q \in Workers => WorkerRight(q)
        BY DEF DeliveryInv
    <3>2. q \in Clients => ClientRight(q)
        BY DEF DeliveryInv
    <3>3. q \in Workers \cup Clients
        BY DEF Processes
    <3> QED
        BY <1>2, <2>1, <2>2, <3>1, <3>2, <3>3 DEF WorkerRight, ClientRight, ScopePlaces
  <2>3. \A c \in Challenges : ch[c] # "none" => ch'[c] # "none"
      BY <1>4
  <2>4. \A c \in Challenges : ch[c] \in Final => ch'[c] \in Final
      BY <1>2, <1>4 DEF Final
  <2> QED
      BY <1>3, <2>1, <2>2, <2>3, <2>4 DEF Respects, ghosts
<1> QED
    BY <1>1, <1>3, <1>5, <1>6, <1>7, WorkerDone, StepRight

\* A worker that only changes the row it took the outbox of, and leaves no challenge active or
\* ended otherwise than it was.
LEMMA RecordFailureStep ==
    ASSUME DeliveryInv, NEW w \in Workers, RecordFailure(w)
    PROVE  DeliveryInv'
<1>1. w \in Processes /\ w \notin Clients /\ w # Nobody
    BY ProcessesAssumption, NobodyAssumption DEF Processes
<1>2. PICK t \in Challenges :
         t = task[w] /\ pc[w] \in {"failed", "rejected"} /\ obLock[t] = Nobody
    BY DEF RecordFailure, DeliveryInv, WorkerRight, WorkPlaces
<1>3. UNCHANGED <<codeVars, registered, aim, ghosts, circuit>>
    BY DEF RecordFailure
<1>4. CASE Done(w, "idle") /\ UNCHANGED outVars
  <2>1. UNCHANGED <<rowVars, aim, mailed, sends, seen, circuit>> /\ crashes' \in 0 .. MaxCrashes
      BY <1>3, <1>4 DEF rowVars, ghosts, DeliveryInv, DeliveryTypeOK
  <2> QED
      BY <1>4, <2>1, WorkerQuits
<1>5. CASE /\ ClaimHolds(w)
           /\ ob' = [ob EXCEPT ![task[w]] = "pending"]
           /\ owner' = [owner EXCEPT ![task[w]] = Nobody]
           /\ lapsed' = [lapsed EXCEPT ![task[w]] = FALSE]
           /\ Done(w, "idle")
           /\ UNCHANGED <<attempts, payload>>
  <2>1. ob[t] = "leased" /\ Release(w)
      BY <1>2, <1>5 DEF ClaimHolds, Done
  <2>2. DeliveryTypeOK'
      BY <1>1, <1>2, <1>3, <1>5, <2>1, WorkerDone, Released
      DEF DeliveryInv, DeliveryTypeOK, ghosts, codeVars, Delivering
  <2>3. ASSUME NEW d \in Challenges
        PROVE  RowRight(d)'
    <3>1. CASE d = t
      <4>1. RowRight(t)
          BY DEF DeliveryInv, RowsRight
      <4>2. /\ ob'[t] = "pending" /\ payload'[t] = payload[t] /\ ch'[t] = ch[t]
            /\ tries'[t] = tries[t] /\ sends'[t] = sends[t] /\ attempts'[t] = attempts[t]
          BY <1>2, <1>3, <1>5 DEF DeliveryInv, DeliveryTypeOK, codeVars, ghosts
      <4> QED
          BY <2>1, <3>1, <4>1, <4>2 DEF RowRight, PayloadErased, LeaseComplete, Delivering
    <3>2. CASE d # t
        BY <1>2, <1>3, <1>5, <3>2, RowSame DEF DeliveryInv, DeliveryTypeOK, codeVars, ghosts
    <3> QED
        BY <3>1, <3>2
  <2>4. RowsRight'
      BY <1>3, <2>3 DEF DeliveryInv, RowsRight, OneActive, codeVars
  <2>5. Respects(w)
    <3>1. \A q \in Processes : obLock[t] # q
        BY <1>2, NobodyIsNobody
    <3>2. \A c \in Challenges \ {t} : ob'[c] = ob[c]
        BY <1>2, <1>5 DEF DeliveryInv, DeliveryTypeOK
    <3> QED
        BY <1>1, <1>3, <1>5, <2>1, <3>1, <3>2, WorkerDone, Released DEF Respects, codeVars, ghosts
  <2> QED
      BY <1>1, <1>5, <2>2, <2>4, <2>5, WorkerDone, StepRight
<1>6. CASE ClaimHolds(w) /\ LockOutbox(w, task[w]) /\ Move(w, "condemning")
           /\ UNCHANGED <<outVars, task, scopeLock, chLock>>
  <2>1. /\ ob[t] = "leased"
        /\ obLock' = [obLock EXCEPT ![t] = w]
        /\ pc' = [pc EXCEPT ![w] = "condemning"]
        /\ UNCHANGED <<rowVars, aim, ghosts, circuit, task, scopeLock, chLock>>
      BY <1>2, <1>3, <1>6 DEF ClaimHolds, LockOutbox, Move, rowVars
  <2>2. DeliveryTypeOK'
      BY <1>1, <2>1 DEF DeliveryInv, DeliveryTypeOK, WorkerPlaces, rowVars, codeVars, outVars, ghosts
  <2>3. RowsRight'
      BY <2>1, RowsSame DEF DeliveryInv, ghosts
  <2>4. Respects(w)
      BY <1>1, <1>2, <2>1, QuietRespects, NobodyIsNobody
      DEF DeliveryInv, DeliveryTypeOK, rowVars, codeVars, outVars, ghosts
  <2>5. WorkerRight(w)'
      BY <1>1, <1>2, <2>1 DEF WorkerRight, DeliveryInv, DeliveryTypeOK, ScopePlaces, OutboxPlaces,
                              WorkPlaces, rowVars, codeVars, outVars
  <2> QED
      BY <1>1, <2>2, <2>3, <2>4, <2>5, StepRight
<1> QED
    BY <1>4, <1>5, <1>6 DEF RecordFailure

LEMMA CondemnStep ==
    ASSUME DeliveryInv, NEW w \in Workers, Condemn(w)
    PROVE  DeliveryInv'
<1>1. w \in Processes /\ w \notin Clients /\ w # Nobody
    BY ProcessesAssumption, NobodyAssumption DEF Processes
<1>2. PICK t \in Challenges :
         /\ t = task[w] /\ pc[w] = "condemning" /\ chLock[t] = Nobody
         /\ obLock[t] = w /\ ob[t] = "leased" /\ ch[t] = "pending_delivery"
  <2>1. WorkerRight(w) /\ RowRight(task[w])
      BY DEF Condemn, DeliveryInv, RowsRight, WorkerRight, OutboxPlaces, WorkPlaces
  <2> QED
      BY <2>1 DEF Condemn, WorkerRight, RowRight, OutboxPlaces, WorkPlaces, Delivering
<1>3. /\ CloseOutboxes({t}, "delivery_failed") /\ Done(w, "idle") /\ Release(w)
      /\ ch' = [ch EXCEPT ![t] = "delivery_failed"]
      /\ UNCHANGED <<purpose, tries, stale, registered, aim, ghosts, circuit>>
    BY <1>2 DEF Condemn, Done, DeliveryInv, DeliveryTypeOK
<1>4. DeliveryTypeOK'
    BY <1>1, <1>3, WorkerDone, Released, ClosedTypes
    DEF DeliveryInv, DeliveryTypeOK, ghosts, Delivered, Final
<1>5. RowsRight'
  <2>1. OneActive(purpose, ch)'
      BY <1>3 DEF DeliveryInv, DeliveryTypeOK, RowsRight, OneActive
  <2>2. RowRight(t)'
    <3>1. RowRight(t) /\ tries'[t] = tries[t] /\ sends'[t] = sends[t] /\ ch'[t] = "delivery_failed"
        BY <1>3 DEF DeliveryInv, DeliveryTypeOK, RowsRight, ghosts
    <3>2. ob'[t] = "delivery_failed" /\ payload'[t] = FALSE /\ attempts'[t] = attempts[t]
        BY <1>3 DEF CloseOutboxes, DeliveryInv, DeliveryTypeOK
    <3> QED
        BY <1>2, <3>1, <3>2 DEF RowRight, PayloadErased, LeaseComplete, Delivering
  <2>3. ASSUME NEW d \in Challenges \ {t}
        PROVE  RowRight(d)'
      BY <1>3, Closed, RowSame DEF DeliveryInv, DeliveryTypeOK, ghosts
  <2> QED
      BY <2>1, <2>2, <2>3 DEF RowsRight
<1>6. Respects(w)
  <2>1. \A c \in Challenges \ {t} : ch'[c] = ch[c] /\ ob'[c] = ob[c]
      BY <1>3, Closed DEF DeliveryInv, DeliveryTypeOK
  <2>2. \A q \in Processes \ {w} : obLock[t] # q /\ chLock[t] # q
      BY <1>2, NobodyIsNobody
  <2>3. ch'[t] = "delivery_failed"
      BY <1>3 DEF DeliveryInv, DeliveryTypeOK
  <2> QED
      BY <1>1, <1>2, <1>3, <2>1, <2>2, <2>3, WorkerDone, Released DEF Respects, ghosts, Final
<1> QED
    BY <1>1, <1>3, <1>4, <1>5, <1>6, WorkerDone, StepRight

-----------------------------------------------------------------------------
(* Steps of a client.                                                        *)

\* A client is done: it holds nothing and has seen nothing.
LEMMA ClientDone ==
    ASSUME DeliveryInv, NEW k \in Clients, Answer(k)
    PROVE  /\ pc' \in [Processes -> WorkerPlaces \cup ClientPlaces]
           /\ \A v \in Workers : pc'[v] \in WorkerPlaces
           /\ \A m \in Clients : pc'[m] \in ClientPlaces
           /\ task' \in [Processes -> Challenges \cup {NoChallenge}]
           /\ aim' \in [Clients -> Purposes]
           /\ seen' \in [Clients -> SUBSET Challenges]
           /\ Release(k)
           /\ ClientRight(k)'
           /\ \A q \in Processes \ {k} : pc'[q] = pc[q] /\ task'[q] = task[q]
           /\ \A m \in Clients \ {k} : seen'[m] = seen[m]
<1>1. k \in Processes /\ k \notin Workers
    BY ProcessesAssumption DEF Processes
<1>2. /\ pc' = [pc EXCEPT ![k] = "idle"]
      /\ task' = [task EXCEPT ![k] = NoChallenge]
      /\ aim' = [aim EXCEPT ![k] = "password_reset"]
      /\ seen' = [seen EXCEPT ![k] = {}]
      /\ Release(k)
    BY DEF Answer, Done
<1>3. pc'[k] = "idle" /\ seen'[k] = {}
    BY <1>1, <1>2 DEF DeliveryInv, DeliveryTypeOK
<1>4. ClientRight(k)'
    BY <1>1, <1>2, <1>3, Released DEF ClientRight, ScopePlaces
<1> QED
    BY <1>1, <1>2, <1>4 DEF DeliveryInv, DeliveryTypeOK, ClientPlaces, Purposes

\* A client ends its call without writing.
LEMMA ClientQuits ==
    ASSUME DeliveryInv, NEW k \in Clients, ConfirmRefused(k) \/ ConfirmFails(k)
    PROVE  DeliveryInv'
<1>1. k \in Processes /\ k \notin Workers
    BY ProcessesAssumption DEF Processes
<1>2. Answer(k) /\ UNCHANGED <<rowVars, crashes, mailed, sends, circuit>>
    BY DEF ConfirmRefused, ConfirmFails
<1>3. DeliveryTypeOK'
    BY <1>1, <1>2, ClientDone, Released DEF DeliveryInv, DeliveryTypeOK, rowVars, codeVars, outVars
<1>4. RowsRight'
    BY <1>2, RowsSame DEF DeliveryInv
<1>5. Respects(k)
    BY <1>1, <1>2, ClientDone, Released, QuietRespects DEF rowVars, codeVars, outVars
<1> QED
    BY <1>1, <1>2, <1>3, <1>4, <1>5, ClientDone, StepRight

LEMMA ConfirmBeginsStep ==
    ASSUME DeliveryInv, NEW k \in Clients, NEW p \in Purposes, NEW x \in Challenges \cup {NoChallenge},
           ConfirmBegins(k, p, x)
    PROVE  DeliveryInv'
<1>1. k \in Processes /\ k \notin Workers
    BY ProcessesAssumption DEF Processes
<1>2. /\ pc[k] = "idle"
      /\ pc' = [pc EXCEPT ![k] = "confirming"]
      /\ task' = [task EXCEPT ![k] = x]
      /\ aim' = [aim EXCEPT ![k] = p]
      /\ UNCHANGED <<rowVars, locks, ghosts, circuit>>
    BY DEF ConfirmBegins, Move
<1>3. DeliveryTypeOK'
    BY <1>1, <1>2 DEF DeliveryInv, DeliveryTypeOK, ClientPlaces, rowVars, codeVars, outVars, locks, ghosts
<1>4. RowsRight'
    BY <1>2, RowsSame DEF DeliveryInv, ghosts
<1>5. Respects(k)
    BY <1>1, <1>2, QuietRespects
    DEF DeliveryInv, DeliveryTypeOK, rowVars, codeVars, outVars, locks, ghosts
<1>6. ClientRight(k)'
    BY <1>1, <1>2 DEF ClientRight, DeliveryInv, DeliveryTypeOK, ScopePlaces, rowVars, codeVars, outVars,
                      locks, ghosts
<1> QED
    BY <1>1, <1>3, <1>4, <1>5, <1>6, StepRight

LEMMA ConfirmLocksScopeStep ==
    ASSUME DeliveryInv, NEW k \in Clients, ConfirmLocksScope(k)
    PROVE  DeliveryInv'
<1>1. k \in Processes /\ k \notin Workers
    BY ProcessesAssumption DEF Processes
<1>2. /\ pc[k] = "confirming" /\ scopeLock = Nobody /\ scopeLock' = k
      /\ pc' = [pc EXCEPT ![k] = "scoped"]
      /\ seen' = [seen EXCEPT ![k] = {c \in Challenges : ch[c] # "none"}]
      /\ UNCHANGED <<rowVars, task, aim, obLock, chLock, crashes, mailed, sends, circuit>>
    BY DEF ConfirmLocksScope, Move
<1>3. DeliveryTypeOK'
    BY <1>1, <1>2 DEF DeliveryInv, DeliveryTypeOK, ClientPlaces, rowVars, codeVars, outVars
<1>4. RowsRight'
    BY <1>2, RowsSame DEF DeliveryInv
<1>5. Respects(k)
    BY <1>1, <1>2, QuietRespects, NobodyIsNobody
    DEF DeliveryInv, DeliveryTypeOK, rowVars, codeVars, outVars
<1>6. ClientRight(k)'
    BY <1>1, <1>2 DEF ClientRight, DeliveryInv, DeliveryTypeOK, ScopePlaces, rowVars, codeVars, outVars
<1> QED
    BY <1>1, <1>3, <1>4, <1>5, <1>6, StepRight

\* Behind the advisory lock a client decides on the active challenge, that nobody holds: it
\* counts a guess or ends the challenge.
LEMMA CodeUsed ==
    ASSUME DeliveryInv, NEW k \in Clients, NEW c \in Challenges, Finds(k, c), Answer(k),
           NEW x \in {"active", "expired", "locked", "consumed"}, ch' = [ch EXCEPT ![c] = x],
           NEW n \in 0 .. MaxTries, tries' = [tries EXCEPT ![c] = n], x = "active" => n < MaxTries,
           registered' \in BOOLEAN, UNCHANGED <<purpose, stale, outVars, crashes, mailed, sends, circuit>>
    PROVE  DeliveryInv'
<1>1. k \in Processes /\ k \notin Workers
    BY ProcessesAssumption DEF Processes
<1>2. scopeLock = k /\ ch[c] = "active" /\ chLock[c] = Nobody
    BY DEF Finds, Candidates, DeliveryInv, ClientRight, ScopePlaces
<1>3. /\ ch'[c] = x /\ tries'[c] = n
      /\ \A d \in Challenges \ {c} : ch'[d] = ch[d] /\ tries'[d] = tries[d]
    BY DEF DeliveryInv, DeliveryTypeOK
<1>4. DeliveryTypeOK'
    BY <1>1, ClientDone, Released DEF DeliveryInv, DeliveryTypeOK, outVars, Unfinished, Final
<1>5. RowsRight'
  <2>1. OneActive(purpose, ch)'
      BY <1>2, <1>3 DEF DeliveryInv, DeliveryTypeOK, RowsRight, OneActive
  <2>2. RowRight(c)'
      BY <1>2, <1>3 DEF DeliveryInv, RowsRight, RowRight, PayloadErased, LeaseComplete, outVars, Delivering
  <2>3. ASSUME NEW d \in Challenges \ {c}
        PROVE  RowRight(d)'
      BY <1>3, RowSame DEF outVars
  <2> QED
      BY <2>1, <2>2, <2>3 DEF RowsRight
<1>6. Respects(k)
  <2>1. \A q \in Processes \ {k} : scopeLock # q /\ chLock[c] # q
      BY <1>2, NobodyIsNobody
  <2> QED
      BY <1>1, <1>2, <1>3, <2>1, ClientDone, Released DEF Respects, outVars, Final
<1> QED
    BY <1>1, <1>4, <1>5, <1>6, ClientDone, StepRight

LEMMA ConfirmsStep ==
    ASSUME DeliveryInv, NEW k \in Clients, NEW c \in Challenges,
           ConfirmExpired(k, c) \/ ConfirmWrong(k, c) \/ RegisterCommits(k, c)
    PROVE  DeliveryInv'
<1>1. ch[c] = "active" /\ tries[c] \in 0 .. MaxTries /\ tries[c] < MaxTries
    BY DEF ConfirmExpired, ConfirmWrong, RegisterCommits, Finds, Candidates, DeliveryInv,
           DeliveryTypeOK, RowsRight, RowRight
<1>2. tries = [tries EXCEPT ![c] = tries[c]]
    BY DEF DeliveryInv, DeliveryTypeOK
<1>3. CASE ConfirmExpired(k, c)
  <2>1. /\ Finds(k, c) /\ Answer(k) /\ ch' = [ch EXCEPT ![c] = "expired"] /\ registered' \in BOOLEAN
        /\ tries' = tries /\ UNCHANGED <<purpose, stale, outVars, crashes, mailed, sends, circuit>>
      BY <1>3 DEF ConfirmExpired, DeliveryInv, DeliveryTypeOK
  <2> QED
      BY <1>1, <1>2, <2>1, CodeUsed
<1>4. CASE RegisterCommits(k, c)
  <2>1. /\ Finds(k, c) /\ Answer(k) /\ ch' = [ch EXCEPT ![c] = "consumed"] /\ registered' \in BOOLEAN
        /\ tries' = tries /\ UNCHANGED <<purpose, stale, outVars, crashes, mailed, sends, circuit>>
      BY <1>4 DEF RegisterCommits
  <2> QED
      BY <1>1, <1>2, <2>1, CodeUsed
<1>5. CASE ConfirmWrong(k, c)
  <2> DEFINE x == IF LocksAt(tries[c] + 1) THEN "locked" ELSE "active"
  <2>1. /\ Finds(k, c) /\ Answer(k) /\ registered' \in BOOLEAN
        /\ tries' = [tries EXCEPT ![c] = tries[c] + 1]
        /\ UNCHANGED <<purpose, stale, outVars, crashes, mailed, sends, circuit>>
      BY <1>5 DEF ConfirmWrong, DeliveryInv, DeliveryTypeOK
  <2>2. ch' = [ch EXCEPT ![c] = x]
      BY <1>1, <1>5 DEF ConfirmWrong
  <2>3. tries[c] + 1 \in 0 .. MaxTries /\ (x = "active" => tries[c] + 1 < MaxTries)
      BY <1>1, MaxTriesAssumption DEF LocksAt
  <2>4. x \in {"active", "expired", "locked", "consumed"}
      OBVIOUS
  <2> QED
      BY <2>1, <2>2, <2>3, <2>4, CodeUsed
<1> QED
    BY <1>3, <1>4, <1>5

LEMMA ResetLocksChallengesStep ==
    ASSUME DeliveryInv, NEW k \in Clients, NEW c \in Challenges, ResetLocksChallenges(k, c)
    PROVE  DeliveryInv'
<1> DEFINE S == {c} \cup UnfinishedOthers(c)
<1>1. k \in Processes /\ k \notin Workers /\ k # Nobody
    BY ProcessesAssumption, NobodyAssumption DEF Processes
<1>2. /\ pc[k] = "scoped" /\ scopeLock = k /\ task[k] = c /\ ch[c] = "active"
      /\ \A d \in Challenges : chLock[d] # k
      /\ \A d \in seen[k] : d \in Challenges /\ ch[d] # "none"
      /\ \A d \in S : chLock[d] = Nobody
      /\ chLock' = [d \in Challenges |-> IF d \in S THEN k ELSE chLock[d]]
      /\ pc' = [pc EXCEPT ![k] = "resetting"]
      /\ UNCHANGED <<rowVars, task, aim, scopeLock, obLock, ghosts, circuit>>
    BY DEF ResetLocksChallenges, Finds, Candidates, LockRows, Move, DeliveryInv, DeliveryTypeOK,
           ClientRight, ScopePlaces
<1>3. /\ \A d \in S : d = c \/ ch[d] \in Unfinished
      /\ \A d \in Challenges : purpose[d] = "password_reset" /\ ch[d] \in Unfinished => d \in S
      /\ S \subseteq Challenges
    BY DEF UnfinishedOthers
<1> HIDE DEF S
<1>4. DeliveryTypeOK'
    BY <1>1, <1>2 DEF DeliveryInv, DeliveryTypeOK, ClientPlaces, rowVars, codeVars, outVars, ghosts
<1>5. RowsRight'
    BY <1>2, RowsSame DEF DeliveryInv, ghosts
<1>6. Respects(k)
    BY <1>1, <1>2, QuietRespects, NobodyIsNobody
    DEF DeliveryInv, DeliveryTypeOK, rowVars, codeVars, outVars, ghosts
<1>7. ClientRight(k)'
  <2>1. pc'[k] = "resetting" /\ task'[k] = c /\ seen'[k] = seen[k]
      BY <1>1, <1>2 DEF DeliveryInv, DeliveryTypeOK, ghosts
  <2>2. \A d \in Challenges \ {c} : chLock'[d] = k => ch'[d] \in Unfinished
      BY <1>2, <1>3 DEF rowVars, codeVars
  <2>3. ASSUME NEW d \in seen[k], purpose'[d] = "password_reset"
        PROVE  d = c \/ ch'[d] \in Final \/ chLock'[d] = k
    <3>1. ch[d] \in Unfinished \cup Final
        BY <1>2 DEF DeliveryInv, DeliveryTypeOK
    <3> QED
        BY <1>2, <1>3, <2>3, <3>1 DEF rowVars, codeVars
  <2> QED
      BY <1>2, <2>1, <2>2, <2>3 DEF ClientRight, ScopePlaces, rowVars, codeVars
<1> QED
    BY <1>1, <1>4, <1>5, <1>6, <1>7, StepRight

\* What a reset finds when it commits.
LEMMA ResetHolds ==
    ASSUME DeliveryInv, NEW k \in Clients, ResetCommits(k)
    PROVE  /\ task[k] \in Challenges /\ scopeLock = k /\ ch[task[k]] = "active"
           /\ \A d \in Challenges \ {task[k]} : chLock[d] = k => ch[d] \in Unfinished
           /\ \A d \in Cancelled(k) : obLock[d] = Nobody
           /\ ch' \in [Challenges -> {"none"} \cup Unfinished \cup Final]
           /\ ch'[task[k]] = "consumed"
           /\ \A d \in Challenges \ {task[k]} : ch'[d] = IF chLock[d] = k THEN "superseded" ELSE ch[d]
           /\ CloseOutboxes(Cancelled(k), "delivery_failed")
           /\ Answer(k)
           /\ UNCHANGED <<purpose, tries, stale, registered, crashes, mailed, sends, circuit>>
<1>1. /\ task[k] \in Challenges /\ scopeLock = k /\ ch[task[k]] = "active"
      /\ \A d \in Challenges \ {task[k]} : chLock[d] = k => ch[d] \in Unfinished
    BY DEF ResetCommits, DeliveryInv, ClientRight, ScopePlaces
<1> QED
    BY <1>1 DEF ResetCommits, DeliveryInv, DeliveryTypeOK, Final, Unfinished

LEMMA ResetCommitsStep ==
    ASSUME DeliveryInv, NEW k \in Clients, ResetCommits(k)
    PROVE  DeliveryInv'
<1>1. k \in Processes /\ k \notin Workers /\ k # Nobody
    BY ProcessesAssumption, NobodyAssumption DEF Processes
<1>2. PICK t \in Challenges :
         /\ t = task[k] /\ scopeLock = k /\ ch[t] = "active" /\ ch'[t] = "consumed"
         /\ \A d \in Challenges \ {t} : chLock[d] = k => ch[d] \in Unfinished
         /\ \A d \in Challenges \ {t} : ch'[d] = IF chLock[d] = k THEN "superseded" ELSE ch[d]
    BY ResetHolds
<1>3. Release(k) /\ ClientRight(k)'
    BY ResetHolds, ClientDone
<1>4. DeliveryTypeOK'
    BY <1>1, <1>3, ResetHolds, ClientDone, Released, ClosedTypes DEF DeliveryInv, DeliveryTypeOK, Delivered
<1>5. \A d \in Challenges :
         /\ d \in Cancelled(k) => ob'[d] = "delivery_failed" /\ payload'[d] = FALSE
         /\ d \notin Cancelled(k) => ob'[d] = ob[d] /\ owner'[d] = owner[d] /\ payload'[d] = payload[d]
         /\ attempts'[d] = attempts[d] /\ tries'[d] = tries[d] /\ sends'[d] = sends[d]
  <2> DEFINE S == Cancelled(k)
  <2>1. CloseOutboxes(S, "delivery_failed") /\ UNCHANGED <<tries, sends>>
      BY ResetHolds
  <2> HIDE DEF S
  <2>2. \A d \in Challenges :
          /\ d \in S => ob'[d] = "delivery_failed" /\ payload'[d] = FALSE
          /\ d \notin S => ob'[d] = ob[d] /\ owner'[d] = owner[d] /\ payload'[d] = payload[d]
          /\ attempts'[d] = attempts[d] /\ tries'[d] = tries[d] /\ sends'[d] = sends[d]
      BY <2>1 DEF CloseOutboxes
  <2> QED
      BY <2>2 DEF S
<1>6. RowsRight'
  <2>1. OneActive(purpose, ch)'
    <3>1. \A d \in Challenges : ch'[d] = "active" => ch[d] = "active"
        BY <1>2
    <3> QED
        BY <3>1, ResetHolds DEF DeliveryInv, DeliveryTypeOK, RowsRight, OneActive
  <2>2. RowRight(t)'
      BY <1>2, <1>5 DEF DeliveryInv, RowsRight, RowRight, PayloadErased, LeaseComplete, Delivering, Cancelled
  <2>3. ASSUME NEW d \in Challenges \ {t}
        PROVE  RowRight(d)'
    <3>1. RowRight(d)
        BY DEF DeliveryInv, RowsRight
    <3>2. CASE chLock[d] = k
      <4>1. /\ ch'[d] = "superseded"
            /\ d \in Cancelled(k) <=> ob[d] \in Delivering
          BY <1>2, <3>2 DEF Cancelled
      <4> QED
          BY <1>5, <3>1, <4>1 DEF RowRight, PayloadErased, LeaseComplete, Delivering
    <3>3. CASE chLock[d] # k
      <4>1. d \notin Cancelled(k) /\ ch'[d] = ch[d]
          BY <1>2, <3>3 DEF Cancelled
      <4> QED
          BY <1>5, <4>1, RowSame
    <3> QED
        BY <3>2, <3>3
  <2> QED
      BY <2>1, <2>2, <2>3 DEF RowsRight
<1>7. Respects(k)
  <2>1. ASSUME NEW q \in Processes \ {k}, NEW c \in Challenges
        PROVE  /\ scopeLock # q
               /\ chLock[c] = q => ch'[c] = ch[c]
               /\ obLock[c] = q => ob'[c] = ob[c]
    <3>1. scopeLock # q
        BY <1>2
    <3>2. chLock[c] = q => ch'[c] = ch[c]
      <4>1. q \in Workers => WorkerRight(q)
          BY DEF DeliveryInv
      <4>2. q \in Clients => ClientRight(q)
          BY DEF DeliveryInv
      <4> QED
          BY <3>1, <4>1, <4>2 DEF Processes, WorkerRight, ClientRight, ScopePlaces
    <3>3. obLock[c] = q => c \notin Cancelled(k)
        BY ResetHolds, NobodyIsNobody
    <3> QED
        BY <1>5, <3>1, <3>2, <3>3
  <2>2. /\ \A c \in Challenges : ch[c] # "none" => ch'[c] # "none"
        /\ \A c \in Challenges : ch[c] \in Final => ch'[c] \in Final
      BY <1>2 DEF Final
  <2> QED
      BY <1>1, <1>3, <2>1, <2>2, ResetHolds, ClientDone, Released DEF Respects
<1> QED
    BY <1>1, <1>3, <1>4, <1>6, <1>7, StepRight

-----------------------------------------------------------------------------
(* All steps.                                                                *)

LEMMA InitDelivery == Init => DeliveryInv
<1> SUFFICES ASSUME Init PROVE DeliveryInv
    OBVIOUS
<1>1. DeliveryTypeOK
    BY MaxAttemptsAssumption, MaxTriesAssumption, MaxCrashesAssumption
    DEF Init, DeliveryTypeOK, Purposes, WorkerPlaces, ClientPlaces, Processes
<1>2. RowsRight
    BY DEF Init, RowsRight, RowRight, OneActive, PayloadErased, LeaseComplete, Delivering
<1>3. \A w \in Workers : WorkerRight(w)
    BY NobodyAssumption DEF Init, WorkerRight, ScopePlaces, OutboxPlaces, WorkPlaces, Processes
<1>4. \A k \in Clients : ClientRight(k)
    BY NobodyAssumption DEF Init, ClientRight, ScopePlaces, Processes
<1> QED
    BY <1>1, <1>2, <1>3, <1>4 DEF DeliveryInv

LEMMA NextDelivery == DeliveryInv /\ [Next]_vars => DeliveryInv'
<1> SUFFICES ASSUME DeliveryInv, [Next]_vars PROVE DeliveryInv'
    OBVIOUS
<1>1. ASSUME NEW c \in Challenges,
             (\E p \in Purposes : RequestVerification(c, p)) \/ LeaseLapses(c) \/ ChallengeExpires(c)
      PROVE  DeliveryInv'
    BY <1>1, RequestStep, TimeStep
<1>2. ASSUME NEW w \in Workers, WorkerStep(w)
      PROVE  DeliveryInv'
    BY <1>2, TakeExhaustedStep, ClaimStep, PollStep, FinishLocksScopeStep, FinishLocksOutboxStep,
       FinishLocksChallengesStep, FinishCommitsStep, RecordFailureStep, CondemnStep
    DEF WorkerStep, Finish
<1>3. ASSUME NEW k \in Clients, Confirm(k)
      PROVE  DeliveryInv'
    BY <1>3, ConfirmLocksScopeStep, ClientQuits, ConfirmsStep, ResetLocksChallengesStep, ResetCommitsStep
    DEF Confirm
<1>4. ASSUME NEW k \in Clients, NEW p \in Purposes, NEW x \in Challenges \cup {NoChallenge},
             ConfirmBegins(k, p, x)
      PROVE  DeliveryInv'
    BY <1>4, ConfirmBeginsStep
<1>5. ASSUME NEW w \in Workers, Crash(w)
      PROVE  DeliveryInv'
    BY <1>5, CrashStep
<1>6. ASSUME NEW k \in Clients, ConfirmFails(k)
      PROVE  DeliveryInv'
    BY <1>6, ClientQuits
<1>7. CASE CircuitOpens \/ CircuitCloses \/ UNCHANGED vars
  <2>1. UNCHANGED <<rowVars, pc, task, aim, locks, ghosts>> /\ circuit' \in {"open", "closed"}
      BY <1>7 DEF CircuitOpens, CircuitCloses, vars, DeliveryInv, DeliveryTypeOK
  <2>2. DeliveryTypeOK' /\ RowsRight'
      BY <2>1, RowsSame DEF DeliveryInv, DeliveryTypeOK, rowVars, codeVars, outVars, locks, ghosts
  <2>3. Respects(Nobody)
      BY <2>1 DEF Respects, rowVars, codeVars, outVars, locks, ghosts
  <2> QED
      BY <2>2, <2>3, OutsideRight
<1> QED
    BY <1>1, <1>2, <1>3, <1>4, <1>5, <1>6, <1>7 DEF Next, BreakDeadlock

LEMMA DeliveryInvariant == Spec => []DeliveryInv
    BY InitDelivery, NextDelivery, PTL DEF Spec

\* Every row, place and lock has its type, for any challenges, workers and clients.
LEMMA DeliveryTypes == Spec => []DeliveryTypeOK
<1>1. DeliveryInv => DeliveryTypeOK
    BY DEF DeliveryInv
<1> QED
    BY <1>1, DeliveryInvariant, PTL

\* At every commit of the workers (deliver_one_verification), of register and of the reset, a
\* challenge, its delivery and the encrypted mail agree, and an address has one usable code of
\* each purpose.
THEOREM RowsAgreeHolds == Spec => []RowsAgree
<1>1. DeliveryInv => RowsAgree
    BY DEF DeliveryInv, RowsRight, RowRight, RowsAgree
<1> QED
    BY <1>1, DeliveryInvariant, PTL

\* A mail is handed to the provider at most MaxAttempts times, whatever workers crash or are
\* overtaken between _claim_delivery and their report.
THEOREM SendsBoundedHolds == Spec => []SendsBounded
<1>1. DeliveryInv => SendsBounded
  <2> SUFFICES ASSUME DeliveryInv, NEW c \in Challenges
               PROVE  sends[c] <= MaxAttempts
      BY DEF SendsBounded
  <2>1. sends[c] <= attempts[c] /\ attempts[c] \in 0 .. MaxAttempts /\ sends[c] \in Nat
      BY DEF DeliveryInv, DeliveryTypeOK, RowsRight, RowRight
  <2> QED
      BY <2>1, MaxAttemptsAssumption
<1> QED
    BY <1>1, DeliveryInvariant, PTL

\* What one step may write into the guarded columns.
GuardsStep ==
    \A c \in Challenges :
        /\ ChallengeGuard(ch[c], ch'[c])
        /\ DeliveryGuard(ob[c], ob'[c])
        /\ ch[c] \in Final => tries'[c] = tries[c]

LEMMA GuardsQuiet ==
    ASSUME UNCHANGED <<ch, ob, tries>>
    PROVE  GuardsStep
    BY DEF GuardsStep, ChallengeGuard, DeliveryGuard

LEMMA WorkerGuards ==
    ASSUME DeliveryInv, NEW w \in Workers, WorkerStep(w)
    PROVE  GuardsStep
<1>1. CASE \/ \E c \in Challenges : TakeExhausted(w, c)
           \/ Poll(w) \/ NoneExhausted(w) \/ NothingToClaim(w) \/ Send(w) \/ Restart(w)
           \/ FinishLocksScope(w) \/ FinishLocksOutbox(w) \/ FinishLocksChallenges(w)
  <2>1. UNCHANGED rowVars
      BY <1>1 DEF TakeExhausted, Poll, NoneExhausted, NothingToClaim, Send, Restart, FinishLocksScope,
                  FinishLocksOutbox, FinishLocksChallenges
  <2> QED
      BY <2>1, GuardsQuiet DEF rowVars, codeVars, outVars
<1>2. ASSUME NEW c \in Challenges, Claim(w, c)
      PROVE  GuardsStep
    BY <1>2 DEF Claim, Lease, Claimable, codeVars, DeliveryInv, DeliveryTypeOK, GuardsStep,
                ChallengeGuard, DeliveryGuard
<1>3. CASE FinishCommits(w)
  <2>1. /\ task[w] \in Challenges /\ ob[task[w]] = "leased" /\ ch[task[w]] = "pending_delivery"
        /\ \A d \in Challenges \ {task[w]} : chLock[d] = w => ch[d] = "active"
      BY <1>3 DEF FinishCommits, DeliveryInv, WorkerRight, OutboxPlaces, WorkPlaces, RowsRight, RowRight,
                  Delivering
  <2>2. /\ ch'[task[w]] = "active" /\ ob'[task[w]] = "delivered" /\ tries' = tries
        /\ \A d \in Challenges \ {task[w]} :
              ob'[d] = ob[d] /\ ch'[d] = IF chLock[d] = w THEN "superseded" ELSE ch[d]
      BY <1>3, <2>1 DEF FinishCommits, CloseOutboxes
  <2> QED
      BY <2>1, <2>2 DEF GuardsStep, ChallengeGuard, DeliveryGuard, Final
<1>4. CASE RecordFailure(w)
  <2>1. UNCHANGED codeVars
      BY <1>4 DEF RecordFailure
  <2>2. \/ UNCHANGED outVars
        \/ ob[task[w]] = "leased" /\ ob' = [ob EXCEPT ![task[w]] = "pending"]
      BY <1>4 DEF RecordFailure, ClaimHolds
  <2> QED
      BY <2>1, <2>2 DEF codeVars, outVars, GuardsStep, ChallengeGuard, DeliveryGuard, DeliveryInv,
                        DeliveryTypeOK
<1>5. CASE Condemn(w)
  <2>1. task[w] \in Challenges /\ ob[task[w]] = "leased" /\ ch[task[w]] = "pending_delivery"
      BY <1>5 DEF Condemn, DeliveryInv, WorkerRight, OutboxPlaces, WorkPlaces, RowsRight, RowRight,
                  Delivering
  <2>2. /\ ob'[task[w]] = "delivery_failed" /\ tries' = tries
        /\ ch' = [ch EXCEPT ![task[w]] = "delivery_failed"]
        /\ \A d \in Challenges \ {task[w]} : ob'[d] = ob[d]
      BY <1>5, <2>1 DEF Condemn, CloseOutboxes
  <2> QED
      BY <2>1, <2>2 DEF GuardsStep, ChallengeGuard, DeliveryGuard, DeliveryInv, DeliveryTypeOK
<1> QED
    BY <1>1, <1>2, <1>3, <1>4, <1>5 DEF WorkerStep, Finish

LEMMA ClientGuards ==
    ASSUME DeliveryInv, NEW k \in Clients, Confirm(k)
    PROVE  GuardsStep
<1>1. CASE \/ ConfirmLocksScope(k) \/ ConfirmRefused(k)
           \/ \E c \in Challenges : ResetLocksChallenges(k, c)
  <2>1. UNCHANGED rowVars
      BY <1>1 DEF ConfirmLocksScope, ConfirmRefused, ResetLocksChallenges
  <2> QED
      BY <2>1, GuardsQuiet DEF rowVars, codeVars, outVars
<1>2. ASSUME NEW c \in Challenges,
             ConfirmExpired(k, c) \/ ConfirmWrong(k, c) \/ RegisterCommits(k, c)
      PROVE  GuardsStep
  <2>1. /\ ch[c] = "active" /\ ob' = ob
        /\ \E x \in {"active", "expired", "locked", "consumed"} : ch' = [ch EXCEPT ![c] = x]
        /\ tries' = tries \/ tries' = [tries EXCEPT ![c] = @ + 1]
      BY <1>2 DEF ConfirmExpired, ConfirmWrong, RegisterCommits, Finds, Candidates, outVars
  <2> QED
      BY <2>1 DEF GuardsStep, ChallengeGuard, DeliveryGuard, Final, DeliveryInv, DeliveryTypeOK
<1>3. CASE ResetCommits(k)
  <2>1. \A d \in Challenges : ob'[d] = ob[d] \/ (ob[d] \in Delivering /\ ob'[d] = "delivery_failed")
      BY <1>3 DEF ResetCommits, CloseOutboxes, Cancelled
  <2>2. UNCHANGED tries
      BY <1>3 DEF ResetCommits
  <2>3. \A d \in Challenges : ChallengeGuard(ch[d], ch'[d])
      BY <1>3, ResetHolds DEF ChallengeGuard, Unfinished
  <2> QED
      BY <2>1, <2>2, <2>3 DEF GuardsStep, DeliveryGuard, Delivering
<1> QED
    BY <1>1, <1>2, <1>3 DEF Confirm

\* No step of a worker or a client, however late, writes what the triggers of migration 0007
\* refuse: an ended challenge or delivery keeps its state and its count of guesses.
THEOREM GuardsAcceptHolds == Spec => GuardsAccept
<1>1. DeliveryInv /\ [Next]_vars => [GuardsStep]_vars
  <2> SUFFICES ASSUME DeliveryInv, Next
               PROVE  GuardsStep
      OBVIOUS
  <2>1. ASSUME NEW c \in Challenges,
               (\E p \in Purposes : RequestVerification(c, p)) \/ LeaseLapses(c) \/ ChallengeExpires(c)
        PROVE  GuardsStep
    <3>1. CASE LeaseLapses(c) \/ ChallengeExpires(c)
        BY <3>1, GuardsQuiet DEF LeaseLapses, ChallengeExpires, codeVars, outVars
    <3>2. CASE \E p \in Purposes : RequestVerification(c, p)
      <4>1. /\ ch[c] = "none" /\ ob[c] = "none" /\ tries' = tries
            /\ ch' = [ch EXCEPT ![c] = "pending_delivery"]
            /\ ob' = [ob EXCEPT ![c] = "pending"]
          BY <3>2 DEF RequestVerification, DeliveryInv, RowsRight, RowRight
      <4> QED
          BY <4>1 DEF GuardsStep, ChallengeGuard, DeliveryGuard, NoRowYet, DeliveryInv, DeliveryTypeOK
    <3> QED
        BY <2>1, <3>1, <3>2
  <2>2. ASSUME UNCHANGED rowVars
        PROVE  GuardsStep
      BY <2>2, GuardsQuiet DEF rowVars, codeVars, outVars
  <2>3. ASSUME NEW w \in Workers, Crash(w)
        PROVE  UNCHANGED rowVars
      BY <2>3 DEF Crash
  <2>4. ASSUME NEW k \in Clients,
               \/ ConfirmFails(k)
               \/ \E p \in Purposes, x \in Challenges \cup {NoChallenge} : ConfirmBegins(k, p, x)
        PROVE  UNCHANGED rowVars
      BY <2>4 DEF ConfirmFails, ConfirmBegins
  <2>5. CASE CircuitOpens \/ CircuitCloses
      BY <2>2, <2>5 DEF CircuitOpens, CircuitCloses
  <2> QED
      BY <2>1, <2>2, <2>3, <2>4, <2>5, WorkerGuards, ClientGuards DEF Next, BreakDeadlock
<1>2. Spec => [][GuardsStep]_vars
    BY <1>1, DeliveryInvariant, PTL DEF Spec
<1> QED
    BY <1>2 DEF GuardsAccept, GuardsStep

\* What a step that consumes a reset code leaves of the codes its client has seen.
OlderCodesEnd ==
    \A k \in Clients :
        LET c == task[k] IN
        aim[k] = "password_reset" /\ c \in Challenges /\ ch'[c] = "consumed" /\ ch[c] # "consumed" =>
            \A d \in seen[k] : purpose[d] = "password_reset" => ch'[d] \in Final

\* Only two steps consume a code.
LEMMA Consuming ==
    ASSUME DeliveryInv, Next, NEW c \in Challenges, ch'[c] = "consumed", ch[c] # "consumed"
    PROVE  \E k \in Clients :
              /\ pc[k] \in ScopePlaces
              /\ task[k] = c
              /\ ResetCommits(k) \/ RegisterCommits(k, c)
<1>1. ASSUME NEW w \in Workers, WorkerStep(w) \/ Crash(w)
      PROVE  ch'[c] # "consumed"
  <2>1. ~UNCHANGED ch
      OBVIOUS
  <2>2. FinishCommits(w) \/ Condemn(w)
      BY <1>1, <2>1
      DEF WorkerStep, Finish, Crash, TakeExhausted, Claim, Poll, NoneExhausted, NothingToClaim, Send, Restart,
          FinishLocksScope, FinishLocksOutbox, FinishLocksChallenges, RecordFailure, rowVars, codeVars
  <2> QED
      BY <2>2 DEF FinishCommits, Condemn, DeliveryInv, DeliveryTypeOK
<1>2. ASSUME NEW d \in Challenges,
             (\E p \in Purposes : RequestVerification(d, p)) \/ LeaseLapses(d) \/ ChallengeExpires(d)
      PROVE  ch'[c] # "consumed"
    BY <1>2 DEF RequestVerification, LeaseLapses, ChallengeExpires, codeVars, DeliveryInv, DeliveryTypeOK
<1>3. ASSUME NEW k \in Clients,
             \/ ConfirmFails(k)
             \/ \E p \in Purposes, x \in Challenges \cup {NoChallenge} : ConfirmBegins(k, p, x)
      PROVE  ch'[c] # "consumed"
    BY <1>3 DEF ConfirmFails, ConfirmBegins, rowVars, codeVars
<1>5. ~(CircuitOpens \/ CircuitCloses)
    BY DEF CircuitOpens, CircuitCloses, rowVars, codeVars
<1>4. ASSUME NEW k \in Clients, Confirm(k)
      PROVE  /\ pc[k] \in ScopePlaces /\ task[k] = c
             /\ ResetCommits(k) \/ RegisterCommits(k, c)
  <2>1. CASE ResetCommits(k)
    <3>1. task[k] = c
        BY <2>1, ResetHolds
    <3> QED
        BY <2>1, <3>1 DEF ResetCommits, ScopePlaces
  <2>2. CASE ~ResetCommits(k)
    <3>1. ~UNCHANGED ch
        OBVIOUS
    <3>2. PICK d \in Challenges : ConfirmExpired(k, d) \/ ConfirmWrong(k, d) \/ RegisterCommits(k, d)
        BY <1>4, <2>2, <3>1
        DEF Confirm, ConfirmLocksScope, ConfirmRefused, ResetLocksChallenges, rowVars, codeVars
    <3>3. RegisterCommits(k, d) /\ d = c
      <4>1. ~ConfirmExpired(k, d)
          BY DEF ConfirmExpired, DeliveryInv, DeliveryTypeOK
      <4>2. ~ConfirmWrong(k, d)
          BY DEF ConfirmWrong, DeliveryInv, DeliveryTypeOK
      <4> QED
          BY <3>2, <4>1, <4>2 DEF RegisterCommits, DeliveryInv, DeliveryTypeOK
    <3> QED
        BY <3>3 DEF RegisterCommits, Finds, ScopePlaces
  <2> QED
      BY <2>1, <2>2
<1> QED
    BY <1>1, <1>2, <1>3, <1>4, <1>5 DEF Next, BreakDeadlock

\* A successful reset (_reset_password_with_verification) ends every reset code that was there
\* when it took the advisory lock, sent or not, whoever delivers them meanwhile.
THEOREM ResetEndsOlderCodesHolds == Spec => ResetEndsOlderCodes
<1>1. DeliveryInv /\ [Next]_vars => [OlderCodesEnd]_vars
  <2> SUFFICES ASSUME DeliveryInv, Next, NEW k \in Clients, NEW c \in Challenges, c = task[k],
                      aim[k] = "password_reset", ch'[c] = "consumed", ch[c] # "consumed",
                      NEW d \in seen[k], purpose[d] = "password_reset"
               PROVE  ch'[d] \in Final
      BY DEF OlderCodesEnd
  <2>1. PICK m \in Clients :
           pc[m] \in ScopePlaces /\ task[m] = c /\ (ResetCommits(m) \/ RegisterCommits(m, c))
      BY Consuming
  <2>2. m = k
      BY <2>1 DEF DeliveryInv, ClientRight
  <2>3. ResetCommits(k)
      BY <2>1, <2>2 DEF RegisterCommits
  <2>4. d \in Challenges /\ (d = c \/ ch[d] \in Final \/ chLock[d] = k)
      BY <2>3 DEF ResetCommits, DeliveryInv, DeliveryTypeOK, ClientRight
  <2> QED
      BY <2>3, <2>4, ResetHolds DEF Final
<1>2. Spec => [][OlderCodesEnd]_vars
    BY <1>1, DeliveryInvariant, PTL DEF Spec
<1> QED
    BY <1>2 DEF ResetEndsOlderCodes, OlderCodesEnd

-----------------------------------------------------------------------------
(* Who waits for whom.                                                       *)

\* A worker holds no outbox but the one of its challenge, between the lock and the commit, and
\* nobody keeps the advisory lock outside its transaction.
HoldsItsOutbox ==
    \A w \in Workers, c \in Challenges : obLock[c] = w => pc[w] \in OutboxPlaces /\ task[w] = c

ScopeHeld == \A p \in Processes : scopeLock = p => pc[p] \in ScopePlaces

LocksInPlace == HoldsItsOutbox /\ ScopeHeld

\* The transaction of a process is over, or a step of it takes no outbox and leaves the one it
\* has.
LEMMA OthersOutboxes ==
    ASSUME DeliveryInv, LocksInPlace, NEW p \in Processes, NEW to, pc' = [pc EXCEPT ![p] = to],
           \A q \in Processes \ {p} : task'[q] = task[q],
           \/ Release(p)
           \/ /\ obLock' = obLock
              /\ pc[p] \in OutboxPlaces => to \in OutboxPlaces /\ task' = task
              /\ \/ scopeLock' = scopeLock /\ (pc[p] \in ScopePlaces => to \in ScopePlaces)
                 \/ scopeLock' = p /\ to \in ScopePlaces
    PROVE  LocksInPlace'
<1>0. ScopeHeld'
  <2> SUFFICES ASSUME NEW q \in Processes, scopeLock' = q PROVE pc'[q] \in ScopePlaces
      BY DEF ScopeHeld
  <2>1. q # Nobody /\ pc'[q] = IF q = p THEN to ELSE pc[q]
      BY NobodyIsNobody DEF DeliveryInv, DeliveryTypeOK
  <2>2. CASE scopeLock = q
      BY <2>1, <2>2 DEF Release, LocksInPlace, ScopeHeld
  <2>3. CASE scopeLock # q
      BY <2>1, <2>3 DEF Release
  <2> QED
      BY <2>2, <2>3
<1> SUFFICES ASSUME NEW w \in Workers, NEW c \in Challenges, obLock'[c] = w
             PROVE  pc'[w] \in OutboxPlaces /\ task'[w] = c
    BY <1>0 DEF LocksInPlace, HoldsItsOutbox
<1>1. w \in Processes /\ w # Nobody
    BY NobodyAssumption DEF Processes
<1>2. obLock[c] = w /\ (Release(p) => w # p)
    BY <1>1 DEF Release, DeliveryInv, DeliveryTypeOK
<1>3. pc[w] \in OutboxPlaces /\ task[w] = c
    BY <1>2 DEF LocksInPlace, HoldsItsOutbox
<1>4. CASE w = p
    BY <1>1, <1>2, <1>3, <1>4 DEF DeliveryInv, DeliveryTypeOK
<1>5. CASE w # p
    BY <1>1, <1>3, <1>5 DEF DeliveryInv, DeliveryTypeOK
<1> QED
    BY <1>4, <1>5

LEMMA TakesOutbox ==
    ASSUME DeliveryInv, LocksInPlace, NEW w \in Workers, NEW c \in Challenges,
           pc[w] \notin OutboxPlaces, NEW to \in OutboxPlaces,
           pc' = [pc EXCEPT ![w] = to], task' = [task EXCEPT ![w] = c],
           obLock' = [obLock EXCEPT ![c] = w], scopeLock' = scopeLock,
           pc[w] \in ScopePlaces => to \in ScopePlaces
    PROVE  LocksInPlace'
<1>0. ScopeHeld'
  <2> SUFFICES ASSUME NEW q \in Processes, scopeLock' = q PROVE pc'[q] \in ScopePlaces
      BY DEF ScopeHeld
  <2>1. pc[q] \in ScopePlaces
      BY DEF LocksInPlace, ScopeHeld
  <2>2. pc'[q] = IF q = w THEN to ELSE pc[q]
      BY DEF DeliveryInv, DeliveryTypeOK
  <2> QED
      BY <2>1, <2>2
<1> SUFFICES ASSUME NEW v \in Workers, NEW d \in Challenges, obLock'[d] = v
             PROVE  pc'[v] \in OutboxPlaces /\ task'[v] = d
    BY <1>0 DEF LocksInPlace, HoldsItsOutbox
<1>1. v \in Processes /\ w \in Processes
    BY DEF Processes
<1>2. CASE v = w
  <2>1. obLock[d] # w
      BY DEF LocksInPlace, HoldsItsOutbox
  <2>2. d = c
      BY <1>2, <2>1 DEF DeliveryInv, DeliveryTypeOK
  <2> QED
      BY <1>1, <1>2, <2>2 DEF DeliveryInv, DeliveryTypeOK
<1>3. CASE v # w
  <2>1. obLock[d] = v
      BY <1>3 DEF DeliveryInv, DeliveryTypeOK
  <2>2. pc[v] \in OutboxPlaces /\ task[v] = d
      BY <2>1 DEF LocksInPlace, HoldsItsOutbox
  <2> QED
      BY <1>1, <1>3, <2>2 DEF DeliveryInv, DeliveryTypeOK
<1> QED
    BY <1>2, <1>3

LEMMA WorkerHolds ==
    ASSUME DeliveryInv, LocksInPlace, NEW w \in Workers, WorkerStep(w) \/ Crash(w)
    PROVE  LocksInPlace'
<1>1. w \in Processes /\ task \in [Processes -> Challenges \cup {NoChallenge}] /\ WorkerRight(w)
    BY DEF Processes, DeliveryInv, DeliveryTypeOK
<1>2. ASSUME NEW to, Done(w, to)
      PROVE  LocksInPlace'
    BY <1>1, <1>2, OthersOutboxes DEF Done
<1>3. ASSUME NEW c \in Challenges, TakeExhausted(w, c)
      PROVE  LocksInPlace'
  <2>1. /\ pc[w] = "polled" /\ pc' = [pc EXCEPT ![w] = "condemning"] /\ task' = [task EXCEPT ![w] = c]
        /\ obLock' = [obLock EXCEPT ![c] = w] /\ scopeLock' = scopeLock
      BY <1>3 DEF TakeExhausted, LockOutbox, Move
  <2>2. "condemning" \in OutboxPlaces /\ "polled" \notin OutboxPlaces \cup ScopePlaces
      BY DEF OutboxPlaces, ScopePlaces
  <2> QED
      BY <2>1, <2>2, TakesOutbox
<1>4. ASSUME NEW c \in Challenges, Claim(w, c)
      PROVE  LocksInPlace'
    BY <1>1, <1>4, OthersOutboxes DEF Claim, Lease, Move, locks, OutboxPlaces, ScopePlaces
<1>5. CASE Poll(w) \/ NoneExhausted(w) \/ NothingToClaim(w) \/ Send(w) \/ Restart(w)
  <2>1. PICK to : pc' = [pc EXCEPT ![w] = to]
      BY <1>5 DEF Poll, NoneExhausted, NothingToClaim, Send, Restart, Move
  <2>2. /\ obLock' = obLock /\ task' = task /\ scopeLock' = scopeLock
        /\ pc[w] \notin OutboxPlaces \cup ScopePlaces
      BY <1>5 DEF Poll, NoneExhausted, NothingToClaim, Send, Restart, locks, OutboxPlaces, ScopePlaces
  <2> QED
      BY <1>1, <2>1, <2>2, OthersOutboxes
<1>6. CASE FinishLocksScope(w) \/ FinishLocksChallenges(w)
  <2>1. PICK to : /\ pc' = [pc EXCEPT ![w] = to]
                  /\ pc[w] \in OutboxPlaces => to \in OutboxPlaces
                  /\ to \in ScopePlaces /\ scopeLock' \in {scopeLock, w}
      BY <1>6 DEF FinishLocksScope, FinishLocksChallenges, Move, OutboxPlaces, ScopePlaces
  <2>2. obLock' = obLock /\ task' = task
      BY <1>6 DEF FinishLocksScope, FinishLocksChallenges
  <2> QED
      BY <1>1, <2>1, <2>2, OthersOutboxes
<1>7. CASE FinishLocksOutbox(w) \/ RecordFailure(w)
  <2>1. CASE \E to : Done(w, to)
      BY <1>2, <2>1
  <2>2. CASE ~\E to : Done(w, to)
    <3>1. /\ pc[w] \in {"scoped", "failed", "rejected"}
          /\ obLock' = [obLock EXCEPT ![task[w]] = w] /\ task' = task
          /\ scopeLock' = scopeLock
        BY <1>7, <2>2 DEF FinishLocksOutbox, RecordFailure, LockOutbox
    <3>2. PICK to \in OutboxPlaces : /\ pc' = [pc EXCEPT ![w] = to]
                                     /\ pc[w] \in ScopePlaces => to \in ScopePlaces
        BY <1>7, <2>2 DEF FinishLocksOutbox, RecordFailure, Move, OutboxPlaces, ScopePlaces
    <3>3. PICK c \in Challenges : c = task[w]
        BY <1>1, <3>1 DEF WorkerRight, WorkPlaces
    <3>4. task' = [task EXCEPT ![w] = c]
        BY <1>1, <3>1, <3>3
    <3>5. obLock' = [obLock EXCEPT ![c] = w] /\ scopeLock' = scopeLock
        BY <3>1, <3>3
    <3>6. pc[w] \notin OutboxPlaces
        BY <3>1 DEF OutboxPlaces
    <3> QED
        BY <3>2, <3>4, <3>5, <3>6, TakesOutbox
  <2> QED
      BY <2>1, <2>2
<1>8. CASE FinishCommits(w) \/ Condemn(w) \/ Crash(w)
    BY <1>2, <1>8 DEF FinishCommits, Condemn, Crash
<1> QED
    BY <1>3, <1>4, <1>5, <1>6, <1>7, <1>8 DEF WorkerStep, Finish

LEMMA ClientHolds ==
    ASSUME DeliveryInv, LocksInPlace, NEW k \in Clients,
           \/ Confirm(k) \/ ConfirmFails(k)
           \/ \E p \in Purposes, x \in Challenges \cup {NoChallenge} : ConfirmBegins(k, p, x)
    PROVE  LocksInPlace'
<1>1. k \in Processes /\ pc[k] \notin OutboxPlaces
    BY DEF Processes, DeliveryInv, DeliveryTypeOK, ClientPlaces, OutboxPlaces
<1>2. CASE Answer(k)
  <2>1. pc' = [pc EXCEPT ![k] = "idle"] /\ Release(k) /\ task' = [task EXCEPT ![k] = NoChallenge]
      BY <1>2 DEF Answer, Done
  <2> QED
      BY <1>1, <2>1, OthersOutboxes DEF DeliveryInv, DeliveryTypeOK
<1>3. CASE ~Answer(k)
  <2>1. /\ obLock' = obLock
        /\ \E to : /\ pc' = [pc EXCEPT ![k] = to]
                   /\ \/ scopeLock' = scopeLock /\ (pc[k] \in ScopePlaces => to \in ScopePlaces)
                      \/ scopeLock' = k /\ to \in ScopePlaces
        /\ \E x : task' = [task EXCEPT ![k] = x]
    <3>1. CASE ConfirmLocksScope(k) \/ \E c \in Challenges : ResetLocksChallenges(k, c)
      <4>1. task' = task
          BY <3>1 DEF ConfirmLocksScope, ResetLocksChallenges
      <4>2. task' = [task EXCEPT ![k] = task[k]]
          BY <1>1, <4>1 DEF DeliveryInv, DeliveryTypeOK
      <4> QED
          BY <3>1, <4>2 DEF ConfirmLocksScope, ResetLocksChallenges, Move, ScopePlaces
    <3>2. CASE \E p \in Purposes, x \in Challenges \cup {NoChallenge} : ConfirmBegins(k, p, x)
        BY <3>2 DEF ConfirmBegins, Move, locks, ScopePlaces
    <3> QED
        BY <1>3, <3>1, <3>2 DEF Confirm, ConfirmFails, ConfirmRefused, ConfirmExpired, ConfirmWrong,
                               RegisterCommits, ResetCommits
  <2> QED
      BY <1>1, <2>1, OthersOutboxes DEF DeliveryInv, DeliveryTypeOK
<1> QED
    BY <1>2, <1>3

LEMMA HoldsInvariant == Spec => []LocksInPlace
<1>1. Init => LocksInPlace
    BY NobodyIsNobody DEF Init, LocksInPlace, HoldsItsOutbox, ScopeHeld, Processes
<1>2. DeliveryInv /\ LocksInPlace /\ [Next]_vars => LocksInPlace'
  <2> SUFFICES ASSUME DeliveryInv, LocksInPlace, [Next]_vars PROVE LocksInPlace'
      OBVIOUS
  <2>1. CASE UNCHANGED <<pc, task, obLock, scopeLock>>
      BY <2>1 DEF LocksInPlace, HoldsItsOutbox, ScopeHeld
  <2>2. ASSUME NEW c \in Challenges,
               (\E p \in Purposes : RequestVerification(c, p)) \/ LeaseLapses(c) \/ ChallengeExpires(c)
        PROVE  UNCHANGED <<pc, task, obLock, scopeLock>>
      BY <2>2 DEF RequestVerification, LeaseLapses, ChallengeExpires, locks
  <2>3. CASE CircuitOpens \/ CircuitCloses \/ UNCHANGED vars
      BY <2>1, <2>3 DEF CircuitOpens, CircuitCloses, vars, locks
  <2> QED
      BY <2>1, <2>2, <2>3, WorkerHolds, ClientHolds DEF Next, BreakDeadlock
<1> QED
    BY <1>1, <1>2, DeliveryInvariant, PTL DEF Spec

\* Challenges are locked only with the advisory lock, by a worker about to commit, which waits
\* for nobody, or a reset.
LEMMA RowHolders ==
    ASSUME DeliveryInv, NEW q \in Processes, NEW c \in Challenges, chLock[c] = q
    PROVE  /\ scopeLock = q
           /\ pc[q] = "committing" \/ (q \in Clients /\ pc[q] = "resetting")
<1>1. q \in Workers => WorkerRight(q)
    BY DEF DeliveryInv
<1>2. q \in Clients => ClientRight(q)
    BY DEF DeliveryInv
<1> QED
    BY <1>1, <1>2 DEF Processes, WorkerRight, ClientRight, ScopePlaces

LEMMA CommittersRun ==
    ASSUME NEW p, pc[p] = "committing", NEW q
    PROVE  ~WaitsFor(p, q)
    BY DEF WaitsFor

\* A worker that waits with the advisory lock waits for none that needs it.
LEMMA ActivatingRuns ==
    ASSUME DeliveryInv, NEW w \in Processes, pc[w] = "activating", NEW q \in Processes, WaitsFor(w, q)
    PROVE  pc[q] = "committing"
<1>1. w \in Workers /\ w \notin Clients /\ WorkerRight(w)
    BY ProcessesAssumption DEF Processes, DeliveryInv, DeliveryTypeOK, ClientPlaces
<1>2. scopeLock = w /\ task[w] \in Challenges
    BY <1>1 DEF WorkerRight, ScopePlaces, WorkPlaces, OutboxPlaces
<1>3. PICK c \in Challenges : chLock[c] = q
    BY <1>2 DEF WaitsFor, Rivals
<1>4. scopeLock = q /\ (pc[q] = "committing" \/ pc[q] = "resetting")
    BY <1>3, RowHolders
<1> QED
    BY <1>2, <1>4

\* Who holds an outbox has still to lock challenges, or commits.
LEMMA OutboxHolders ==
    ASSUME DeliveryInv, LocksInPlace, NEW q \in Processes, NEW c \in Challenges, obLock[c] = q
    PROVE  q \in Workers /\ pc[q] \in OutboxPlaces /\ task[q] = c
<1>1. q \in Workers
    BY NobodyIsNobody DEF DeliveryInv, DeliveryTypeOK
<1> QED
    BY <1>1 DEF LocksInPlace, HoldsItsOutbox

\* The circle that is possible, from a reset in a set of processes that wait for one another.
Circle(S) == S \subseteq Processes /\ \A p \in S : \E q \in S : WaitsFor(p, q)

Broken(S) == \E k \in Clients, w \in Workers : k \in S /\ w \in S /\ Deadlocked(k, w)

LEMMA CircleRuns ==
    ASSUME DeliveryInv, NEW S, Circle(S), NEW p \in S
    PROVE  pc[p] # "committing" /\ pc[p] # "activating"
<1>1. p \in Processes /\ pc[p] # "committing"
    BY CommittersRun DEF Circle
<1>2. CASE pc[p] = "activating"
  <2>1. PICK q \in S : WaitsFor(p, q)
      BY DEF Circle
  <2>2. q \in Processes /\ pc[q] = "committing"
      BY <1>1, <1>2, <2>1, ActivatingRuns DEF Circle
  <2> QED
      BY <2>2, CommittersRun DEF Circle
<1> QED
    BY <1>1, <1>2

LEMMA ResetCircle ==
    ASSUME DeliveryInv, LocksInPlace, NEW S, Circle(S), NEW k \in S, pc[k] = "resetting"
    PROVE  Broken(S)
<1>1. k \in Processes /\ k \in Clients
    BY DEF Circle, Processes, DeliveryInv, DeliveryTypeOK, WorkerPlaces
<1>2. PICK w \in S : WaitsFor(k, w)
    BY DEF Circle
<1>3. PICK c \in Cancelled(k) : obLock[c] = w
    BY <1>2 DEF WaitsFor
<1>4. w \in Workers /\ pc[w] \in OutboxPlaces /\ task[w] = c
    BY <1>3, OutboxHolders DEF Circle, Cancelled
<1>5. pc[w] = "condemning"
    BY <1>4, CircleRuns DEF OutboxPlaces
<1> QED
    BY <1>1, <1>3, <1>4, <1>5 DEF Broken, Deadlocked

LEMMA CondemningCircle ==
    ASSUME DeliveryInv, LocksInPlace, NEW S, Circle(S), NEW w \in S, pc[w] = "condemning"
    PROVE  Broken(S)
<1>1. w \in Workers /\ WorkerRight(w)
    BY DEF Circle, Processes, DeliveryInv, DeliveryTypeOK, ClientPlaces
<1>2. task[w] \in Challenges
    BY <1>1 DEF WorkerRight, WorkPlaces, OutboxPlaces
<1>3. PICK q \in S : chLock[task[w]] = q
    BY DEF Circle, WaitsFor
<1>4. pc[q] = "resetting"
    BY <1>2, <1>3, RowHolders, CircleRuns DEF Circle
<1> QED
    BY <1>4, ResetCircle

\* Who waits for an outbox waits for a worker that gives its delivery up.
LEMMA OutboxCircle ==
    ASSUME DeliveryInv, LocksInPlace, NEW S, Circle(S), NEW w \in S, w \in Workers,
           pc[w] \in {"scoped", "failed", "rejected"}
    PROVE  Broken(S)
<1>1. w \notin Clients /\ WorkerRight(w)
    BY ProcessesAssumption DEF DeliveryInv
<1>2. task[w] \in Challenges
    BY <1>1 DEF WorkerRight, WorkPlaces
<1>3. PICK q \in S : obLock[task[w]] = q
    BY <1>1 DEF Circle, WaitsFor
<1>4. pc[q] = "condemning"
    BY <1>2, <1>3, OutboxHolders, CircleRuns DEF Circle, OutboxPlaces
<1> QED
    BY <1>4, CondemningCircle

\* The holder of the advisory lock is in the circle itself if somebody there waits for it.
LEMMA ScopeCircle ==
    ASSUME DeliveryInv, LocksInPlace, NEW S, Circle(S), NEW p \in S, pc[p] = "scoped"
    PROVE  Broken(S)
<1>1. CASE p \in Workers
    BY <1>1, OutboxCircle
<1>2. CASE p \notin Workers
  <2>1. p \in Clients /\ scopeLock = p
      BY <1>2 DEF Circle, Processes, DeliveryInv, ClientRight, ScopePlaces
  <2>2. PICK q \in S, c \in Challenges : chLock[c] = q
      BY <1>2 DEF Circle, WaitsFor
  <2>3. pc[q] = "committing" \/ pc[q] = "resetting"
      BY <2>2, RowHolders DEF Circle
  <2> QED
      BY <2>3, CircleRuns, ResetCircle
<1> QED
    BY <1>1, <1>2

LEMMA CirclesBroken ==
    ASSUME DeliveryInv, LocksInPlace, NEW S, Circle(S), S # {}
    PROVE  Broken(S)
<1>1. PICK p \in S : TRUE
    OBVIOUS
<1>2. PICK q \in S : WaitsFor(p, q)
    BY DEF Circle
<1>3. CASE pc[p] \in {"accepted", "confirming"}
  <2>1. q \in Processes /\ scopeLock = q
      BY <1>2, <1>3 DEF WaitsFor, Circle
  <2>2. pc[q] \in ScopePlaces
      BY <2>1 DEF LocksInPlace, ScopeHeld
  <2> QED
      BY <2>2, CircleRuns, ScopeCircle, ResetCircle DEF ScopePlaces
<1>4. CASE pc[p] \notin {"accepted", "confirming"}
  <2>1. \/ pc[p] = "activating" \/ pc[p] = "condemning" \/ pc[p] = "scoped" \/ pc[p] = "resetting"
        \/ p \in Workers /\ pc[p] \in {"failed", "rejected"}
      BY <1>2, <1>4 DEF WaitsFor
  <2> QED
      BY <2>1, CircleRuns, CondemningCircle, ScopeCircle, ResetCircle, OutboxCircle
<1> QED
    BY <1>3, <1>4

\* No processes ever wait for one another in a circle without a reset and a worker that gives up
\* a delivery which that reset cancels: the one deadlock between verification_delivery.py:309
\* and services.py:362 is the only one, for any number of workers, clients and codes.
THEOREM OneDeadlockHolds == Spec => []OneDeadlock
<1>1. DeliveryInv /\ LocksInPlace => OneDeadlock
    BY CirclesBroken DEF OneDeadlock, Circle, Broken
<1> QED
    BY <1>1, DeliveryInvariant, HoldsInvariant, PTL

-----------------------------------------------------------------------------
(* The promise of CodeLifecycle.                                             *)

\* A transaction locks challenges of one purpose, that of its own.
LockedAlike ==
    \A p \in Processes, c \in Challenges : chLock[c] = p =>
        task[p] \in Challenges /\ purpose[c] = purpose[task[p]]

\* A locked challenge is there, and so is the one its transaction is about.
LEMMA LockedExists ==
    ASSUME DeliveryInv, NEW q \in Processes, NEW c \in Challenges, chLock[c] = q
    PROVE  task[q] \in Challenges /\ ch[c] # "none" /\ ch[task[q]] # "none"
<1>1. CASE q \in Workers
  <2>1. WorkerRight(q) /\ pc[q] = "committing"
      BY <1>1 DEF DeliveryInv, WorkerRight
  <2>2. task[q] \in Challenges /\ ob[task[q]] = "leased" /\ (c # task[q] => ch[c] = "active")
      BY <2>1 DEF WorkerRight, WorkPlaces, OutboxPlaces
  <2>3. ch[task[q]] # "none"
      BY <2>2 DEF DeliveryInv, RowsRight, RowRight, Delivering
  <2> QED
      BY <2>2, <2>3
<1>2. CASE q \in Clients
  <2>1. ClientRight(q) /\ pc[q] = "resetting"
      BY <1>2 DEF DeliveryInv, ClientRight
  <2> QED
      BY <2>1 DEF ClientRight, Unfinished
<1> QED
    BY <1>1, <1>2 DEF Processes

LEMMA OthersRows ==
    ASSUME DeliveryInv, LockedAlike, NEW p \in Processes, purpose' = purpose,
           \A q \in Processes \ {p} : task'[q] = task[q],
           \/ Release(p)
           \/ chLock' = chLock /\ (task'[p] = task[p] \/ \A c \in Challenges : chLock[c] # p)
           \/ /\ task' = task /\ task[p] \in Challenges
              /\ \E S : LockRows(p, S) /\ \A c \in S \cap Challenges : purpose[c] = purpose[task[p]]
    PROVE  LockedAlike'
<1> SUFFICES ASSUME NEW q \in Processes, NEW c \in Challenges, chLock'[c] = q
             PROVE  task'[q] \in Challenges /\ purpose[c] = purpose[task'[q]]
    BY DEF LockedAlike
<1>1. q # Nobody
    BY NobodyIsNobody
<1>2. CASE q # p
    BY <1>1, <1>2 DEF Release, LockRows, LockedAlike
<1>3. CASE q = p
    BY <1>1, <1>3 DEF Release, LockRows, LockedAlike
<1> QED
    BY <1>2, <1>3

\* Where a process locks no challenge.
LEMMA LocksNone ==
    ASSUME DeliveryInv, NEW q \in Processes, pc[q] \notin {"committing", "resetting"}
    PROVE  \A c \in Challenges : chLock[c] # q
    BY RowHolders

LEMMA WorkerAlike ==
    ASSUME DeliveryInv, LockedAlike, NEW w \in Workers, WorkerStep(w) \/ Crash(w)
    PROVE  LockedAlike'
<1>1. w \in Processes /\ task \in [Processes -> Challenges \cup {NoChallenge}]
    BY DEF Processes, DeliveryInv, DeliveryTypeOK
<1>2. purpose' = purpose
    BY DEF WorkerStep, Finish, TakeExhausted, Claim, Poll, NoneExhausted, NothingToClaim, Send, Restart, Crash,
           FinishLocksScope, FinishLocksOutbox, FinishLocksChallenges, FinishCommits, RecordFailure,
           Condemn, rowVars, codeVars
<1>3. CASE \E to : Done(w, to)
    BY <1>1, <1>2, <1>3, OthersRows DEF Done
<1>4. CASE \E c \in Challenges : TakeExhausted(w, c) \/ Claim(w, c)
  <2>1. /\ pc[w] \notin {"committing", "resetting"} /\ chLock' = chLock
        /\ \E x : task' = [task EXCEPT ![w] = x]
      BY <1>4 DEF TakeExhausted, Claim, Lease, locks
  <2> QED
      BY <1>1, <1>2, <2>1, LocksNone, OthersRows
<1>5. CASE FinishLocksChallenges(w)
  <2>1. task[w] \in Challenges
      BY <1>5 DEF FinishLocksChallenges, DeliveryInv, WorkerRight, WorkPlaces, OutboxPlaces
  <2>2. task' = task /\ LockRows(w, {task[w]} \cup Rivals(task[w]))
      BY <1>5 DEF FinishLocksChallenges
  <2>3. \A c \in {task[w]} \cup Rivals(task[w]) : purpose[c] = purpose[task[w]]
      BY DEF Rivals
  <2> QED
      BY <1>1, <1>2, <2>1, <2>2, <2>3, OthersRows
<1>6. CASE chLock' = chLock /\ task' = task
    BY <1>1, <1>2, <1>6, OthersRows
<1>7. \/ \E to : Done(w, to)
      \/ \E c \in Challenges : TakeExhausted(w, c) \/ Claim(w, c)
      \/ FinishLocksChallenges(w)
      \/ chLock' = chLock /\ task' = task
    BY DEF WorkerStep, Finish, Poll, NoneExhausted, NothingToClaim, Send, Restart, Crash, FinishLocksScope,
           FinishLocksOutbox, FinishCommits, RecordFailure, Condemn, locks
<1> QED
    BY <1>3, <1>4, <1>5, <1>6, <1>7

LEMMA ClientAlike ==
    ASSUME DeliveryInv, LockedAlike, NEW k \in Clients,
           \/ Confirm(k) \/ ConfirmFails(k)
           \/ \E p \in Purposes, x \in Challenges \cup {NoChallenge} : ConfirmBegins(k, p, x)
    PROVE  LockedAlike'
<1>1. k \in Processes /\ task \in [Processes -> Challenges \cup {NoChallenge}]
    BY DEF Processes, DeliveryInv, DeliveryTypeOK
<1>2. purpose' = purpose
    BY DEF Confirm, ConfirmLocksScope, ConfirmRefused, ConfirmExpired, ConfirmWrong, RegisterCommits,
           ResetLocksChallenges, ResetCommits, ConfirmFails, ConfirmBegins, rowVars, codeVars
<1>3. CASE Answer(k)
    BY <1>1, <1>2, <1>3, OthersRows DEF Answer, Done
<1>4. CASE \E p \in Purposes, x \in Challenges \cup {NoChallenge} : ConfirmBegins(k, p, x)
  <2>1. /\ pc[k] \notin {"committing", "resetting"} /\ chLock' = chLock
        /\ \E x : task' = [task EXCEPT ![k] = x]
      BY <1>4 DEF ConfirmBegins, locks
  <2> QED
      BY <1>1, <1>2, <2>1, LocksNone, OthersRows
<1>5. ASSUME NEW c \in Challenges, ResetLocksChallenges(k, c)
      PROVE  LockedAlike'
  <2>1. /\ task[k] = c /\ task' = task /\ purpose[c] = "password_reset"
        /\ LockRows(k, {c} \cup UnfinishedOthers(c))
      BY <1>5 DEF ResetLocksChallenges, Finds, Candidates
  <2>2. \A d \in {c} \cup UnfinishedOthers(c) : purpose[d] = purpose[task[k]]
      BY <2>1 DEF UnfinishedOthers
  <2> QED
      BY <1>1, <1>2, <2>1, <2>2, OthersRows
<1>6. CASE ConfirmLocksScope(k)
    BY <1>1, <1>2, <1>6, OthersRows DEF ConfirmLocksScope
<1> QED
    BY <1>3, <1>4, <1>5, <1>6 DEF Confirm, ConfirmFails, ConfirmRefused, ConfirmExpired, ConfirmWrong,
                               RegisterCommits, ResetCommits

LEMMA AlikeInvariant == Spec => []LockedAlike
<1>1. Init => LockedAlike
    BY NobodyIsNobody DEF Init, LockedAlike
<1>2. DeliveryInv /\ LockedAlike /\ [Next]_vars => LockedAlike'
  <2> SUFFICES ASSUME DeliveryInv, LockedAlike, [Next]_vars PROVE LockedAlike'
      OBVIOUS
  <2>1. CASE UNCHANGED <<purpose, task, chLock>>
      BY <2>1 DEF LockedAlike
  <2>2. ASSUME NEW c \in Challenges, NEW p \in Purposes, RequestVerification(c, p)
        PROVE  LockedAlike'
    <3>1. /\ ch[c] = "none" /\ UNCHANGED <<task, chLock>>
          /\ \A d \in Challenges \ {c} : purpose'[d] = purpose[d]
        BY <2>2 DEF RequestVerification, locks, DeliveryInv, DeliveryTypeOK
    <3> QED
        BY <3>1, LockedExists DEF LockedAlike
  <2>3. ASSUME NEW c \in Challenges, LeaseLapses(c) \/ ChallengeExpires(c)
        PROVE  UNCHANGED <<purpose, task, chLock>>
      BY <2>3 DEF LeaseLapses, ChallengeExpires, codeVars, locks
  <2>4. CASE CircuitOpens \/ CircuitCloses \/ UNCHANGED vars
      BY <2>1, <2>4 DEF CircuitOpens, CircuitCloses, vars, rowVars, codeVars, locks
  <2> QED
      BY <2>1, <2>2, <2>3, <2>4, WorkerAlike, ClientAlike DEF Next, BreakDeadlock
<1> QED
    BY <1>1, <1>2, DeliveryInvariant, PTL DEF Spec

LEMMA InitPromised == Init => Promise!Init
<1> SUFFICES ASSUME Init PROVE Promise!Init
    OBVIOUS
<1>1. \A c \in Challenges : Phase(c) = "new" /\ Subject(c) = "none"
    BY DEF Init, Phase, Subject
<1> QED
    BY <1>1 DEF Promise!Init

\* A step that leaves the states of the codes and their purposes shows nothing.
LEMMA ShowsNothing ==
    ASSUME UNCHANGED <<ch, purpose>>
    PROVE  UNCHANGED Promise!lifecycle
<1>1. \A c \in Challenges : Phase(c)' = Phase(c) /\ Subject(c)' = Subject(c)
    BY DEF Phase, Subject
<1> QED
    BY <1>1 DEF Promise!lifecycle

\* One code changes its state and those of S are superseded with it.
LEMMA CodesMove ==
    ASSUME NEW c \in Challenges, NEW S, purpose' = purpose, ch[c] # "none", ch'[c] # "none",
           \A d \in Challenges \ {c} :
              ch'[d] = (IF d \in S THEN "superseded" ELSE ch[d]) /\ (d \in S => ch[d] # "none")
    PROVE  Promise!Moves(c, Phase(c)', S)
<1>1. \A d \in Challenges : Subject(d)' = Subject(d)
    BY DEF Subject
<1>2. \A d \in Challenges : Phase(d)' = IF d = c THEN Phase(c)' ELSE IF d \in S THEN "ended" ELSE Phase(d)
    BY DEF Phase
<1> QED
    BY <1>1, <1>2 DEF Promise!Moves

\* Codes with the same subject are those of one purpose.
LEMMA OthersOf ==
    ASSUME NEW c \in Challenges, ch[c] # "none", NEW phases, "new" \notin phases
    PROVE  Promise!Others(c, phases)
              = {d \in Challenges \ {c} : purpose[d] = purpose[c] /\ Phase(d) \in phases}
<1>1. \A d \in Challenges : Phase(d) \in phases => ch[d] # "none"
    BY DEF Phase
<1>2. \A d \in Challenges : ch[d] # "none" => (Subject(d) = Subject(c) <=> purpose[d] = purpose[c])
    BY DEF Subject
<1> QED
    BY <1>1, <1>2 DEF Promise!Others

LEMMA RequestPromised ==
    ASSUME DeliveryInv, NEW c \in Challenges, NEW p \in Purposes, RequestVerification(c, p)
    PROVE  Promise!Next
<1>1. /\ ch[c] = "none" /\ ch'[c] = "pending_delivery" /\ purpose'[c] = p
      /\ \A d \in Challenges \ {c} : ch'[d] = ch[d] /\ purpose'[d] = purpose[d]
    BY DEF RequestVerification, DeliveryInv, DeliveryTypeOK
<1>2. /\ Phase(c) = "new" /\ Phase(c)' = "requested" /\ Subject(c)' = p
      /\ \A d \in Challenges \ {c} : Phase(d)' = Phase(d) /\ Subject(d)' = Subject(d)
    BY <1>1 DEF Phase, Subject
<1>3. Promise!Request(c, p)
    BY <1>2 DEF Promise!Request
<1> QED
    BY <1>3 DEF Promise!Next

\* A code that was not delivered, expired, or guessed at too often.
LEMMA EndPromised ==
    ASSUME DeliveryInv, NEW c \in Challenges, purpose' = purpose, ch[c] \in Unfinished,
           NEW x \in {"delivery_failed", "expired", "locked"}, ch' = [ch EXCEPT ![c] = x]
    PROVE  Promise!Next
<1>1. ch'[c] = x /\ \A d \in Challenges \ {c} : ch'[d] = ch[d]
    BY DEF DeliveryInv, DeliveryTypeOK
<1>2. ch[c] # "none" /\ Phase(c) \in {"requested", "usable"} /\ Phase(c)' = "ended"
    BY <1>1 DEF Phase, Unfinished
<1>3. Promise!Moves(c, "ended", {})
    BY <1>1, <1>2, CodesMove
<1>4. Promise!End(c)
    BY <1>2, <1>3 DEF Promise!End
<1> QED
    BY <1>4 DEF Promise!Next

LEMMA DeliverPromised ==
    ASSUME DeliveryInv, LockedAlike, NEW w \in Workers, FinishCommits(w)
    PROVE  Promise!Next
<1>0. w \in Processes /\ task[w] \in Challenges
    BY DEF Processes, FinishCommits, DeliveryInv, WorkerRight, OutboxPlaces, WorkPlaces, RowsRight,
           RowRight, Delivering
<1>t. PICK t \in Challenges : t = task[w]
    BY <1>0
<1> DEFINE S == {d \in Challenges \ {t} : chLock[d] = w}
<1>1. /\ t \in Challenges /\ ch[t] = "pending_delivery"
      /\ \A d \in Challenges \ {t} : chLock[d] = w => ch[d] = "active"
      /\ \A d \in Rivals(t) : chLock[d] = w
    BY <1>t DEF FinishCommits, DeliveryInv, WorkerRight, OutboxPlaces, WorkPlaces, RowsRight, RowRight,
                Delivering
<1>2. /\ ch'[t] = "active" /\ purpose' = purpose
      /\ \A d \in Challenges \ {t} : ch'[d] = IF chLock[d] = w THEN "superseded" ELSE ch[d]
    BY <1>1, <1>t DEF FinishCommits
<1>3. Phase(t) = "requested" /\ Phase(t)' = "usable"
    BY <1>1, <1>2 DEF Phase
<1>4. \A d \in Challenges : Phase(d) = "usable" <=> ch[d] = "active"
    BY DEF Phase
<1>5. \A d \in Challenges \ {t} : d \in S <=> purpose[d] = purpose[t] /\ Phase(d) \in {"usable"}
    BY <1>0, <1>t, <1>1, <1>4 DEF Rivals, LockedAlike
<1>6. S = {d \in Challenges \ {t} : purpose[d] = purpose[t] /\ Phase(d) \in {"usable"}}
    BY <1>5
<1>7. S = Promise!Others(t, {"usable"})
    BY <1>1, <1>6, OthersOf
<1>8. \A d \in Challenges \ {t} :
         ch'[d] = (IF d \in S THEN "superseded" ELSE ch[d]) /\ (d \in S => ch[d] # "none")
    BY <1>1, <1>2
<1> HIDE DEF S
<1>9. Promise!Moves(t, "usable", S)
    BY <1>1, <1>2, <1>3, <1>8, CodesMove
<1>10. Promise!Deliver(t)
    BY <1>1, <1>3, <1>7, <1>9 DEF Promise!Deliver
<1> QED
    BY <1>1, <1>10 DEF Promise!Next

\* register consumes one code, the reset also ends the others it locked.
LEMMA UsePromised ==
    ASSUME NEW c \in Challenges, ch[c] = "active", ch'[c] = "consumed", purpose' = purpose,
           NEW S \in SUBSET Challenges,
           \A d \in S : d # c /\ ch[d] \in Unfinished /\ purpose[d] = purpose[c],
           \A d \in Challenges \ {c} : ch'[d] = IF d \in S THEN "superseded" ELSE ch[d]
    PROVE  Promise!Next
<1>1. Phase(c) = "usable" /\ Phase(c)' = "used"
    BY DEF Phase
<1>2. \A d \in S : d # c /\ purpose[d] = purpose[c] /\ Phase(d) \in {"requested", "usable"}
    BY DEF Phase, Unfinished
<1>3. S \subseteq Promise!Others(c, {"requested", "usable"})
    BY <1>2, OthersOf
<1>4. \A d \in S : ch[d] # "none"
    BY DEF Unfinished
<1>5. Promise!Moves(c, "used", S)
    BY <1>1, <1>4, CodesMove
<1>6. Promise!Use(c)
    BY <1>1, <1>3, <1>5 DEF Promise!Use
<1> QED
    BY <1>6 DEF Promise!Next

LEMMA ResetPromised ==
    ASSUME DeliveryInv, LockedAlike, NEW k \in Clients, ResetCommits(k)
    PROVE  Promise!Next
<1> DEFINE t == task[k]
           S == {d \in Challenges \ {t} : chLock[d] = k}
<1>1. /\ t \in Challenges /\ ch[t] = "active" /\ ch'[t] = "consumed" /\ purpose' = purpose
      /\ \A d \in S : ch[d] \in Unfinished
      /\ \A d \in Challenges \ {t} : ch'[d] = IF d \in S THEN "superseded" ELSE ch[d]
    BY ResetHolds
<1>2. \A d \in S : d # t /\ purpose[d] = purpose[t]
    BY DEF LockedAlike, Processes
<1>3. S \in SUBSET Challenges
    OBVIOUS
<1> HIDE DEF S, t
<1> QED
    BY <1>1, <1>2, <1>3, UsePromised

LEMMA WorkerPromised ==
    ASSUME DeliveryInv, LockedAlike, NEW w \in Workers, WorkerStep(w) \/ Crash(w)
    PROVE  Promise!Next \/ UNCHANGED <<ch, purpose>>
<1>1. CASE FinishCommits(w)
    BY <1>1, DeliverPromised
<1>2. CASE Condemn(w)
  <2>1. task[w] \in Challenges /\ ch[task[w]] = "pending_delivery"
      BY <1>2 DEF Condemn, DeliveryInv, WorkerRight, OutboxPlaces, WorkPlaces, RowsRight, RowRight,
                  Delivering
  <2>2. ch' = [ch EXCEPT ![task[w]] = "delivery_failed"] /\ purpose' = purpose
      BY <1>2, <2>1 DEF Condemn
  <2> QED
      BY <2>1, <2>2, EndPromised DEF Unfinished
<1> QED
    BY <1>1, <1>2
    DEF WorkerStep, Finish, Crash, TakeExhausted, Claim, Poll, NoneExhausted, NothingToClaim, Send, Restart,
        FinishLocksScope, FinishLocksOutbox, FinishLocksChallenges, RecordFailure, rowVars, codeVars

LEMMA ClientPromised ==
    ASSUME DeliveryInv, LockedAlike, NEW k \in Clients, Confirm(k)
    PROVE  Promise!Next \/ UNCHANGED <<ch, purpose>>
<1>1. CASE ResetCommits(k)
    BY <1>1, ResetPromised
<1>2. ASSUME NEW c \in Challenges, ConfirmExpired(k, c) \/ ConfirmWrong(k, c)
      PROVE  Promise!Next \/ UNCHANGED <<ch, purpose>>
  <2>1. ch[c] = "active" /\ purpose' = purpose
      BY <1>2 DEF ConfirmExpired, ConfirmWrong, Finds, Candidates
  <2>2. ch' = ch \/ \E x \in {"expired", "locked"} : ch' = [ch EXCEPT ![c] = x]
      BY <1>2, <2>1 DEF ConfirmExpired, ConfirmWrong, DeliveryInv, DeliveryTypeOK
  <2> QED
      BY <2>1, <2>2, EndPromised DEF Unfinished
<1>3. ASSUME NEW c \in Challenges, RegisterCommits(k, c)
      PROVE  Promise!Next
  <2>1. ch[c] = "active" /\ purpose' = purpose /\ ch' = [ch EXCEPT ![c] = "consumed"]
      BY <1>3 DEF RegisterCommits, Finds, Candidates
  <2>2. ch'[c] = "consumed" /\ \A d \in Challenges \ {c} : ch'[d] = ch[d]
      BY <2>1 DEF DeliveryInv, DeliveryTypeOK
  <2> DEFINE none == {d \in Challenges : FALSE}
  <2>3. /\ none \in SUBSET Challenges
        /\ \A d \in none : d # c /\ ch[d] \in Unfinished /\ purpose[d] = purpose[c]
        /\ \A d \in Challenges \ {c} : ch'[d] = IF d \in none THEN "superseded" ELSE ch[d]
      BY <2>2
  <2> HIDE DEF none
  <2> QED
      BY <2>1, <2>2, <2>3, UsePromised
<1> QED
    BY <1>1, <1>2, <1>3 DEF Confirm, ConfirmLocksScope, ConfirmRefused, ResetLocksChallenges, rowVars, codeVars

\* The delivery workers, register and the reset keep the promise of CodeLifecycle, however their
\* transactions interleave and whoever crashes: a code is usable only once its mail was accepted,
\* used at most once, and ended by nothing but its own delivery, its own end, a newer code or a
\* reset of its purpose.
THEOREM CodesImplemented == Spec => ImplementsCodes
<1>1. DeliveryInv /\ LockedAlike /\ [Next]_vars => [Promise!Next]_(Promise!lifecycle)
  <2> SUFFICES ASSUME DeliveryInv, LockedAlike, [Next]_vars
               PROVE  Promise!Next \/ UNCHANGED Promise!lifecycle
      OBVIOUS
  <2>1. CASE UNCHANGED <<ch, purpose>>
      BY <2>1, ShowsNothing
  <2>2. ASSUME NEW c \in Challenges, LeaseLapses(c) \/ ChallengeExpires(c)
        PROVE  UNCHANGED <<ch, purpose>>
      BY <2>2 DEF LeaseLapses, ChallengeExpires, codeVars
  <2>3. ASSUME NEW k \in Clients,
               \/ ConfirmFails(k)
               \/ \E p \in Purposes, x \in Challenges \cup {NoChallenge} : ConfirmBegins(k, p, x)
        PROVE  UNCHANGED <<ch, purpose>>
      BY <2>3 DEF ConfirmFails, ConfirmBegins, rowVars, codeVars
  <2>4. CASE CircuitOpens \/ CircuitCloses \/ UNCHANGED vars
      BY <2>1, <2>4 DEF CircuitOpens, CircuitCloses, vars, rowVars, codeVars
  <2> QED
      BY <2>1, <2>2, <2>3, <2>4, RequestPromised, WorkerPromised, ClientPromised DEF Next, BreakDeadlock
<1> QED
    BY <1>1, InitPromised, DeliveryInvariant, AlikeInvariant, PTL DEF Spec, ImplementsCodes, Promise!Spec
=============================================================================
