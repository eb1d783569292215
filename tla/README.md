# A verification project for New Mud

New Mud is a Django/Channels game server with PostgreSQL as the only authority, an H5
client (Vue, TypeScript) and two kinds of mail workers. What is implemented at this commit
is identity (registration, login, refresh, logout, password reset, mail delivery), the
WebSocket boundary of the game, character creation and the content bootstrap. This directory
models the parts whose correctness depends on interleaving, failure and retry, checks them
with TLC, and proves with TLAPS what matters most. Paths below are relative to the repository;
`identity/` is `src/new_mud/apps/identity/`.

## 1. The system and its parts

| Part | State | Operations | Correct when |
|---|---|---|---|
| Authentication sessions (`identity/services.py`, `models.py`, `tokens.py`) | `AuthSession`, `RefreshTokenFamily`, `RefreshTokenCredential`, `RefreshRequestTerminalRecord`, `User` password, `GameAccount.lifecycle` | login, refresh under an idempotency key, logout by two locators, the session half of the password reset | the three rows agree; one successor per credential; a retry repeats its result; a replay revokes; an end is final; a reset leaves nothing opened with an old password |
| Browser refresh coordination (`client/src/api/refresh-coordinator.ts`, `api/auth.ts`, `stores/auth.ts`, `identity/views.py`) | HttpOnly cookie, IndexedDB slot with the pending key, Web Lock, BroadcastChannel, token in memory | refresh, login, logout, mount, retry | one honest browser never looks like a replay, never loses its session to a lost answer, never hangs |
| Verification codes (`identity/verification_requests.py`, `verification_delivery.py`, `services.py`) | `VerificationChallenge`, `VerificationDeliveryOutbox`, advisory and row locks, lease | request, claim, send, finish, fail, exhausted lease, register, confirm reset | rows agree; one answer and one code for a key; one active code; late workers change nothing; sends and guesses bounded; a reset ends older codes; every delivery ends |
| Provider circuit (`identity/authentication_baseline_operations.py`) | one row: closed, open, probing; version, token, deadlines, two heartbeats | poll, probe, finish probe, finish attempt, the public gate | one probe owner, late results ignored, closes only by a probe, recovers |
| Game WebSocket (`identity/consumers.py`, `connection_sessions.py`, `game_session_metrics.py`) | connection state, bound session, channel group, recorded replies, request window, revalidation task, metrics | frames, notice, revalidation, disconnect | no revocation is missed, no reply claims an ended session, one reply per request id |
| Registration, contacts (`identity/services.py`, `views.py`) | `User`, `GameAccount`, `VerifiedContactMethod`, the locks of name and address | register | one user per name and address, from a code of its own; no constraint is met after the checks |
| Security notifications (`identity/security_notifications.py`) | `SecurityNotificationOutbox` with leases and attempts, audit events | claim, finish, fail, exhausted lease | as deliveries; audited exactly when given up |
| Rate limits (`identity/verification_limits.py`, `rate_limits.py`) | window counters in PostgreSQL and in the cache | consume, add, incr | every use is counted, also a denied one; never more than the limit in a window |
| Characters (`characters/services.py`) | character, ownership, request records | create | idempotent, one per account, names unique |
| Content (`content/`) | registry catalog, blueprints, release head, batch, dependencies | make a catalog, compile, bootstrap, verify | what is accepted does not depend on an order; one release per namespace, complete and unchanged |
| Process lease (`process_guard.py`), readiness | a session lock in PostgreSQL | acquire, check | one server process |
| Game client (`client/src/protocol/game-connection.ts`) | sequence numbers, pending requests | connect, request, receive | every request ends |

Interaction. The H5 client reaches the services over HTTP; each service call is one
PostgreSQL transaction that locks its rows in a fixed order (user, account, session, family,
credential). A revocation calls `notify_auth_session_invalidated` after its commit, which
sends into the in-memory channel group of the session; consumers also ask the database every
few seconds. A reset touches sessions, challenges and outboxes in one transaction, and races
the delivery workers, which are processes of their own and share the provider circuit.
The hard behaviours are listed one by one under `hazards` in `PROJECT.json`.

Not modelled.
* JSON contracts and generators, settings, logging, routing: data and pure I/O.
* Cryptography and tokens: an access token is the session it names, a refresh token the pair of
  session and generation, a code the request that caused it.
* The WebSocket client (`client/src/protocol/game-connection.ts`) and the stores of the H5 client
  outside the refresh: planned.
* `content/resolver.py` (only tests call it), the shape checks of registry definitions, and the
  rows of `ContentStartupFailure`: a pure check, and a log.
* Triggers on identity columns (no update of the program names one), and those of characters
  and content.
* What comes before the modelled part of an endpoint and ends it: origin checks and malformed
  input. (`register` counts malformed calls in the cache first; `Signup` followed by
  `SignupFails` is such a call.)

## 2. Modules

| Module | Models |
|---|---|
| `SessionLifecycle` | the abstract promise: a session opens once, honours at most one refresh token, each exchange honours a token never honoured before, closed is final |
| `CodeLifecycle` | the abstract promise of a mailed code: asked for once and for one subject, usable only after its delivery, used at most once, ended only by its own end, a newer code of the subject, or a use that ends the others |
| `AuthSession` | login (two steps: the user is found, then locked and checked), refresh with its terminal records, replay, logout, reset, expiry, administration |
| `AuthSessionProofs` | theorems about `AuthSession`: its invariants and what a step may do |
| `AuthSessionRefinement` | theorems: `AuthSession` implements `SessionLifecycle`, retries keep their result |
| `RefreshCoordinator` | the tabs of one browser; the server is `AuthSession` by `INSTANCE` |
| `RefreshCoordinatorProofs` | theorems about `RefreshCoordinator`; takes those about `AuthSession`, its refinement included, by `INSTANCE` |
| `VerificationDelivery` | codes and deliveries of one address at lock granularity |
| `VerificationDeliveryProofs` | theorems about `VerificationDelivery` |
| `ProviderCircuit` | the circuit and the heartbeats |
| `SecurityNotification` | the notification outbox and its workers, on top of `ProviderCircuit` |
| `SecurityNotificationProofs` | theorems about `ProviderCircuit` and `SecurityNotification` |
| `CodeRequests` | the endpoints that ask for a code: idempotency records, persistent windows, locks |
| `Registration` | `register` with its cached limits, on top of `CodeRequests` |
| `RegistrationProofs` | theorems about `CodeRequests` and `Registration` |
| `SchemaGuards` | the database triggers on states, as predicates the other modules must pass |
| `GameConnection` | the consumers, groups, revalidation tasks and metrics |
| `GameConnectionProofs` | theorems about `GameConnection` |
| `RegistryCatalog` | how a registry catalog is made from definitions, and the reference it is compared with |
| `BlueprintCompiler` | a bundle's inheritance and registry references as a function, the verification of a published revision, and the reference both are compared with |
| `ContentStartup` | servers and bootstrap commands over one namespace: lease, start, bootstrap transaction, readiness probe |
| `CharacterCreation` | `create_character`, on top of `ContentStartup` |
| `CharacterCreationProofs` | theorems about `ContentStartup` and `CharacterCreation` |
| `MC*` | symmetry sets, definitions for constants, state constraints; the `.cfg` files give the constants |

### AuthSession
A step is one transaction: every one locks the rows it decides on, so nothing finer is
visible. `sess`, `fam`, `cred`, `gen`, `terminal` are the row states; `epoch` stands for the
password hash, `late` for `absolute_expires_at <= now`. `Answer(s, g, k)` is the decision of
`refresh` for the credential of generation `g` under key `k`; `Refresh` is that decision with
its writes, a recorded result, a replay (revokes and records the failure), a refusal
(converges) or a rotation. `Converge` is `_converge_authentication_control`. An administrator
may change `lifecycle` and `is_active` between any two steps: nothing in `src/` does.

### RefreshCoordinator
A fetch is a request on the wire, the server's transaction, the headers (the cookie jar takes
Set-Cookie) and the body (the page acts); it may fail, and the tab may crash, in each interval.
Requests of a tab that gave up may still be executed at any later time. `history` and
`doubted` record events for the properties only. Where the server's model has a bound of its
own (`MaxGen`), the instance gives it one generation more than there are keys, so that the
bound is never what stops the server; `KeyLeft` and `SessionLeft` stop new user actions early
enough for everything begun to be finished.

### VerificationDelivery
Some transactions do not take the address's advisory lock, and lock orders differ; a
transaction is one step per lock statement that may wait, and its last step commits. The
exhausted-lease path and `_record_failure` lock outbox, then challenge; a reset locks
challenges, then outboxes: `BreakDeadlock` is PostgreSQL aborting a member of such a cycle (a
worker process then ends, since `run_worker_loop` catches nothing). `sends`, `mailed` and
`seen` are read only by guards of the environment and by properties. The records and limits
of the request endpoint change no row modelled here (`CodeRequests` has them). One address, so
that the user, contact and account rows below its lock need no variables of their own.

A worker first asks the circuit for a permit (`Poll`, `prepare_worker_poll`). Without one it does
nothing, not even end an exhausted lease; with one it goes on, whatever becomes of the circuit.
`circuit` is all a poll sees of `ProviderCircuit`: "closed", or "open" for every state without a
permit. A failed attempt of this module's workers opens it, unless the permit is out of date; others'
failures and the probes are steps of the environment, at any time (`CircuitOpens`,
`CircuitCloses`). A confirmation asks for a closed circuit before it begins, not again; the
heartbeats it asks for too are `ProviderCircuit`'s.

`WaitsFor` reads off each place of a process whose lock its next statement waits for, and
`OneDeadlock` says which circles of waiting processes there are.

`ImplementsCodes` is the refinement of `CodeLifecycle`, here and in `Registration`: `Phase` maps
the states of the rows (`pending_delivery` is "requested", `active` is "usable", every other end
than `consumed` is "ended"), and the subject of a code is its purpose, together with the address in
`Registration`, where there are several. So one abstract promise holds at the grain of the row
locks and at the grain of the endpoints.

### ProviderCircuit
Version and token are compared only for equality with those of a permit and replaced by
every change, so `current[w]` says whether the permit of `w` still matches.

### SecurityNotification
`deliver_one_security_notification` is what a notification worker does under a permit of the
circuit: look for an exhausted lease, claim, send, report to the circuit, report to the outbox.
The module replaces the generic `Attempt` of such a worker by these steps and keeps it for the
delivery workers. A transaction is one step, since each locks one row; the mail is sent
between two of them. `mails` and `audits` are for properties (audits are rows that nothing
reads). A claim on a retired contact saves the row twice, which `ReportsRespectRows` knows.

### SchemaGuards
The triggers refuse a write that revives an ended row or skips a state, and raise
`IntegrityError`. The models of the services leave them out, which is right only if none of
their writes would be refused: `NoResurrection`, `GuardsAccept` and `ReportsRespectRows` say
that every step passes every guard (the deferred ones on the states between transactions), and
`GuardsPass` and `DeferredChecksPass` of `AuthSessionProofs` prove it for sessions.

### CodeRequests and Registration
A request reads the clock, then takes the advisory lock of its key, then those of its windows
in the order of `consume_persistent_limits`, and commits all its writes at once; it may wait at
each lock with the time it read. `charges` and `admitted` of a window and `answers` are for
properties. In `Registration` each cache operation is a step, and a bucket may expire between
any two; `passed` counts the uses of its present life that met no limit. The transaction takes
the lock of the name, then that of the address, and `Accept` separates its checks from its
inserts so that what the locks are for is visible. A code may become `locked` by one wrong guess:
the guesses are counted in `VerificationDelivery`. Django's Redis `incr` is an EXISTS and an
INCR; the model takes `add` and `incr` as atomic, as the cache API promises.

### GameConnection
Channels dispatches one message of a connection at a time; a handler is interrupted only
while it waits for the database, so a query is a step and what lies between two queries is
one. The task of `_revalidate_bound_auth_session` runs beside the handlers. The recorded
replies keep the frame they answer and whether their replay asks for the binding. A query
that raises ends the consumer without its disconnect (`HandlerFails`), as Channels does. A
session's end is an event of its own here: `EndConverges` (a notice is due after the commit),
`EndResets` and `EndLapses` (none is). Notices may be lost as a whole. Malformed frames that
get a reply behave like a ping; those that get none are `ProtocolError`.

### RegistryCatalog, BlueprintCompiler, ContentStartup and CharacterCreation
`FromDefinitions` is `RegistryCatalog.from_definitions`: one definition of each identity, depth
first along the dependencies, every stated hash compared with the computed one.
`Prepare` follows `prepare` of `_prepare_blueprints`: depth first, a cycle is a key met again
on the way down, parents merge from left to right and the blueprint last. Data is one level
of leaves, a hash is the value it is taken of, and only the namespace and revisions the
program writes itself exist: nobody edits rows, and no code writes a second batch. The
reference (`WellFormed`, `ResolvedRight`) is stated without recursion, from the lineage.

A build is what one deployment ships: artifact, registry, creation profiles. The bootstrap
transaction takes the advisory lock, looks, and commits: its writes are one step because
nobody sees them earlier, and a `DatabaseError` or the death of the process ends it at any
place. `lease` is the lock in PostgreSQL, `held` what the processes believe, and they differ
after `LoseLease`. The probe is three steps, since it reads without a transaction.
`admitted` is for `OneTenant` only.

A creation locks the account (with all checks made under it), then the release head, and
checks the name in a step of its own before it inserts, so that what the locks are for is
visible. `told` is what players got, for `RetryRepeats`. A request sees of its server only the
profiles of its build, and PostgreSQL may finish its transaction after the server has stopped.

## 3. Runs

| Run | Instance | Shows |
|---|---|---|
| `auth_session` | 1 user, 2 sessions, 3 keys, 3 generations, 1 reset | type, `Coherent`, `OneSuccessor`, `CurrentPasswordOnly`, `NoResurrection`, `RetryIsStable`, and that `AuthSession` implements `SessionLifecycle` |
| `session_expiry` | 1 session | a divergence, below |
| `refresh_browser` | 2 tabs, 2 sessions, 3 keys, 1 reset elsewhere, 2 faults | `RetryRecovers`, `HonestNoReplay`, `ForcedLogoutExplained` |
| `refresh_liveness` | 2 tabs, 1 session, fair | `EveryCallEnds` |
| `refresh_after_doubt` | 2 tabs, 1 session, 3 faults | a divergence, below |
| `verification_delivery` | 2 challenges, 2 workers, 1 client, 2 attempts, 2 guesses, 1 crash | `RowsAgree`, `SendsBounded`, `OneDeadlock`, `GuardsAccept`, `ResetEndsOlderCodes`, and that the codes implement `CodeLifecycle` |
| `delivery_liveness` | 2 challenges, 1 worker, a circuit that opens and closes, fair | `DeliveryEnds` |
| `security_notification` | 1 delivery worker, 2 notification workers, 1 reset, 2 attempts, 2 faults, fair | `NoticesAgree`, `Fenced`, `Recovers`, `ReportsRespectRows`, `NoticesEnd` |
| `registration` | 2 requests with 2 keys, 2 addresses, 3 windows; 2 calls with 2 names, 2 buckets | `LimitsCount`, `OneAnswer`, `RegistersOnce`, and that the codes implement `CodeLifecycle` |
| `game_connection` | 2 sockets, or 1 with 2 sessions or 3 request ids; 2 requests a window, 2 recorded replies, fair | type, `NoLostNotice`, `HonestReplies`, `MetricsAgree`, `TerminalIsUnique`, `RevokedCloses` |
| `reset_notice` | 1 socket, 1 session | a divergence, below |
| `character_creation` | 2 servers, 1 command, 4 builds; 2 requests, 2 accounts, 2 keys, 3 raw names; 15,972 bundles, all registries of up to 3 definitions | `ContentMeetsReference`, `BootstrapsAlone`, `ReadyIsCurrent`, `OneTenant`, `ConstraintsNeverBite`, `RetryRepeats` |

Why the bounds are enough. Two sessions are needed for a reset or a login beside a refresh,
three generations for "before, at and after the current one", three keys for a retry, a
replay and an honest request at once. Two tabs suffice because the lock has one holder and
every other tab waits in the same way. Two challenges and two workers are the smallest
instance in which a new code supersedes an old one while both are delivered, and two
attempts the smallest with a retry. Limits of 2 guesses (5 in the code), 2 requests and
recorded replies (settings) are reached and passed. Two faults allow a crash during the
recovery from another. In `character_creation` the builds are one that can be verified, one
whose registry moved on, one whose artifact does not load, and one that verifies what the first
one wrote although its registry has an entry more. A second account claims the same name, a
second key asks for a second character. The state constraints `Focus` follow apart what touches
little, so some combinations of rare events are not checked, only proved:

* `character_creation`: requests read a serving server's build and the release and write nothing
  that processes and probes read. So processes of all builds are explored with each other before the
  first request, and requests on one server after the other, without probes; requests do not run on
  the extended build, which offers the same profiles as the first. The run's `FocusedSpec` is `Spec`
  without the steps that would leave this constraint at once; every step of it is a step of `Spec`.
* `game_connection`: sockets share only groups and metrics, so two sockets are followed with one
  session and one request id, using their windows one after the other, and the task of one asks
  while the other rests; a reset, for them, is a logout whose notice is not sent. One socket has a
  request id more than it can keep, with every frame and one session, or two sessions and the frames
  that authenticate, where a notice that is lost is one that is not sent. Request ids are used in order.
* `registration`: requests and calls meet in codes and accounts only. Requests run with each other
  before the first call, calls in the cache with each other where nothing was requested, and their
  transactions, together with the delivery of codes, in what the requests left behind: one code for
  each request sent, and past the locks with an empty cache, which no transaction reads.
* `security_notification`: the circuit alone is followed through two faults, and heartbeats, which no
  worker reads, change before the first reset only. With a notice there is one fault, which delays
  it, or a retired contact, which ends it or keeps the reset from committing.
* `verification_delivery` and `delivery_liveness`: a crash is followed while a lease of the dead
  worker is left, afterwards the rows are those of a slow worker or a failed attempt; a confirmation
  types a usable code of its purpose or a wrong one, other codes being wrong ones to it; guesses and
  expiries of codes, which need a delivery, are not combined with a delivery's second attempt. An
  open circuit only forbids steps, so `verification_delivery` follows closed ones (`Closed`) and
  `delivery_liveness` both.
* `auth_session`: sessions share their account and password only, so one of them rotates more than
  once. `refresh_browser`: a reset elsewhere comes with one fault of the browser, two faults
  without it.

Runs without a liveness property use symmetry wherever model values are only compared. The proofs
of section 4 need neither constraints nor bounds.

The bundles are every inheritance of three blueprints with at most two parents each, a missing one
and the blueprint itself included, times what each of them sets, up to a renaming of the
blueprints; the registries are every set of up to three definitions of two names and two versions
and a third that uses one of them, active or kept, with stated hashes right and wrong.

All runs have `CHECK_DEADLOCK FALSE`: when users stop acting and the
bounds are used up the system may really stop; that nothing hangs is what the liveness
properties say. Every property has a mutant in its module, a plausible bug, which
breaks it in the same run. Where an invariant begins with the types of its module
(`RowsAgree`, `NoticesAgree`, `ConstraintsNeverBite`, `LimitsCount`), they have no entry of their own.

Fairness, and why the code justifies it.
* `refresh_liveness`: a tab's own callbacks and timers run, and the network ends every live
  fetch with an answer or a failure. Users, faults and abandoned requests are not fair.
* `delivery_liveness`: the clock runs, a supervisor restarts workers and they poll for ever
  (`run_worker_loop`), PostgreSQL breaks deadlocks and queues lock waiters: strong
  fairness for the steps that wait. Clients finish a transaction they began. `DeliveryEnds`
  assumes that the circuit is closed for good at some time, which is what `Recovers` promises of
  a provider that is back for good. The assumption is needed: as long as the circuit opens again
  and again every poll may come at a time without a permit, and an exhausted lease stays.
* `security_notification`: the same clock and restarts; only finitely many probes outlast their
  lease, otherwise no circuit of this kind recovers, and the provider is back at some time.
* `game_connection`: the event loop runs handlers and tasks, and the database answers or
  raises. Nothing makes a notice arrive or a socket disconnect.

Divergences from the documents that the runs show.
* Document 13 says the absolute TTL moves a session to `expired`. No code writes that state; a
  refresh after the expiry makes the session `revoked` with `SESSION_REVOKED` (`session_expiry`).
* Document 15 forbids trying a cookie again with a new key after an ambiguous answer. When the
  best-effort logout fails, another tab does (`refresh_after_doubt`).
* The handoff document says a reset notifies the online connections like a logout does.
  `_reset_password_with_verification` registers no notice; the periodic revalidation closes
  them later (`reset_notice`; `RevokedCloses` holds for them all the same).

Seen while modelling, without a run of its own: dependency rows are verified in the order of
their path as a string, so a blueprint with eleven parents bootstraps and then fails every
verification (`ContentMeetsReference` says: up to ten and no more; `content/startup.py:560`); a
registry that keeps two versions of one name is accepted at the start, and then
`build_character_registry_catalog`, which makes all its definitions active, is refused (same
property); the three constraint names `create_character`
translates cannot be violated by it (`ConstraintsNeverBite`); a server that lost the lease, or
whose content is not ready, goes on answering requests, only its probe says 503; an inherited
registry reference is replaced per path and list position, so a child's reference with the
same path at another position stands beside it (`References`); a release whose definitions a
build keeps only in its compatibility catalog is not ready. For that last, two tests back
`ReadyIsCurrent` (`test_content_runtime.py:286`, `test_content_startup.py:371`), while document 12
(lines 174-184) lets an active batch reuse an old published revision and resolve its
definitions from that catalog; the code does so for pinned revisions only.

## 4. Proofs

`AuthSessionProofs` proves, for any sets of users, sessions and keys and any bounds, from the
assumptions on constants that `AuthSession` names (`TypeCorrect` and the rest need nothing else):

* `TypeCorrect`: `Spec => []TypeOK`.
* `CoherenceHolds`: `Spec => []Coherent`. `Coherent` is inductive together with `TypeOK`: that
  every earlier generation is used and none after the current one exists is what makes a
  rotation keep "exactly one active credential".
* `EndedIsFinal`: `Spec => NoResurrection`, from the same invariant; a step on an ended session
  can only record a failure or converge what is already converged, so it keeps the reason and
  passes the row triggers (`NextPasses`, `GuardsPass`), and the deferred checks of the commit
  follow from `Coherent` (`DeferredChecksPass`).
* `OneSuccessorHolds`: `Spec => []OneSuccessor`, inductive with `TypeOK` and `Coherent`: a
  rotation happens only at the current generation, so the record it writes cannot name a
  generation another key already exchanged.
* `CurrentPasswordHolds`: `Spec => []CurrentPasswordOnly`, by the strengthening `PasswordInv`,
  which also covers logins that have begun: what was presented never exceeds the current epoch.

Each is laid out as initial states, one lemma for every step (one case per action), and a
temporal step. Lemmas about `Converge`, `Revoked` and `Record` are stated once.

`AuthSessionRefinement` builds on these:

* `Implements`: `Spec => ImplementsLifecycle`. `Coherent` says which tokens the rows honour, the
  current generation of an active session and no other (`CoherentHonours`), so state and
  generation decide what a step shows: a login opens (`LoginOpens`), a rotation exchanges
  (`RotationExchanges`), every convergence closes the sessions of its scope that are still
  active, none or several (`ConvergenceCloses`), all else stutters (`ShowsNothing`).
* `RetriesStable`: `Spec => RetryIsStable`. Generations, credentials and records only go forward
  (`NextForward`), a record names an issued credential (`RecordsIssued`, inductive), and a
  successor that is not current never is again: the family went on, or ended
  (`SupersededForGood`, from `Coherent`, `OneSuccessor` and `NextKeepsEnded`).

`RefreshCoordinatorProofs` proves, for any finite set of tabs, any sessions and any bounds:

* `BrowserTypes`, `RetryRecoversHolds`, `HonestNoReplayHolds` and `ForcedLogoutHolds`, all from one
  invariant (`BrowserInvHolds`) in two halves. `Base` holds whatever users do: the server's rows are
  those of `AuthSession`, whose theorems are instantiated for them (`ServerStep`); no cookie, request
  or answer names a credential that was not issued; a tab has one request out or one answer coming;
  and enough keys are left for every tab that may still need one, counted by cardinality
  (`KeysRight`), so that the bound is never what stops a refresh.
* `HonestRight` is the half that holds until the first logout. `RetryRecovers` alone is not
  inductive, because a request of a tab that gave up may still be executed at any later time. So
  `RequestsRight` says of every refresh on the wire that it names the current credential or that its
  key has a record, and that those without a record have one key for each session, the one in the
  slot if the browser can still use that session. `CookieRight` and `LoginsRight` cover a login that
  replaces the cookie while a refresh is under way, `AnswersRight` the answer between its headers
  and its body, and `Untorn`, which holds until a fetch is torn, why an answer in doubt means that
  the session has ended. What one step does to the rows is said once (`RefreshEffect`,
  `RecordedEffect`, `RowsOpen`, `RowsEnd`), and steps that only take requests and answers away share
  one lemma (`HonestKept`).
* `ServerIsAuthSession`: `Spec => Server!Spec`, and `SessionsKeepTheirPromise`:
  `Spec => Server!ImplementsLifecycle`. Tabs, network and the reset elsewhere drive the server only by
  the calls `AuthSession` has (`ServesOrNot`: every step is one of its operations, with a credential
  and a key in range because `Base` says what the wire may carry, or leaves the rows alone). So what
  is proved of `AuthSession` for any callers holds of this composition, and the step lemma of its
  refinement carries the abstract promise to it.

`RegistrationProofs` proves, for any sets of requests, keys, calls, names and addresses and any
limits (only `LimitsCountHolds` needs assumptions on constants):

* `OneAnswerHolds`: `Spec => []OneAnswer`, and `RegistersOnceHolds`: `Spec => []RegistersOnce`.
  Both follow from `RegistrationInv`, which has two halves. `CodeInv`: whoever holds the lock of a
  key finds no record of it, and no two requests hold it (`KeysApart`). `AccountInv`: two calls never
  hold the lock of one name or of one address (`LocksApart`), so what a call has checked, the
  code included, still holds when it inserts (`ChecksHold`). Each half needs of the other only how
  codes and records may change (`CodesStay`, `RowsStay`), which is what `CodesMove` and
  `CallsStay` are stated over; the delivery worker respects it because it takes the lock of the
  address before it supersedes a code (`DeliversStep`).
* `CodesImplemented`: `Spec => ImplementsCodes`, step by step: a commit of a request asks for a code
  of a key that had none (`ChargePromised`), a delivery makes it usable and ends the usable codes of
  its own subject (`RivalsPromised`, `DeliversPromised`), an attempt ends one or none, an insert uses a
  code that `RegistrationInv` says is usable until then (`InsertPromised`); all else stutters, because
  the record of a code that is there never changes (`ShowsNothing`).
* `LimitsCountHolds`: `Spec => []LimitsCount`, from two invariants on top of that one. `WindowInv`:
  the charges of a window are the cardinality of the requests recorded in it. A commit adds its
  record to exactly the windows it charges, once, because whoever holds a key finds no record
  (`RecordedThere`, `RecordedElsewhere`); what a window lets through is among what it counts, and a
  request passes only if all its windows are within their limits (`CountedRow`, `ChargeExact`).
  `CacheInv`: uses that met no limit are among those counted, and every count is a call of its own
  that has left the calls still to count in the bucket (`Pending`), which bounds the counts also
  while buckets expire between the operations of a call (`ConsumedOnce`, `UseStep`).

`CharacterCreationProofs` proves, for any servers, commands, builds, requests, accounts and names:

* `BootstrapsAloneHolds`: the advisory lock of the namespace is held exactly while a startup
  transaction is open (`NamespaceHeld`), so the one that writes finds what it found when it looked
  (`WritersFindNone`); `PlaceStep` states once how a process moves with its lock.
* `OneTenantHolds`: while a server holds the lease, no other was let pass since it took it
  (`AdmittedHolds`), also while the lease is nobody's.
* `ConstraintsNeverBiteHolds`: row locks are held exactly by open transactions (`LocksHeld`), and
  what a request found under them is still so (`FoundFree`): an insert is for another account than
  those of the transactions still open, none of which has checked its name (`InsertStep`).
* `RetryRepeatsHolds`: `Spec => RetryRepeats`. Records and answers agree and a key has one record
  (`RecordsRight`); a request that holds the account's lock looks for the record before it can be
  refused, and the lock is what keeps another request from writing it in between (`CreationTells`).
* `ReadyIsCurrentHolds`: `VerifiedIsCompiled /\ Spec => []ReadyIsCurrent`. A release is what a build
  that loads publishes (`ReleaseLoads`), a process that has passed loading runs a build that loads
  (`BuildsRun`), so what it says it verified, or found at a probe, is the release that is there. The
  premise speaks of no state: of two builds that load, one that verifies the release of the other
  would compile the same. It is a fact about the recursion of `Prepare`, whose proof would be an
  induction over bundles; `ContentMeetsReference` checks it for the builds of the run, among them
  two that verify each other's release with different registries.

The types and the owners of the row locks (`CreationTypesHold`) follow from all of these and are
the first part of `ConstraintsNeverBite`. The assumptions used are that the constants for "nobody",
and "no release", are nobody and none.

`SecurityNotificationProofs` proves, for any workers, notices, attempts and faults:

- `FencedHolds`: late results of the circuit change nothing. The invariant `PermitsApart` says that
  a permit the circuit has overtaken no longer equals the row, whatever the worker does with it.
- `NoticesAgreeHolds`: rows, audits and mails of a notice agree. The property alone is not
  inductive: a report `accepted` makes a row `delivered` later than the mail was sent, so `AgreeInv`
  carries with every job what its mail already did (`AcceptedWasSent`), and counts the workers that
  have claimed and not yet sent (`Senders`) by cardinality: a claim adds one worker and one attempt,
  a mail takes one worker away, a crash only takes away, and a lease that is taken over by another
  worker leaves the first one counted, which is why the bound is on attempts and not on leases.
  Assumed: the workers are finitely many and none of them is "no worker".
- `ReportsRespectRowsHold`: an action property, from `NoticesAgree`'s invariant: a worker that still
  holds the claim it made is the owner of the row, so a report moves no other worker's row
  (`ReportRespects`), and every save is one the database's guard accepts, also the two saves of a
  claim on a retired contact (`ClaimRespects`).
- The types, part of `NoticesAgree` (`NoticeTypesHold`): rows and jobs from the same invariant, the
  circuit from `CircuitRight`: a permit to probe that still matches belongs to an open probe, and to
  one worker only (`ProbesRight`).

`VerificationDeliveryProofs` proves, for any challenges, workers, clients, attempts, guesses and
crashes, from the assumptions on constants that `VerificationDelivery` names:

- `RowsAgreeHolds`, `SendsBoundedHolds`, `GuardsAcceptHolds` and `ResetEndsOlderCodesHolds`. No
  transaction holds every lock it depends on from its first statement, so the rows alone
  (`RowsRight`, which adds to `RowsAgree` that a code nobody delivered has no guesses and that a
  mail is paid for by an attempt) are not inductive. `WorkerRight` and `ClientRight` say what each
  place of a process implies: a worker that is about to commit holds its outbox, still leased, and
  exactly the active codes its own replaces; a reset that is about to commit holds every reset code
  it has seen that may still be used. `Respects` is what a step may do to the others: it leaves
  their locks and the rows under them alone, and makes no code active or inactive under somebody
  else's advisory lock. `StepRight` combines the three, so each action is looked at for its own
  process only. The expiry of a code and the lapse of a lease are the steps that need care, since
  they take no advisory lock.
- `OneDeadlockHolds`: a circle of waiting processes, however long, holds a client and a worker that
  wait for each other with an outbox and its challenge, the pair `BreakDeadlock` is about. What a
  process holds is read off its place (`HoldsInvariant`: a worker holds its own outbox before any
  challenge, and nobody else's; who holds challenges or outboxes in the middle of a transaction holds
  the advisory lock, or has its outbox). The holder of the advisory lock waits for no other holder of
  it (`CirclesBroken`), so a circle has to pass through the one pair of opposite orders.
- `CodesImplemented`: `Spec => ImplementsCodes`. The rows say little of purposes, so `LockedAlike`, an
  invariant, says that the challenges a transaction has locked are of the purpose it is about. Then the
  codes a delivery replaces are exactly the usable ones of its subject (`DeliverPromised`), and those a
  reset ends are others of its subject that were asked for (`ResetPromised`); the crash, the lapse of a
  lease and every statement that only locks show nothing.

`GameConnectionProofs` proves, for any sessions, request ids and limits and any finite set of
connections (`FinitelyManyAssumption`, for the metrics only):

- `NoLostNoticeHolds`: the strengthening `NoticesRight` follows the notice through the handler: the
  channel has it, or the last question of `_authenticate` is still to be asked, or was answered no.
- `HonestRepliesHolds`: `RepliesRight`, that a session which had ended when the frame came in is
  ended whenever the handler asks, and `BindingRight`, that the handler asks about the session of
  its frame although the task may have unbound the connection meanwhile.
- `TerminalIsUniqueHolds`: `RecordsRight` says that nobody else records the reply a handler is
  still to record, and that there is room for it.
- `MetricsAgreeHolds`: the counters are cardinalities; `BindCounts`, `UnbindCounts` and `KeepCounts`
  say once how a step changes them.

All four are parts of one invariant (`GameInv`), because each place of a handler knows
something of its frame, the binding, the records and the notices; `Undisturbed` says that the steps
of other connections and of sessions keep it.

So every invariant and every action property of the runs is proved, but for one. Only
model-checked: `ContentMeetsReference`, which compares recursive computations with a reference over
data (its part `VerifiedIsCompiled` is the premise above), and the liveness properties
`EveryCallEnds`, `DeliveryEnds`, `Recovers`, `NoticesEnd` and `RevokedCloses` (induction over data,
and fairness with ENABLED, are out of the prover's reach).

## 5. Plan

Done, in order of importance: `AuthSession` with its abstract specification and proofs,
`RefreshCoordinator` on top of it, `VerificationDelivery`, `ProviderCircuit` with
`SecurityNotification`, `GameConnection`, `CharacterCreation` on top of `ContentStartup`,
`BlueprintCompiler` and `RegistryCatalog`, `Registration` on top of `CodeRequests`, and the
guards.

Next modules: the WebSocket client against `GameConnection`; the guards of characters and
content.

Next proofs: that `SecurityNotification` implements `ProviderCircuit` once the two modules count
their faults apart (a lease of a notice that lapses spends one of the circuit's); what a
constant-level argument can say of `BlueprintCompiler` without induction, such as what one merge
of a parent keeps; the step lemmas that the liveness arguments rest on.
