--------------------------- MODULE ContentStartup ---------------------------
(***************************************************************************)
(* Game server processes and bootstrap commands over one content namespace:  *)
(* the process lease (process_guard.py), the startup of an ASGI process      *)
(* (asgi.py, content/runtime.py), the bootstrap transaction and its          *)
(* verification (content/startup.py, content/seed_artifact.py), and the       *)
(* readiness probe (health/readiness.py).                                   *)
(*                                                                         *)
(* A build is what one deployment ships: the seed artifact (whether its       *)
(* hashes hold, its seed id, its bundle and the registry context it was       *)
(* frozen with), the registry catalog, and the active character creation     *)
(* profiles with their start room.  CONTENT_STARTUP_ENABLED is on.            *)
(*                                                                         *)
(* A transaction's writes are seen at its commit only.  A server that finds   *)
(* the lease taken exits at once: a step that changes nothing, left out.  So   *)
(* are the rows of ContentStartupFailure, which the program only writes.      *)
(***************************************************************************)
EXTENDS BlueprintCompiler, FiniteSets

CONSTANTS
    Servers,        \* ASGI processes
    Commands,       \* runs of manage.py bootstrap_content_seed
    NoProcess,
    Builds,         \* [intact, seed, bundle, context, catalog, profiles]
    NoBuild,
    NoRelease

Processes == Servers \cup Commands

ASSUME ProcessesAssumption == NoProcess \notin Processes /\ Servers \cap Commands = {}

VARIABLES
    lease,      \* the process whose open connection holds pg_try_advisory_lock
    held,       \* processes whose _lease is not None
    admitted,   \* servers a probe let pass since the lease changed hands: for properties
    namespace,  \* the process whose transaction holds the startup advisory lock
    release,    \* the active release: [seed, bundle, rows], or NoRelease
    build,      \* the build a process runs
    pc,
    outcome,    \* how a process's startup ended
    probe       \* a server's readiness probe: where it is, or its last answer

contentVars == <<lease, held, admitted, namespace, release, build, pc, outcome, probe>>

Places   == {"off", "loading", "locking", "inspecting", "writing", "serving"}
Outcomes == {"none", "bootstrapped", "verified", "failed"}
Probes   == {"none", "leased", "unseen", "ready", "not_ready"}

Compiled(b) == Prepare(b.bundle, b.catalog)

\* The release that build b writes.
Published(b) == [seed |-> b.seed, bundle |-> b.bundle, rows |-> Compiled(b)]

ASSUME NoReleaseAssumption == \A b \in Builds : NoRelease # Published(b)

ContentTypeOK ==
    /\ lease \in Servers \cup {NoProcess}
    /\ held \subseteq Servers
    /\ admitted \subseteq Servers
    /\ namespace \in Processes \cup {NoProcess}
    /\ release \in {NoRelease} \cup {Published(b) : b \in Builds}
    /\ build \in [Processes -> Builds \cup {NoBuild}]
    /\ pc \in [Processes -> Places]
    /\ outcome \in [Processes -> Outcomes]
    /\ probe \in [Servers -> Probes]

ContentInit ==
    /\ lease = NoProcess
    /\ held = {}
    /\ admitted = {}
    /\ namespace = NoProcess
    /\ release = NoRelease
    /\ build = [p \in Processes |-> NoBuild]
    /\ pc = [p \in Processes |-> "off"]
    /\ outcome = [p \in Processes |-> "none"]
    /\ probe = [s \in Servers |-> "none"]

-----------------------------------------------------------------------------
\* A new session of s takes the lease: acquire_single_process_lease with nothing held, or
\* with a connection that turned out to be dead.
TakeLease(s) ==
    /\ lease = NoProcess
    /\ lease' = s
    /\ held' = held \cup {s}
    /\ admitted' = {s}

\* create_application.
StartServer(s, b) ==
    /\ pc[s] = "off"
    /\ TakeLease(s)
    /\ build' = [build EXCEPT ![s] = b]
    /\ pc' = [pc EXCEPT ![s] = "loading"]
    /\ outcome' = [outcome EXCEPT ![s] = "none"]
    /\ UNCHANGED <<namespace, release, probe>>

StartCommand(c, b) ==
    /\ pc[c] = "off"
    /\ outcome[c] = "none"
    /\ build' = [build EXCEPT ![c] = b]
    /\ pc' = [pc EXCEPT ![c] = "loading"]
    /\ UNCHANGED <<lease, held, admitted, namespace, release, outcome, probe>>

\* The end of start(): a server serves whatever the outcome, a command exits.
Ends(p, result) ==
    /\ outcome' = [outcome EXCEPT ![p] = result]
    /\ pc' = [pc EXCEPT ![p] = IF p \in Servers THEN "serving" ELSE "off"]

Unlocked(p) == IF namespace = p THEN NoProcess ELSE namespace

\* load_seed_artifact: the hashes hold, the bundle compiles with the active registry, and
\* selects the definitions the artifact was frozen with.
Loads(b) ==
    /\ b.intact
    /\ Compiles(Compiled(b))
    /\ RegistryContext(Compiled(b)) = b.context

Load(p) ==
    /\ pc[p] = "loading"
    /\ IF Loads(build[p])
       THEN /\ pc' = [pc EXCEPT ![p] = "locking"]
            /\ UNCHANGED outcome
       ELSE Ends(p, "failed")
    /\ UNCHANGED <<lease, held, admitted, namespace, release, build, probe>>

\* Mutant: the transaction starts without the advisory lock.
LockNothing(p) == UNCHANGED namespace

\* _lock_startup_namespace.
TakeNamespace(p) == namespace = NoProcess /\ namespace' = p

LockNamespace(p) ==
    /\ pc[p] = "locking"
    /\ TakeNamespace(p)
    /\ pc' = [pc EXCEPT ![p] = "inspecting"]
    /\ UNCHANGED <<lease, held, admitted, release, build, outcome, probe>>

\* Mutant: the active items are resolved like historical ones.
VerifiesExactly(r, b) ==
    /\ r.seed = b.seed
    /\ r.bundle = b.bundle
    /\ \A key \in DOMAIN r.rows : VerifiesRevision(r.rows[key], b.catalog, FALSE)

\* _verify_existing_release of an initialized namespace: the release comes from this seed,
\* its raw payloads are the bundle's, its revisions can be resolved exactly, and those of
\* the active batch are what the active registry gives.
Verifies(r, b) ==
    /\ VerifiesExactly(r, b)
    /\ \A key \in DOMAIN r.rows : VerifiesRevision(r.rows[key], b.catalog, TRUE)

Inspect(p) ==
    /\ pc[p] = "inspecting"
    /\ IF release = NoRelease
       THEN /\ pc' = [pc EXCEPT ![p] = "writing"]
            /\ UNCHANGED <<namespace, outcome>>
       ELSE /\ namespace' = Unlocked(p)
            /\ Ends(p, IF Verifies(release, build[p]) THEN "verified" ELSE "failed")
    /\ UNCHANGED <<lease, held, admitted, release, build, probe>>

\* The rows of the release, then the active pointer, in one transaction; content_release_
\* head_namespace_uniq allows one release head.
Commit(p) ==
    /\ pc[p] = "writing"
    /\ release = NoRelease
    /\ release' = Published(build[p])
    /\ namespace' = Unlocked(p)
    /\ Ends(p, "bootstrapped")
    /\ UNCHANGED <<lease, held, admitted, build, probe>>

\* A DatabaseError anywhere in the transaction: rolled back.
DatabaseFails(p) ==
    /\ pc[p] \in {"locking", "inspecting", "writing"}
    /\ namespace' = Unlocked(p)
    /\ Ends(p, "failed")
    /\ UNCHANGED <<lease, held, admitted, release, build, probe>>

-----------------------------------------------------------------------------
\* Mutant: a lease once taken is trusted without asking its connection.
TrustsLease(s) == s \in held

\* SELECT 1 on the lease's connection.
LeaseAnswers(s) == s \in held /\ lease = s

\* probe_readiness up to the lease.  In the last case the lease is another process's, or of s
\* itself when its connection is dead and PostgreSQL has not noticed, or PostgreSQL cannot be
\* reached: then s keeps its dead connection if the first query of the probe failed.
ProbeLease(s) ==
    /\ pc[s] = "serving"
    /\ probe[s] \notin {"leased", "unseen"}
    /\ \/ /\ LeaseAnswers(s)
          /\ admitted' = admitted \cup {s}
          /\ probe' = [probe EXCEPT ![s] = "leased"]
          /\ UNCHANGED <<lease, held>>
       \/ /\ ~LeaseAnswers(s)
          /\ TakeLease(s)
          /\ probe' = [probe EXCEPT ![s] = "leased"]
       \/ /\ held' \in {held, held \ {s}}
          /\ probe' = [probe EXCEPT ![s] = "not_ready"]
          /\ UNCHANGED <<lease, admitted>>
    /\ UNCHANGED <<namespace, release, build, pc, outcome>>

\* readiness: load_seed_artifact, then verify_seed_bundle, whose first query reads the
\* release head.  No transaction and no lock.
ProbeContent(s) ==
    /\ probe[s] = "leased"
    /\ probe' = [probe EXCEPT ![s] =
           IF ~Loads(build[s]) THEN "not_ready"
           ELSE IF release = NoRelease THEN "unseen"
           ELSE IF Verifies(release, build[s]) THEN "ready" ELSE "not_ready"]
    /\ UNCHANGED <<lease, held, admitted, namespace, release, build, pc, outcome>>

\* Its second query: a namespace without a release head but with blueprint heads is
\* "partially initialized", without them it is not initialized.  A release committed in
\* between is reported as the former; both are 503.
ProbeHeads(s) ==
    /\ probe[s] = "unseen"
    /\ probe' = [probe EXCEPT ![s] = "not_ready"]
    /\ UNCHANGED <<lease, held, admitted, namespace, release, build, pc, outcome>>

\* PostgreSQL ends the session that holds the lease; the process does not notice.
LoseLease(s) ==
    /\ lease = s
    /\ lease' = NoProcess
    /\ UNCHANGED <<held, admitted, namespace, release, build, pc, outcome, probe>>

\* The process exits or dies: its connections close, its transaction is rolled back.
Stops(p) ==
    /\ pc[p] # "off"
    /\ pc' = [pc EXCEPT ![p] = "off"]
    /\ build' = [build EXCEPT ![p] = NoBuild]
    /\ lease' = IF lease = p THEN NoProcess ELSE lease
    /\ held' = held \ {p}
    /\ namespace' = Unlocked(p)
    /\ outcome' = [outcome EXCEPT ![p] = "none"]
    /\ probe' = [s \in Servers |-> IF s = p THEN "none" ELSE probe[s]]
    /\ UNCHANGED <<admitted, release>>

ProcessSteps(p) ==
    Load(p) \/ LockNamespace(p) \/ Inspect(p) \/ Commit(p) \/ DatabaseFails(p) \/ Stops(p)

ContentNext ==
    \/ \E s \in Servers, b \in Builds : StartServer(s, b)
    \/ \E c \in Commands, b \in Builds : StartCommand(c, b)
    \/ \E p \in Processes : ProcessSteps(p)
    \/ \E s \in Servers : ProbeLease(s) \/ ProbeContent(s) \/ ProbeHeads(s) \/ LoseLease(s)

-----------------------------------------------------------------------------
\* startup.py:874 takes the advisory lock before it looks: a process that is about to write
\* the release is alone and still finds none, so of processes that start together one
\* bootstraps, the others verify and no unique constraint is met.
BootstrapsAlone ==
    \A p \in Processes : pc[p] = "writing" => release = NoRelease /\ namespace = p

\* runtime.py:124 and startup.py:704: a process that says it is ready, at its start or to a
\* probe, serves exactly what its own artifact and its own active registry would compile to,
\* whoever wrote the release and with whatever registry.
ReadyIsCurrent ==
    \A p \in Processes :
        outcome[p] \in {"bootstrapped", "verified"} \/ (p \in Servers /\ probe[p] = "ready")
        => /\ release # NoRelease
           /\ release.seed = build[p].seed
           /\ release.rows = Compiled(build[p])

\* What a build verifies of another build's release is what it would have written itself.
VerifiedIsCompiled ==
    \A b, c \in Builds : Loads(b) /\ Loads(c) /\ Verifies(Published(c), b) => Compiled(c) = Compiled(b)

\* startup.py:344 and registry.py:157: whatever bundle or definitions a build may bring, what
\* the depth-first merge and the depth-first hashing accept, and what they make of it, is what
\* the inheritance and the dependency rules say.  And startup.py:560: what it wrote is verified
\* again with ten parents and no more, as the rows are sorted by a path that ends in a number
\* of one digit or two.  A build that verifies another one's release would have written the
\* same.  None of this reads a state, so it is asked once, where nothing has run.
ContentMeetsReference ==
    ContentInit =>
        /\ \A bundle \in Bundles : MeetsReference(bundle, Catalog)
        /\ \A registry \in Registries : CatalogMeetsReference(registry.active, registry.others)
        /\ \A n \in 0 .. 12 : VerifiesRevision(WithParents(n), Catalog, TRUE) <=> n <= 10
        /\ VerifiedIsCompiled

\* process_guard.py:26: from the moment a server takes the lease to the moment another one
\* does, probes let one server pass, also when its connection broke in between and it does
\* not know.
OneTenant == Cardinality(admitted) <= 1
=============================================================================
