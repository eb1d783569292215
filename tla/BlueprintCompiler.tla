-------------------------- MODULE BlueprintCompiler --------------------------
(***************************************************************************)
(* How a seed bundle becomes published revisions (content/startup.py), and  *)
(* how a published revision is verified again at every later start.         *)
(*                                                                         *)
(* A bundle maps a blueprint key to its raw payload:                        *)
(*   kind      "room", "skill", "item", ...                                 *)
(*   parents   parent_keys, in order                                        *)
(*   data      a partial function, field |-> value (a leaf)                 *)
(*   profiles  behavior_profile_keys, in order: names of registry entries   *)
(*   refs      registry_refs, in order: [path, name, version]               *)
(* A registry catalog (RegistryCatalog) is [active: name |-> definition,     *)
(* compat: a set of <<name, definition>>]; a definition is [version, hash].   *)
(*                                                                         *)
(* Hashes are injective, so a stored hash is the value itself.  Fields that  *)
(* are only copied (tags, spawn_policy, version) are left out, and so are    *)
(* the messages: an error is its class.                                     *)
(***************************************************************************)
EXTENDS RegistryCatalog

CONSTANTS
    Bundles,    \* bundles, and
    Catalog     \* a registry, for which the compiler is compared with the reference

AnyVersion == "any"

\* _deep_merge, for leaves: what the later payload has replaces what was there.
DeepMerge(base, override) == override @@ base

-----------------------------------------------------------------------------
(***************************************************************************)
(* Registry references.  A slot is <<dependency_path, ordinal>>: profiles    *)
(* have the path "profiles", a registry_ref has its own path and the place   *)
(* it has in the list.                                                      *)
(***************************************************************************)
ProfileRefs(raw) ==
    [slot \in {<<"profiles", i>> : i \in DOMAIN raw.profiles} |->
        [name |-> raw.profiles[slot[2]], version |-> AnyVersion]]

ExplicitRefs(raw) ==
    [slot \in {<<raw.refs[i].path, i>> : i \in DOMAIN raw.refs} |->
        [name |-> raw.refs[slot[2]].name, version |-> raw.refs[slot[2]].version]]

\* The artifact's schema requires the blueprint's own list of profiles, even an empty one, and
\* the inherited ones give way to it; any other inherited reference stays unless the blueprint fills the same slot.
References(raw, inherited) ==
    LET kept == {slot \in DOMAIN inherited : slot[1] # "profiles"}
    IN  ExplicitRefs(raw) @@ ProfileRefs(raw) @@
        [slot \in kept |-> [name |-> inherited[slot].name,
                            version |-> inherited[slot].definition.version]]

\* RegistryCatalog.resolve_active succeeds.
ResolvesActive(catalog, ref) ==
    /\ ref.name \in DOMAIN catalog.active
    /\ ref.version \in {AnyVersion, catalog.active[ref.name].version}

\* RegistryCatalog.resolve_exact succeeds.
ResolvesExact(catalog, dependency) == <<dependency.name, dependency.definition>> \in catalog.compat

\* The stored dependency is what the catalog would give a new blueprint.
ResolvesCurrent(catalog, dependency) ==
    /\ dependency.name \in DOMAIN catalog.active
    /\ catalog.active[dependency.name] = dependency.definition

Bound(catalog, refs) ==
    [slot \in DOMAIN refs |-> [name |-> refs[slot].name,
                               definition |-> catalog.active[refs[slot].name]]]

-----------------------------------------------------------------------------
NoError == "none"
Blank   == [error |-> NoError, data |-> <<>>, lineage |-> <<>>, parents |-> <<>>, registry |-> <<>>]
Refused(error) == [Blank EXCEPT !.error = error]

\* _prepare_blueprints: depth first along parent_keys.  A key met again on the way down is
\* a cycle; the parents are merged from left to right and the blueprint itself last.
Prepare(bundle, catalog) ==
    LET prepare[key \in DOMAIN bundle, visiting \in SUBSET DOMAIN bundle] ==
            LET raw == bundle[key]
                Inherit(sofar, parent) ==
                    IF sofar.error # NoError THEN sofar
                    ELSE IF parent \notin DOMAIN bundle THEN Refused("parent_not_found")
                    ELSE LET prepared == prepare[parent, visiting \cup {key}]
                         IN  IF prepared.error # NoError THEN prepared
                             ELSE IF bundle[parent].kind # raw.kind THEN Refused("kind_mismatch")
                             ELSE [error    |-> NoError,
                                   data     |-> DeepMerge(sofar.data, prepared.data),
                                   lineage  |-> sofar.lineage \o prepared.lineage,
                                   parents  |-> Append(sofar.parents, parent),
                                   registry |-> prepared.registry @@ sofar.registry]
                inherited == FoldLeft(Inherit, Blank, raw.parents)
                refs      == References(raw, inherited.registry)
            IN  IF key \in visiting THEN Refused("inheritance_cycle")
                ELSE IF inherited.error # NoError THEN inherited
                ELSE IF \E slot \in DOMAIN refs : ~ResolvesActive(catalog, refs[slot])
                     THEN Refused("registry_reference")
                ELSE [inherited EXCEPT !.data     = DeepMerge(@, raw.data),
                                       !.lineage  = Append(@, key),
                                       !.registry = Bound(catalog, refs)]
    IN  [key \in DOMAIN bundle |-> prepare[key, {}]]

Compiles(prepared) == \A key \in DOMAIN prepared : prepared[key].error = NoError

\* seed_registry_context: the definitions a bundle selects.
RegistryContext(prepared) ==
    UNION {{<<prepared[key].registry[slot].name, prepared[key].registry[slot].definition>> :
                slot \in DOMAIN prepared[key].registry} : key \in DOMAIN prepared}

-----------------------------------------------------------------------------
(***************************************************************************)
(* Verification of a published revision.  The dependency rows are read back  *)
(* sorted by their path, a string: "/parent_keys/10" comes before            *)
(* "/parent_keys/2".  The compiled payload keeps them in parent order.        *)
(***************************************************************************)
Digits(n) == IF n < 10 THEN <<n, -1>> ELSE <<n \div 10, n % 10>>

PathBefore(m, n) ==
    LET a == Digits(m)
        b == Digits(n)
    IN  a[1] < b[1] \/ (a[1] = b[1] /\ a[2] < b[2])

\* The place in which the row of parent n is read back.
Rank(n, rows) == Cardinality({m \in 0 .. rows - 1 : PathBefore(m, n)})

\* resolved_dependencies equals the rows, in the order they are compared in.
DependenciesAgree(revision) ==
    \A n \in 0 .. Len(revision.parents) - 1 :
        revision.parents[Rank(n, Len(revision.parents)) + 1] = revision.parents[n + 1]

\* _verify_published_revision of a revision no one has tampered with.
VerifiesRevision(revision, catalog, active_registry) ==
    /\ DependenciesAgree(revision)
    /\ \A slot \in DOMAIN revision.registry :
           IF active_registry THEN ResolvesCurrent(catalog, revision.registry[slot])
           ELSE ResolvesExact(catalog, revision.registry[slot])

-----------------------------------------------------------------------------
(***************************************************************************)
(* The reference: what a bundle should resolve to, said without recursion.   *)
(***************************************************************************)
Parents(bundle, key) == {bundle[key].parents[i] : i \in DOMAIN bundle[key].parents}

\* Every parent exists and has its child's kind, and every set of blueprints has one
\* without a parent in the set.
WellFormed(bundle) ==
    /\ \A key \in DOMAIN bundle : \A parent \in Parents(bundle, key) :
           parent \in DOMAIN bundle /\ bundle[parent].kind = bundle[key].kind
    /\ \A S \in SUBSET DOMAIN bundle \ {{}} : \E key \in S : Parents(bundle, key) \cap S = {}

Declared(raw) == {[name |-> raw.profiles[i], version |-> AnyVersion] : i \in DOMAIN raw.profiles}
                 \cup {[name |-> raw.refs[i].name, version |-> raw.refs[i].version] : i \in DOMAIN raw.refs}

\* What a blueprint sets itself, apart from its profiles: fields of its data, and slots.
Sets(raw) == DOMAIN raw.data \cup DOMAIN ExplicitRefs(raw)

\* The last blueprint of a lineage that sets something decides it.
DecidedBy(bundle, lineage, thing) ==
    LET setters == {i \in DOMAIN lineage : thing \in Sets(bundle[lineage[i]])}
    IN  bundle[lineage[CHOOSE i \in setters : \A j \in setters : j <= i]]

ResolvedRight(bundle, catalog, key, row) ==
    LET profiles == DOMAIN ProfileRefs(bundle[key])
    IN  /\ row.lineage[Len(row.lineage)] = key
        /\ \A i \in DOMAIN row.lineage : \A parent \in Parents(bundle, row.lineage[i]) :
               \E j \in 1 .. i - 1 : row.lineage[j] = parent
        /\ DOMAIN row.data \cup DOMAIN row.registry
               = profiles \cup UNION {Sets(bundle[row.lineage[i]]) : i \in DOMAIN row.lineage}
        /\ \A field \in DOMAIN row.data :
               row.data[field] = DecidedBy(bundle, row.lineage, field).data[field]
        /\ \A slot \in DOMAIN row.registry \ profiles :
               row.registry[slot].name = ExplicitRefs(DecidedBy(bundle, row.lineage, slot))[slot].name
        /\ \A slot \in DOMAIN row.registry : ResolvesCurrent(catalog, row.registry[slot])

\* A revision with n different parents, and nothing else.
WithParents(n) == [Blank EXCEPT !.parents = [i \in 1 .. n |-> i]]

\* startup.py:344.  A bundle is accepted exactly when it is well formed and the registry has what it asks
\* for; then what it resolves to is explained by its lineage, in which parents come before
\* their children and the last one to set something decides it.
MeetsReference(bundle, catalog) ==
    LET prepared == Prepare(bundle, catalog)
        askedFor == UNION {Declared(bundle[key]) : key \in DOMAIN bundle}
    IN  /\ Compiles(prepared)
               <=> WellFormed(bundle) /\ \A ref \in askedFor : ResolvesActive(catalog, ref)
        /\ Compiles(prepared) => \A key \in DOMAIN bundle : ResolvedRight(bundle, catalog, key, prepared[key])
=============================================================================
