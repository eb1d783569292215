--------------------------- MODULE RegistryCatalog ---------------------------
(***************************************************************************)
(* How a registry catalog is made from definitions (content/registry.py).    *)
(*                                                                         *)
(* A definition is [name, version, content, uses, stated]: uses are its       *)
(* dependencies in order, [name, version, stated]; stated is a hash, or        *)
(* Unstated for None.  Kind and key are the name; content is every other field *)
(* of the hashed payload.  Definitions have passed _validate_shape: a malformed *)
(* one is refused before anything here.                                      *)
(*                                                                         *)
(* Hashes are injective, so a hash is the hashed value; a refusal is not told *)
(* from another, so the order definitions are looked at in does not matter.    *)
(***************************************************************************)
EXTENDS Integers, Sequences, FiniteSets, SequencesExt

CONSTANTS
    Unstated,
    Registries  \* [active, others]: for which catalogs are compared with the reference

Refusal == [refused |-> TRUE]

Identity(d)   == <<d.name, d.version>>
Identities(S) == {Identity(d) : d \in S}

\* raw_by_identity has one definition of an identity, or from_definitions refuses.
OneEach(S) == \A d, e \in S : Identity(d) = Identity(e) => d = e

Hash(d, exact) == <<d.name, d.version, d.content, exact>>

\* Mutant: a dependency's own hash is taken on trust.
StatedAny(stated, hash) == TRUE

\* A hash, where one is stated, is the one computed.
StatedRight(stated, hash) == stated \in {Unstated, hash}

\* resolve: depth first along the dependencies.  An identity met again on the way down is a
\* cycle; every dependency is pinned to the hash of its target, then the definition is hashed.
Resolve(S) ==
    LET raw == [id \in Identities(S) |-> CHOOSE d \in S : Identity(d) = id]
        resolve[id \in Identities(S), visiting \in SUBSET Identities(S)] ==
            LET Pin(sofar, use) ==
                    IF sofar.refused \/ Identity(use) \notin Identities(S) THEN Refusal
                    ELSE LET target == resolve[Identity(use), visiting \cup {id}]
                         IN  IF target.refused THEN Refusal
                             ELSE IF ~StatedRight(use.stated, target.hash) THEN Refusal
                             ELSE [sofar EXCEPT !.uses = Append(@, [use EXCEPT !.stated = target.hash])]
                pinned == FoldLeft(Pin, [refused |-> FALSE, uses |-> <<>>], raw[id].uses)
            IN  IF id \in visiting \/ pinned.refused THEN Refusal
                ELSE LET hash == Hash(raw[id], pinned.uses)
                     IN  IF ~StatedRight(raw[id].stated, hash) THEN Refusal
                         ELSE [refused |-> FALSE, hash |-> hash,
                               definition |-> [raw[id] EXCEPT !.uses = pinned.uses, !.stated = hash]]
    IN  [id \in Identities(S) |-> resolve[id, {}]]

Names(s) == [i \in DOMAIN s |-> s[i].name]

\* RegistryCatalog.from_definitions of a sequence of active definitions and a set of others:
\* the directory of exact versions has both.
FromDefinitions(active, others) ==
    LET S        == ToSet(active) \cup others
        resolved == Resolve(S)
        Version(d) == [version |-> d.version, hash |-> resolved[Identity(d)].hash]
    IN  IF \/ ~OneEach(S)
           \/ \E id \in Identities(S) : resolved[id].refused
           \/ ~IsInjective(Names(active))
        THEN Refusal
        ELSE [refused |-> FALSE,
              active |-> [name \in ToSet(Names(active)) |->
                             Version(CHOOSE d \in ToSet(active) : d.name = name)],
              compat |-> {<<d.name, Version(d)>> : d \in S},
              definitions |-> {resolved[Identity(d)].definition : d \in S}]

-----------------------------------------------------------------------------
(***************************************************************************)
(* The reference, without recursion.                                        *)
(***************************************************************************)
Uses(d) == {Identity(d.uses[i]) : i \in DOMAIN d.uses}

\* Every dependency is there, and every set of definitions has one that uses none of the set.
Grounded(S) ==
    /\ \A d \in S : Uses(d) \subseteq Identities(S)
    /\ \A T \in SUBSET S \ {{}} : \E d \in T : Uses(d) \cap Identities(T) = {}

Bare(d) == [d EXCEPT !.stated = Unstated,
                     !.uses = [i \in DOMAIN d.uses |-> [d.uses[i] EXCEPT !.stated = Unstated]]]

HashIn(catalog, id) == (CHOOSE d \in catalog.definitions : Identity(d) = id).stated

\* registry.py:157.  Definitions make a catalog exactly when there is one of each identity and
\* one active of each name, what they use exists without a cycle, and every hash stated, of a
\* definition or of a dependency, is the one they would have if none were stated.  Then
\* every dependency resolves exactly, and the catalog's own definitions make it again, as
\* character_creation.py:36 does: all of them active, so no name may have two versions.
CatalogMeetsReference(active, others) ==
    LET S     == ToSet(active) \cup others
        built == FromDefinitions(active, others)
        bare  == FromDefinitions([i \in DOMAIN active |-> Bare(active[i])], {Bare(d) : d \in others})
        again == FromDefinitions(SetToSeq(built.definitions), {})
    IN  /\ ~bare.refused <=>
               OneEach({Bare(d) : d \in S}) /\ Grounded(S) /\ IsInjective(Names(active))
        /\ ~built.refused <=>
               /\ OneEach(S)
               /\ ~bare.refused
               /\ \A d \in S :
                      /\ d.stated \in {Unstated, HashIn(bare, Identity(d))}
                      /\ \A i \in DOMAIN d.uses :
                             d.uses[i].stated \in {Unstated, HashIn(bare, Identity(d.uses[i]))}
        /\ ~built.refused =>
               /\ built = bare
               /\ \A d \in built.definitions : \A i \in DOMAIN d.uses :
                      <<d.uses[i].name, [version |-> d.uses[i].version, hash |-> d.uses[i].stated]>>
                          \in built.compat
               /\ ~again.refused <=> \A d, e \in S : d.name = e.name => Identity(d) = Identity(e)
               /\ ~again.refused =>
                      again.compat = built.compat /\ again.definitions = built.definitions
=============================================================================
