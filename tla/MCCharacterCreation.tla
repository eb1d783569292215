------------------------- MODULE MCCharacterCreation -------------------------
EXTENDS CharacterCreation, TLC

CONSTANTS field, other, plain, wide, reserved

Room(parents, data, profiles, refs) ==
    [kind |-> "room", parents |-> parents, data |-> data, profiles |-> profiles, refs |-> refs]

Leaf(f, v) == f :> v

Definition(name, version, content, uses) ==
    [name |-> name, version |-> version, content |-> content, uses |-> uses, stated |-> Unstated]
Use(name, version) == [name |-> name, version |-> version, stated |-> Unstated]

\* A behaviour profile and its handler, as build_registry_catalog has them.
Handler == Definition("handler", "1.0.0", "h", <<>>)
OldRoom == Definition("room", "1.0.0", "a", <<Use("handler", "1.0.0")>>)
NewRoom == Definition("room", "1.1.0", "b", <<Use("handler", "1.0.0")>>)

\* The registry of the first deployment, and of one that upgraded the profile but kept the
\* old definition in the compatibility directory.
FirstCatalog   == FromDefinitions(<<Handler, OldRoom>>, {})
UpgradeCatalog == FromDefinitions(<<Handler, NewRoom>>, {OldRoom})
ExtendedCatalog == FromDefinitions(<<Handler, OldRoom, Definition("skill", "1.0.0", "a", <<>>)>>, {})
Old == FirstCatalog.active["room"]
New == UpgradeCatalog.active["room"]

Gate == "gate" :> Room(<<>>, Leaf(field, 1), <<"room">>, <<>>)

Build(seed, bundle, catalog, context, intact, profiles) ==
    [seed |-> seed, bundle |-> bundle, catalog |-> catalog, context |-> context,
     intact |-> intact, profiles |-> profiles]

First   == Build("seed.v1", Gate, FirstCatalog, {<<"room", Old>>}, TRUE, "default" :> "gate")
\* The artifact was frozen again for the upgraded registry; the profile names a room it lacks.
Upgrade == Build("seed.v1", Gate, UpgradeCatalog, {<<"room", New>>}, TRUE, "default" :> "harbour")
\* The registry gained a definition the artifact does not select: it accepts
\* what the first deployment wrote, and the other way round.
Extended == Build("seed.v1", Gate, ExtendedCatalog, {<<"room", Old>>}, TRUE, "default" :> "gate")
\* The registry changed under a frozen artifact; the profile was retired.
Stale   == Build("seed.v1", Gate, UpgradeCatalog, {<<"room", Old>>}, TRUE, <<>>)

MCBuilds == {First, Extended, Upgrade, Stale}

Symmetry == Permutations(Servers)

\* Every inheritance between three blueprints, with itself and with a blueprint that does not
\* exist, each blueprint setting nothing, a field or a registry reference of its own.
BundleKeys == {"b1", "b2", "b3"}
Inheritance == {<<>>} \cup {<<k>> : k \in BundleKeys \cup {"gone"}}
               \cup {p \in BundleKeys \X BundleKeys : p[1] # p[2]}
ShapesOf(key) == <<Room(<<>>, <<>>, <<>>, <<>>),
                Room(<<>>, Leaf(field, key), <<>>, <<>>),
                Room(<<>>, <<>>, <<key>>, <<[path |-> other, name |-> key, version |-> AnyVersion]>>)>>
Inheriting(parents, shape) ==
    [k \in BundleKeys |-> [shape[k] EXCEPT !.parents = parents[k]]]

\* Up to a renaming of the blueprints: what b1, b2 and b3 set is in the order of ShapesOf.
AllShapes == {[k \in BundleKeys |-> ShapesOf(k)[kind[k]]] : kind \in
                 {f \in [BundleKeys -> 1 .. 3] : f["b1"] <= f["b2"] /\ f["b2"] <= f["b3"]}}
Inheritances == [BundleKeys -> Inheritance]

MCCatalog == FromDefinitions(SetToSeq({Definition(k, "1.0.0", "a", <<>>) : k \in BundleKeys}), {})
\* And with a blueprint of another kind, or one that asks for a version the registry lacks.
Odd == {[Room(<<>>, <<>>, <<>>, <<>>) EXCEPT !.kind = "skill"],
        Room(<<>>, <<>>, <<>>, <<[path |-> other, name |-> "b1", version |-> "2.0.0"]>>)}
OddShapes == {[k \in BundleKeys |-> IF k = "b1" THEN odd ELSE Room(<<>>, <<>>, <<>>, <<>>)] : odd \in Odd}
MCBundles == {Inheriting(parents, shape) : parents \in Inheritances, shape \in AllShapes \cup OddShapes}

\* Up to three definitions of two names and two versions, with and without dependencies on
\* each other, hashes stated or not, right, wrong or of other content; active or others.  The
\* only hash stated is that of the first version of "n": of anything else it is wrong.
LeafHash(content) == Hash(Definition("n", "1", content, <<>>), <<>>)
AllUses == {<<>>, <<Use("p", "1")>>, <<Use("n", "1"), Use("n", "2")>>}
           \cup {<<[Use("n", "1") EXCEPT !.stated = h]>> : h \in {Unstated, LeafHash("x")}}
Leaves  == {[Definition("n", "1", c, <<>>) EXCEPT !.stated = h] :
               c \in {"x", "y"}, h \in {Unstated, LeafHash("x")}}
           \cup {Definition("n", "2", c, <<>>) : c \in {"x", "y"}}
AllDefinitions == Leaves \cup {Definition(n, "1", "x", u) : n \in {"n", "p"}, u \in AllUses}
                         \cup {Definition("q", "1", "x", <<Use("p", "1")>>)}
Groups  == UNION {kSubset(n, AllDefinitions) : n \in 1 .. 3}
MCRegistries == UNION {{[active |-> SetToSeq(A), others |-> S \ A] : A \in SUBSET S} : S \in Groups}
                \cup {[active |-> <<d, d>>, others |-> {}] : d \in Leaves}

MCDisplayName == plain :> "alice" @@ wide :> "alice" @@ reserved :> Invalid

NothingAsked == told = {} /\ \A r \in Requests : at[r] = "idle"

\* One server at a time, of a build that offers other profiles than the rest, which has the lease
\* and is not probed; it starts while no request is at work.
OneServer ==
    /\ \A c \in Commands : pc[c] = "off" /\ outcome[c] = "none"
    /\ \A s \in Servers : probe[s] = "none" /\ build[s] # Extended
    /\ \A s \in Servers : pc[s] # "off" => lease = s /\ held = {s}
    /\ \A s \in Servers : pc[s] \in {"off", "writing", "serving"} \/ \A r \in Requests : at[r] \notin Working

\* Requests read the build of a server that serves and the release, and write nothing that
\* processes and probes read.  So processes are explored with each other before the first
\* request, and requests on one server after the other.
Focus == NothingAsked \/ OneServer

\* The steps of Next that stay in Focus; the others are not even generated.
FocusedNext ==
    \/ NothingAsked /\ ContentNext /\ UNCHANGED creationVars
    \/ OneServer /\ Next

FocusedSpec == Init /\ [][FocusedNext]_vars
==============================================================================
