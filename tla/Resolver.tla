------------------------------ MODULE Resolver ------------------------------
(***************************************************************************)
(* Dependency resolution (src/src/resolve.rs): the catalog made from the   *)
(* entries of a registry index, the pass over the dependencies that pins   *)
(* or reports each of them, and the lockfile that follows.                 *)
(*                                                                         *)
(* Versions are numbers in their order (of semver) as names are in that of  *)
(* strings; a requirement is the set of versions it matches.               *)
(***************************************************************************)
EXTENDS Manifest

CONSTANTS
    Versions,
    Hashes,     \* archive hashes
    Indexes     \* entries of the indexes considered, in file order

IndexEntry == [name : Names, version : Versions, sha256 : Hashes]

ASSUME ResolverAssumption ==
    /\ Versions \subseteq Nat
    /\ Reqs \subseteq SUBSET Versions
    /\ Indexes \subseteq Seq(IndexEntry)

-----------------------------------------------------------------------------
(* The catalog.                                                            *)

\* Registry::catalog adds one build per entry, in the order of the index; a
\* build is known by its place there.
CatalogOf(index) == [n \in Names |-> {k \in DOMAIN index : index[k].name = n}]

\* The builds of `name` that satisfy the requirement.
Fitting(index, name, req) ==
    {k \in CatalogOf(index)[name] : index[k].version \in req}

\* Mutant: the build added first is taken.
FirstBuild(index, builds) == CHOOSE k \in builds : \A j \in builds : k <= j

\* Iterator::max_by returns the last of several greatest elements.
LastGreatest(index, builds) ==
    CHOOSE k \in builds : \A j \in builds :
        \/ index[j].version < index[k].version
        \/ index[j].version = index[k].version /\ j <= k

BestMatch(index, name, req) == index[LastGreatest(index, Fitting(index, name, req))]

\* The pin of a dependency: the build chosen, under the requirement as written.
PinOf(index, d) ==
    LET build == BestMatch(index, d.name, d.req) IN
    [name |-> d.name, req |-> d.req, version |-> build.version, sha256 |-> build.sha256]

\* Mutant: the pins stay in the order of the manifest.
Unsorted(list) == list

\* Stable sort by name: an element goes behind those of a lesser name and
\* those of its own name that came before it.
Ahead(list, j, k) ==
    list[j].name < list[k].name \/ (list[j].name = list[k].name /\ j <= k)
Place(list, k) == Cardinality({j \in DOMAIN list : Ahead(list, j, k)})

SortedByName(list) ==
    [r \in DOMAIN list |-> list[CHOOSE k \in DOMAIN list : Place(list, k) = r]]

-----------------------------------------------------------------------------
VARIABLES
    entries,    \* the index the catalog was made from
    i,          \* the dependency looked at next
    pins,
    conflicts,
    outcome     \* "running", "locked", "conflicts" or "registry_error"

resolverVars == <<entries, i, pins, conflicts, outcome>>

\* The dependencies of the manifest, in its order.
deps == doc.dependencies

ResolverInit ==
    /\ entries \in Indexes
    /\ i = 1
    /\ pins = <<>>
    /\ conflicts = <<>>
    /\ outcome = "running"

dep == deps[i]

Report(reason) ==
    /\ conflicts' = Append(conflicts, [dependency |-> dep, reason |-> reason])
    /\ i' = i + 1
    /\ UNCHANGED <<entries, pins, outcome>>

InvalidReq ==
    /\ i <= Len(deps)
    /\ dep.req = BadReq
    /\ Report("invalid")

\* Mutant: a requirement nothing satisfies is passed over.
UnsatisfiedDropped ==
    /\ i <= Len(deps)
    /\ dep.req # BadReq
    /\ Fitting(entries, dep.name, dep.req) = {}
    /\ i' = i + 1
    /\ UNCHANGED <<entries, pins, conflicts, outcome>>

Unsatisfied ==
    /\ i <= Len(deps)
    /\ dep.req # BadReq
    /\ Fitting(entries, dep.name, dep.req) = {}
    /\ Report(IF CatalogOf(entries)[dep.name] = {} THEN "no_skill" ELSE "no_version")

PinDependency ==
    /\ i <= Len(deps)
    /\ dep.req # BadReq
    /\ Fitting(entries, dep.name, dep.req) # {}
    /\ pins' = Append(pins, PinOf(entries, dep))
    /\ i' = i + 1
    /\ UNCHANGED <<entries, conflicts, outcome>>

\* All or nothing: one conflict and there is no lockfile.
Finish ==
    /\ i > Len(deps)
    /\ outcome = "running"
    /\ IF conflicts # <<>>
       THEN outcome' = "conflicts" /\ UNCHANGED pins
       ELSE outcome' = "locked" /\ pins' = SortedByName(pins)
    /\ UNCHANGED <<entries, i, conflicts>>

ResolverNext == InvalidReq \/ Unsatisfied \/ PinDependency \/ Finish

-----------------------------------------------------------------------------
(* Correctness.                                                            *)

\* The highest entry of the index a dependency may have, whatever the order
\* of the entries: the reference the lockfile is held against.
Highest(d) ==
    {e \in ToSet(entries) :
        /\ e.name = d.name /\ e.version \in d.req
        /\ \A f \in ToSet(entries) :
              f.name = d.name /\ f.version \in d.req => f.version <= e.version}

Satisfiable(d) == d.req # BadReq /\ Highest(d) # {}

\* A lockfile has, for every dependency and nothing else, the highest
\* installed version its requirement matches, with the hash of that very
\* build (resolve, resolve.rs:153-187).
LockIsHighest ==
    outcome = "locked" =>
        /\ Len(pins) = Len(deps)
        /\ \A d \in ToSet(deps) : \E pin \in ToSet(pins) :
              pin.name = d.name /\ pin.req = d.req
        /\ \A pin \in ToSet(pins) :
              /\ [name |-> pin.name, req |-> pin.req] \in ToSet(deps)
              /\ \E e \in Highest(pin) :
                    pin.version = e.version /\ pin.sha256 = e.sha256

\* The outcome is a lockfile exactly if every dependency can be satisfied;
\* otherwise every one that cannot is reported, in the order of the manifest
\* (resolve.rs:155-162, 171-192).
ConflictsAreComplete ==
    /\ outcome = "locked" => \A d \in ToSet(deps) : Satisfiable(d)
    /\ outcome = "conflicts" =>
          /\ conflicts # <<>>
          /\ \E from \in [DOMAIN conflicts -> DOMAIN deps] :
                /\ {from[x] : x \in DOMAIN conflicts}
                      = {k \in DOMAIN deps : ~Satisfiable(deps[k])}
                /\ \A x \in DOMAIN conflicts : conflicts[x].dependency = deps[from[x]]
                /\ \A x, y \in DOMAIN conflicts : x < y => from[x] < from[y]

\* Every dependency has its pin; pins come by name, and pins of one name in
\* the order of the manifest, so that equal inputs give equal files
\* (Lockfile, resolve.rs:94-95, 194).
PinsInOrder ==
    outcome = "locked" =>
        \E from \in [DOMAIN pins -> DOMAIN deps] :
            /\ {from[x] : x \in DOMAIN pins} = DOMAIN deps
            /\ \A x \in DOMAIN pins :
                  pins[x].name = deps[from[x]].name /\ pins[x].req = deps[from[x]].req
            /\ \A x, y \in DOMAIN pins : x < y =>
                  \/ pins[x].name < pins[y].name
                  \/ pins[x].name = pins[y].name /\ from[x] < from[y]

=============================================================================
