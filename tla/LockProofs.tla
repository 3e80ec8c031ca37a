----------------------------- MODULE LockProofs -----------------------------
(***************************************************************************)
(* Proofs about resolution, for indexes and lists of dependencies of any   *)
(* length: every pin is the highest match, conflicts are told in full, the *)
(* lockfile is in order, and what a valid manifest needs is enough.        *)
(***************************************************************************)
EXTENDS Lock, ManifestProofs, WellFoundedInduction

\* Induction as a statement about a set of numbers.
LEMMA NumbersFrom0 ==
    ASSUME NEW T \in SUBSET Nat, 0 \in T, \A k \in T : k + 1 \in T
    PROVE  T = Nat
<1> SUFFICES ASSUME Nat \ T # {} PROVE FALSE
    OBVIOUS
<1>1. PICK x \in Nat \ T : \A y \in Nat \ T : ~(<<y, x>> \in OpToRel(<, Nat))
    BY NatLessThanWellFounded, WFMin
<1>2. \A y \in Nat \ T : ~(y < x)
    BY <1>1 DEF OpToRel
<1>3. x \in Nat /\ x \notin T
    BY <1>1
<1>4. x # 0 /\ x - 1 \in Nat /\ x - 1 < x /\ (x - 1) + 1 = x
    BY <1>3
<1>5. x - 1 \in T
    BY <1>2, <1>4
<1>6. QED BY <1>3, <1>4, <1>5

-----------------------------------------------------------------------------
(* The greatest of some builds.                                            *)

IsLastGreatest(index, builds, k) ==
    \A j \in builds : \/ index[j].version < index[k].version
                      \/ index[j].version = index[k].version /\ j <= k

\* Going through the index, a build is either the last greatest so far or
\* leaves that place to the one before.
LEMMA SomeBuildIsGreatest ==
    ASSUME NEW index \in Seq(IndexEntry), NEW builds \in SUBSET (DOMAIN index), builds # {}
    PROVE  \E k \in builds : IsLastGreatest(index, builds, k)
<1>1. Len(index) \in Nat /\ DOMAIN index = 1..Len(index)
      /\ \A k \in 1..Len(index) : index[k].version \in Nat
    <2>1. \A e \in IndexEntry : e.version \in Nat
        BY ResolverAssumption DEF IndexEntry
    <2>2. QED BY <2>1
<1> DEFINE First(h) == {k \in builds : k <= h}
           Has(h) == First(h) = {} \/ \E k \in First(h) : IsLastGreatest(index, First(h), k)
           T == {h \in Nat : Has(h)}
<1>2. 0 \in T
    <2>1. First(0) = {}
        BY <1>1
    <2>2. QED BY <2>1
<1>3. ASSUME NEW h \in T PROVE h + 1 \in T
    <2>1. h \in Nat /\ Has(h)
        OBVIOUS
    <2>2. CASE h + 1 \notin builds
        <3>1. First(h + 1) = First(h)
            BY <1>1, <2>1, <2>2
        <3> HIDE DEF First
        <3>2. Has(h + 1)
            BY <2>1, <3>1
        <3>3. QED BY <2>1, <3>2
    <2>3. CASE h + 1 \in builds
        <3>1. First(h + 1) = First(h) \union {h + 1}
            BY <1>1, <2>1, <2>3
        <3>2. \A k \in First(h) : /\ k \in 1..Len(index) /\ k <= h
                                  /\ index[k].version \in Nat
            BY <1>1
        <3>3. index[h + 1].version \in Nat
            BY <1>1, <2>3
        <3> HIDE DEF First
        <3>4. CASE \A k \in First(h) : index[k].version <= index[h + 1].version
            <4>1. IsLastGreatest(index, First(h + 1), h + 1)
                BY <2>1, <3>1, <3>2, <3>3, <3>4 DEF IsLastGreatest
            <4>2. QED BY <2>1, <3>1, <4>1
        <3>5. CASE ~(\A k \in First(h) : index[k].version <= index[h + 1].version)
            <4>1. PICK l \in First(h) : ~(index[l].version <= index[h + 1].version)
                BY <3>5
            <4>2. PICK k \in First(h) : IsLastGreatest(index, First(h), k)
                BY <2>1, <4>1
            <4>3. index[h + 1].version < index[k].version
                <5>1. index[l].version <= index[k].version
                    BY <3>2, <4>1, <4>2 DEF IsLastGreatest
                <5>2. /\ index[l].version \in Nat /\ index[k].version \in Nat
                    BY <3>2, <4>1, <4>2
                <5>3. QED BY <3>3, <4>1, <5>1, <5>2
            <4>4. IsLastGreatest(index, First(h + 1), k)
                BY <3>1, <4>2, <4>3 DEF IsLastGreatest
            <4>5. QED BY <2>1, <3>1, <4>2, <4>4
        <3>6. QED BY <3>4, <3>5
    <2>4. QED BY <2>2, <2>3
<1>4. T = Nat
    <2> HIDE DEF T
    <2>1. T \in SUBSET Nat
        BY DEF T
    <2>2. QED BY <1>2, <1>3, <2>1, NumbersFrom0
<1>5. First(Len(index)) = builds
    BY <1>1
<1>6. Has(Len(index))
    BY <1>1, <1>4
<1> HIDE DEF First
<1>7. QED BY <1>5, <1>6

LEMMA LastGreatestIs ==
    ASSUME NEW index \in Seq(IndexEntry), NEW builds \in SUBSET (DOMAIN index), builds # {}
    PROVE  /\ LastGreatest(index, builds) \in builds
           /\ IsLastGreatest(index, builds, LastGreatest(index, builds))
<1>1. \E k \in builds : IsLastGreatest(index, builds, k)
    BY SomeBuildIsGreatest
<1>2. LastGreatest(index, builds) = CHOOSE k \in builds : IsLastGreatest(index, builds, k)
    BY DEF LastGreatest, IsLastGreatest
<1>3. QED BY <1>1, <1>2

-----------------------------------------------------------------------------
(* Sorting by name.                                                        *)

Named(list) == /\ Len(list) \in Nat /\ DOMAIN list = 1..Len(list)
               /\ \A k \in 1..Len(list) : list[k].name \in Nat

Before(list, k) == {j \in DOMAIN list : Ahead(list, j, k)}

LEMMA PlacesAreNumbers ==
    ASSUME NEW list, Named(list)
    PROVE  \A k \in 1..Len(list) :
              /\ IsFiniteSet(Before(list, k)) /\ k \in Before(list, k)
              /\ Place(list, k) = Cardinality(Before(list, k))
              /\ Place(list, k) \in 1..Len(list)
<1> SUFFICES ASSUME NEW k \in 1..Len(list)
             PROVE  /\ IsFiniteSet(Before(list, k)) /\ k \in Before(list, k)
                    /\ Place(list, k) = Cardinality(Before(list, k))
                    /\ Place(list, k) \in 1..Len(list)
    OBVIOUS
<1>1. Len(list) \in Nat /\ DOMAIN list = 1..Len(list) /\ list[k].name \in Nat
    BY DEF Named
<1>2. IsFiniteSet(1..Len(list)) /\ Cardinality(1..Len(list)) = Len(list)
    BY <1>1, FS_Interval
<1>3. Before(list, k) \in SUBSET (1..Len(list)) /\ k \in Before(list, k)
    BY <1>1 DEF Before, Ahead
<1>4. IsFiniteSet(Before(list, k)) /\ Cardinality(Before(list, k)) <= Len(list)
    BY <1>2, <1>3, FS_Subset
<1>5. Cardinality(Before(list, k)) \in Nat
    BY <1>4, FS_CardinalityType
<1>6. Cardinality(Before(list, k)) # 0
    BY <1>3, <1>4, FS_EmptySet
<1>7. Place(list, k) = Cardinality(Before(list, k))
    BY DEF Place, Before
<1>8. QED BY <1>1, <1>3, <1>4, <1>5, <1>6, <1>7

\* Two elements are in the order of their places.
LEMMA PlacesInOrder ==
    ASSUME NEW list, Named(list), NEW j \in 1..Len(list), NEW k \in 1..Len(list),
           Ahead(list, j, k), j # k
    PROVE  Place(list, j) < Place(list, k)
<1>1. DOMAIN list = 1..Len(list) /\ \A h \in 1..Len(list) : list[h].name \in Nat
    BY DEF Named
<1>2. Before(list, j) \subseteq Before(list, k)
    BY <1>1 DEF Before, Ahead
<1>3. k \notin Before(list, j)
    BY <1>1 DEF Before, Ahead
<1>4. k \in Before(list, k) /\ IsFiniteSet(Before(list, k)) /\ IsFiniteSet(Before(list, j))
    BY PlacesAreNumbers
<1>5. /\ Cardinality(Before(list, j)) <= Cardinality(Before(list, k))
      /\ Cardinality(Before(list, j)) # Cardinality(Before(list, k))
    BY <1>2, <1>3, <1>4, FS_Subset
<1>6. Cardinality(Before(list, j)) \in Nat /\ Cardinality(Before(list, k)) \in Nat
    BY <1>4, FS_CardinalityType
<1>7. /\ Place(list, j) = Cardinality(Before(list, j))
      /\ Place(list, k) = Cardinality(Before(list, k))
    BY PlacesAreNumbers
<1>8. QED BY <1>5, <1>6, <1>7

\* Where the element at each place of the sorted list comes from.
Source(list) == [r \in DOMAIN list |-> CHOOSE k \in DOMAIN list : Place(list, k) = r]

\* A sorted list has the elements of the list, by name, and those of a name as
\* they came.
LEMMA SortedIs ==
    ASSUME NEW list, Named(list)
    PROVE  /\ DOMAIN SortedByName(list) = 1..Len(list)
           /\ Source(list) \in [1..Len(list) -> 1..Len(list)]
           /\ \A k \in 1..Len(list) : \E r \in 1..Len(list) : Source(list)[r] = k
           /\ \A r \in 1..Len(list) : SortedByName(list)[r] = list[Source(list)[r]]
           /\ \A x, y \in 1..Len(list) : x < y =>
                 /\ Ahead(list, Source(list)[x], Source(list)[y])
                 /\ Source(list)[x] # Source(list)[y]
<1> DEFINE size == Len(list)
           place == [k \in 1..size |-> Place(list, k)]
           source == Source(list)
<1>1. size \in Nat /\ DOMAIN list = 1..size /\ \A k \in 1..size : list[k].name \in Nat
    BY DEF Named
<1>2. \A k \in 1..size : Place(list, k) \in 1..size
    BY PlacesAreNumbers
<1> HIDE DEF size
<1>3. \A j, k \in 1..size : j # k => Ahead(list, j, k) \/ Ahead(list, k, j)
    BY <1>1 DEF Ahead
<1>4. \A j, k \in 1..size : j # k /\ Ahead(list, j, k) => Place(list, j) < Place(list, k)
    BY PlacesInOrder DEF size
<1>5. \A j, k \in 1..size : Place(list, j) = Place(list, k) => j = k
    BY <1>1, <1>2, <1>3, <1>4
<1>6. place \in Surjection(1..size, 1..size)
    <2>1. place \in Injection(1..size, 1..size)
        BY <1>2, <1>5 DEF Injection, IsInjective
    <2>2. IsFiniteSet(1..size)
        BY <1>1, FS_Interval
    <2>3. QED BY <2>1, <2>2, FS_Injection
<1>7. \A r \in 1..size : \E k \in 1..size : Place(list, k) = r
    BY <1>6 DEF Surjection
<1>8. /\ source = [r \in 1..size |-> CHOOSE k \in 1..size : Place(list, k) = r]
      /\ SortedByName(list) = [r \in 1..size |-> list[CHOOSE k \in 1..size : Place(list, k) = r]]
    BY <1>1 DEF Source, SortedByName
<1> HIDE DEF source
<1>9. \A r \in 1..size : source[r] \in 1..size /\ Place(list, source[r]) = r
    BY <1>7, <1>8
<1>10. source \in [1..size -> 1..size]
    BY <1>8, <1>9
<1>11. /\ DOMAIN SortedByName(list) = 1..size
       /\ \A r \in 1..size : SortedByName(list)[r] = list[source[r]]
    BY <1>8
<1>12. \A k \in 1..size : \E r \in 1..size : source[r] = k
    <2> TAKE k \in 1..size
    <2>1. Place(list, k) \in 1..size
        BY <1>2
    <2>2. source[Place(list, k)] = k
        BY <1>5, <1>9, <2>1
    <2>3. QED BY <2>1, <2>2
<1>13. \A x, y \in 1..size : x < y => Ahead(list, source[x], source[y]) /\ source[x] # source[y]
    <2> SUFFICES ASSUME NEW x \in 1..size, NEW y \in 1..size, x < y
                 PROVE  Ahead(list, source[x], source[y]) /\ source[x] # source[y]
        OBVIOUS
    <2>1. source[x] \in 1..size /\ source[y] \in 1..size
          /\ Place(list, source[x]) = x /\ Place(list, source[y]) = y
        BY <1>9
    <2>2. source[x] # source[y]
        BY <1>1, <2>1
    <2>3. ~Ahead(list, source[y], source[x])
        <3>1. ASSUME Ahead(list, source[y], source[x]) PROVE FALSE
            <4>1. y < x
                BY <1>4, <2>1, <2>2, <3>1
            <4>2. QED BY <1>1, <4>1
        <3>2. QED BY <3>1
    <2>4. QED BY <1>3, <2>1, <2>2, <2>3
<1>14. QED BY <1>10, <1>11, <1>12, <1>13 DEF size, source

-----------------------------------------------------------------------------
(* What is chosen for a dependency.                                        *)

Pin == [name : Names, req : Reqs \union {BadReq}, version : Versions, sha256 : Hashes]
Reasons == {"invalid", "no_skill", "no_version"}
Conflict == [dependency : Dependency, reason : Reasons]

\* The test of the code.
Fits(index, d) == d.req # BadReq /\ Fitting(index, d.name, d.req) # {}

LEMMA FittingIs ==
    ASSUME NEW index, NEW d \in Dependency
    PROVE  Fitting(index, d.name, d.req)
           = {k \in DOMAIN index : index[k].name = d.name /\ index[k].version \in d.req}
<1>1. d.name \in Names
    BY DEF Dependency
<1>2. CatalogOf(index)[d.name] = {k \in DOMAIN index : index[k].name = d.name}
    BY <1>1 DEF CatalogOf
<1>3. QED BY <1>2 DEF Fitting

LEMMA ChosenIsHighest ==
    ASSUME NEW index \in Seq(IndexEntry), NEW d \in Dependency, Fits(index, d)
    PROVE  \E k \in DOMAIN index :
              /\ BestMatch(index, d.name, d.req) = index[k]
              /\ index[k].name = d.name /\ index[k].version \in d.req
              /\ \A j \in DOMAIN index : index[j].name = d.name /\ index[j].version \in d.req
                    => index[j].version <= index[k].version
<1> DEFINE builds == Fitting(index, d.name, d.req)
           k == LastGreatest(index, builds)
<1>1. builds = {j \in DOMAIN index : index[j].name = d.name /\ index[j].version \in d.req}
    BY FittingIs
<1>2. builds \in SUBSET (DOMAIN index) /\ builds # {}
    BY <1>1 DEF Fits
<1>3. BestMatch(index, d.name, d.req) = index[k]
    BY DEF BestMatch
<1> HIDE DEF builds
<1>4. k \in builds /\ IsLastGreatest(index, builds, k)
    BY <1>2, LastGreatestIs
<1> HIDE DEF k
<1>5. \A j \in DOMAIN index : index[j].version \in Nat
    <2>1. \A e \in IndexEntry : e.version \in Nat
        BY ResolverAssumption DEF IndexEntry
    <2>2. \A j \in DOMAIN index : index[j] \in IndexEntry
        OBVIOUS
    <2>3. QED BY <2>1, <2>2
<1>6. \A j \in builds : index[j].version <= index[k].version
    BY <1>1, <1>4, <1>5 DEF IsLastGreatest
<1>7. QED BY <1>1, <1>3, <1>4, <1>6

LEMMA PinType ==
    ASSUME NEW index \in Seq(IndexEntry), NEW d \in Dependency, Fits(index, d)
    PROVE  PinOf(index, d) \in Pin
<1>1. PICK k \in DOMAIN index : BestMatch(index, d.name, d.req) = index[k]
    BY ChosenIsHighest
<1>2. index[k] \in IndexEntry
    OBVIOUS
<1>3. index[k].version \in Versions /\ index[k].sha256 \in Hashes
    BY <1>2 DEF IndexEntry
<1>4. QED BY <1>1, <1>3 DEF PinOf, Pin, Dependency

\* The test of the code is that there is a highest match.
LEMMA FitsIsSatisfiable ==
    ASSUME entries \in Seq(IndexEntry), NEW d \in Dependency
    PROVE  Satisfiable(d) <=> Fits(entries, d)
<1>1. ASSUME Fits(entries, d) PROVE Satisfiable(d)
    <2>1. PICK k \in DOMAIN entries :
             /\ entries[k].name = d.name /\ entries[k].version \in d.req
             /\ \A j \in DOMAIN entries : entries[j].name = d.name /\ entries[j].version \in d.req
                   => entries[j].version <= entries[k].version
        BY <1>1, ChosenIsHighest
    <2>2. entries[k] \in Highest(d)
        BY <2>1 DEF Highest, ToSet
    <2>3. QED BY <1>1, <2>2 DEF Satisfiable, Fits
<1>2. ASSUME Satisfiable(d) PROVE Fits(entries, d)
    <2>1. PICK e \in Highest(d) : TRUE
        BY <1>2 DEF Satisfiable
    <2>2. PICK k \in DOMAIN entries : entries[k].name = d.name /\ entries[k].version \in d.req
        BY <2>1 DEF Highest, ToSet
    <2>3. k \in Fitting(entries, d.name, d.req)
        BY <2>2, FittingIs
    <2>4. QED BY <1>2, <2>3 DEF Satisfiable, Fits
<1>3. QED BY <1>1, <1>2

LEMMA PinIsHighest ==
    ASSUME entries \in Seq(IndexEntry), NEW d \in Dependency, Fits(entries, d)
    PROVE  LET pin == PinOf(entries, d) IN
           /\ pin.name = d.name /\ pin.req = d.req
           /\ \E e \in Highest(pin) : pin.version = e.version /\ pin.sha256 = e.sha256
<1> DEFINE pin == PinOf(entries, d)
<1>1. PICK k \in DOMAIN entries :
         /\ BestMatch(entries, d.name, d.req) = entries[k]
         /\ entries[k].name = d.name /\ entries[k].version \in d.req
         /\ \A j \in DOMAIN entries : entries[j].name = d.name /\ entries[j].version \in d.req
               => entries[j].version <= entries[k].version
    BY ChosenIsHighest
<1>2. /\ pin.name = d.name /\ pin.req = d.req
      /\ pin.version = entries[k].version /\ pin.sha256 = entries[k].sha256
    BY <1>1 DEF PinOf
<1> HIDE DEF pin
<1>3. entries[k] \in Highest(pin)
    BY <1>1, <1>2 DEF Highest, ToSet
<1>4. QED BY <1>2, <1>3 DEF pin

-----------------------------------------------------------------------------
(* The inductive invariant.                                                *)

\* f goes through the numbers of S in their order.
Enumerates(f, size, S) ==
    /\ f \in [1..size -> S]
    /\ \A k \in S : \E x \in 1..size : f[x] = k
    /\ \A x, y \in 1..size : x < y => f[x] < f[y]

Below(S, m) == \A k \in S : k < m

\* f and one number more.
Longer(f, size, m) == [x \in 1..(size + 1) |-> IF x = size + 1 THEN m ELSE f[x]]

LEMMA EnumerateNext ==
    ASSUME NEW size \in Nat, NEW S \in SUBSET Nat, NEW f, Enumerates(f, size, S),
           NEW m \in Nat, Below(S, m)
    PROVE  Enumerates(Longer(f, size, m), size + 1, S \union {m})
<1> DEFINE g == Longer(f, size, m)
<1>0. g = [x \in 1..(size + 1) |-> IF x = size + 1 THEN m ELSE f[x]]
    BY DEF Longer
<1> HIDE DEF g
<1>1. \A x \in 1..size : x \in 1..(size + 1) /\ g[x] = f[x] /\ f[x] \in S
    BY <1>0 DEF Enumerates
<1>2. size + 1 \in 1..(size + 1) /\ g[size + 1] = m
    BY <1>0
<1>3. \A x \in 1..(size + 1) : x \in 1..size \/ x = size + 1
    OBVIOUS
<1>4. g \in [1..(size + 1) -> S \union {m}]
    BY <1>0, <1>1, <1>2, <1>3
<1>5. \A k \in S \union {m} : \E x \in 1..(size + 1) : g[x] = k
    BY <1>1, <1>2 DEF Enumerates
<1>6. \A x, y \in 1..(size + 1) : x < y => g[x] < g[y]
    <2> SUFFICES ASSUME NEW x \in 1..(size + 1), NEW y \in 1..(size + 1), x < y
                 PROVE  g[x] < g[y]
        OBVIOUS
    <2>1. x \in 1..size
        OBVIOUS
    <2> USE DEF Below
    <2>2. CASE y \in 1..size
        BY <1>1, <2>1, <2>2 DEF Enumerates
    <2>3. CASE y = size + 1
        BY <1>1, <1>2, <2>1, <2>3
    <2>4. QED BY <1>3, <2>2, <2>3
<1>7. QED BY <1>1, <1>2, <1>4, <1>5, <1>6 DEF Enumerates, g

LTypeInv ==
    /\ doc \in Document
    /\ entries \in Seq(IndexEntry)
    /\ i \in 1..(Len(deps) + 1)
    /\ pins \in Seq(Pin)
    /\ conflicts \in Seq(Conflict)
    /\ outcome \in {"running", "locked", "conflicts", "registry_error"}

\* The conflicts are those of the dependencies looked at that do not fit.
ConflictPart ==
    /\ \E f : /\ Enumerates(f, Len(conflicts), {k \in 1..(i - 1) : ~Fits(entries, deps[k])})
             /\ \A x \in 1..Len(conflicts) : conflicts[x].dependency = deps[f[x]]
    /\ \A x \in 1..Len(conflicts) :
          conflicts[x].reason = "invalid" => conflicts[x].dependency.req = BadReq

\* The pins are those of the dependencies looked at that fit, until they are
\* sorted.
PinPart ==
    outcome # "locked" =>
        \E f : /\ Enumerates(f, Len(pins), {k \in 1..(i - 1) : Fits(entries, deps[k])})
              /\ \A x \in 1..Len(pins) : pins[x] = PinOf(entries, deps[f[x]])

OutcomePart ==
    /\ outcome \in {"locked", "conflicts"} => i = Len(deps) + 1
    /\ outcome = "conflicts" => conflicts # <<>>

\* Every dependency has its pin among `chosen`, in the order of the names.
AllPinned(chosen, wanted, index) ==
    /\ Len(chosen) = Len(wanted)
    /\ \A k \in 1..Len(wanted) : Fits(index, wanted[k])
    /\ \E from \in [1..Len(chosen) -> 1..Len(wanted)] :
          /\ \A k \in 1..Len(wanted) : \E x \in 1..Len(chosen) : from[x] = k
          /\ \A x \in 1..Len(chosen) : chosen[x] = PinOf(index, wanted[from[x]])
          /\ \A x, y \in 1..Len(chosen) : x < y =>
                \/ chosen[x].name < chosen[y].name
                \/ chosen[x].name = chosen[y].name /\ from[x] < from[y]

LockedPart == outcome = "locked" => AllPinned(pins, deps, entries)

ResolveInv == LTypeInv /\ ConflictPart /\ PinPart /\ OutcomePart /\ LockedPart

LEMMA DepsType == doc \in Document =>
    /\ deps \in Seq(Dependency) /\ Len(deps) \in Nat /\ DOMAIN deps = 1..Len(deps)
    /\ \A k \in 1..Len(deps) : deps[k] \in Dependency
<1> SUFFICES ASSUME doc \in Document
             PROVE  /\ deps \in Seq(Dependency) /\ Len(deps) \in Nat /\ DOMAIN deps = 1..Len(deps)
                    /\ \A k \in 1..Len(deps) : deps[k] \in Dependency
    OBVIOUS
<1>1. deps \in Seq(Dependency)
    BY DocumentType DEF deps
<1> HIDE DEF deps
<1>2. QED BY <1>1

LEMMA InitResolves == Init => ResolveInv
<1> SUFFICES ASSUME Init PROVE ResolveInv
    OBVIOUS
<1>1. /\ i = 1 /\ pins = <<>> /\ conflicts = <<>> /\ outcome = "running"
      /\ entries \in Indexes /\ doc \in Documents
    BY DEF Init, ResolverInit, ValidateInit
<1>2. doc \in Document /\ entries \in Seq(IndexEntry)
    BY <1>1, ManifestAssumption, ResolverAssumption
<1>3. LTypeInv
    BY <1>1, <1>2, DepsType DEF LTypeInv
<1> DEFINE none == [x \in 1..0 |-> x]
<1>4. \A S : S \subseteq 1..(1 - 1) => Enumerates(none, 0, S)
    BY DEF Enumerates
<1> HIDE DEF none
<1>5. ConflictPart /\ PinPart
    <2>1. Len(conflicts) = 0 /\ Len(pins) = 0 /\ \A x : x \notin 1..0
        BY <1>1
    <2>2. Enumerates(none, 0, {k \in 1..(i - 1) : ~Fits(entries, deps[k])})
        BY <1>1, <1>4
    <2>3. Enumerates(none, 0, {k \in 1..(i - 1) : Fits(entries, deps[k])})
        BY <1>1, <1>4
    <2>4. ConflictPart
        BY <2>1, <2>2 DEF ConflictPart
    <2>5. PinPart
        BY <2>1, <2>3 DEF PinPart
    <2>6. QED BY <2>4, <2>5
<1>6. QED BY <1>1, <1>3, <1>5 DEF ResolveInv, OutcomePart, LockedPart

-----------------------------------------------------------------------------
(* Every step keeps it.                                                    *)

\* The dependencies looked at that fit, and those that do not.
Fitted(d, index, upto) == {k \in 1..(upto - 1) : Fits(index, d.dependencies[k])}
Failed(d, index, upto) == {k \in 1..(upto - 1) : ~Fits(index, d.dependencies[k])}

LEMMA OneMoreFits ==
    ASSUME NEW d, NEW index, NEW upto \in Nat \ {0}, Fits(index, d.dependencies[upto])
    PROVE  /\ Fitted(d, index, upto + 1) = Fitted(d, index, upto) \union {upto}
           /\ Failed(d, index, upto + 1) = Failed(d, index, upto)
<1>1. \A k \in 1..((upto + 1) - 1) : k \in 1..(upto - 1) \/ k = upto
    OBVIOUS
<1>2. upto \in 1..((upto + 1) - 1) /\ \A k \in 1..(upto - 1) : k \in 1..((upto + 1) - 1)
    OBVIOUS
<1>3. QED BY <1>1, <1>2 DEF Fitted, Failed

LEMMA OneMoreFails ==
    ASSUME NEW d, NEW index, NEW upto \in Nat \ {0}, ~Fits(index, d.dependencies[upto])
    PROVE  /\ Failed(d, index, upto + 1) = Failed(d, index, upto) \union {upto}
           /\ Fitted(d, index, upto + 1) = Fitted(d, index, upto)
<1>1. \A k \in 1..((upto + 1) - 1) : k \in 1..(upto - 1) \/ k = upto
    OBVIOUS
<1>2. upto \in 1..((upto + 1) - 1) /\ \A k \in 1..(upto - 1) : k \in 1..((upto + 1) - 1)
    OBVIOUS
<1>3. QED BY <1>1, <1>2 DEF Fitted, Failed

LEMMA ReportStep ==
    ASSUME ResolveInv, NEW reason \in Reasons, i <= Len(deps), ~Fits(entries, dep),
           reason = "invalid" => dep.req = BadReq, Report(reason), doc' = doc,
           outcome = "running"
    PROVE  ResolveInv'
<1> DEFINE c == [dependency |-> dep, reason |-> reason]
<1>1. /\ entries' = entries /\ pins' = pins /\ outcome' = outcome /\ doc' = doc /\ deps' = deps
      /\ i' = i + 1 /\ conflicts' = Append(conflicts, c)
    BY DEF Report, deps
<1>2. /\ doc \in Document /\ entries \in Seq(IndexEntry) /\ pins \in Seq(Pin)
      /\ conflicts \in Seq(Conflict) /\ i \in 1..(Len(deps) + 1) /\ Len(deps) \in Nat
      /\ outcome \in {"running", "locked", "conflicts", "registry_error"}
    BY DepsType DEF ResolveInv, LTypeInv
<1>3. i \in 1..Len(deps) /\ i \in Nat \ {0} /\ outcome = "running"
    BY <1>2 DEF ResolveInv, OutcomePart
<1>4. dep = deps[i] /\ dep \in Dependency
    BY <1>2, <1>3, DepsType DEF dep
<1>5. c \in Conflict /\ c.dependency = dep /\ c.reason = reason
    BY <1>4 DEF Conflict
<1> HIDE DEF c
<1>6. /\ conflicts' \in Seq(Conflict) /\ Len(conflicts) \in Nat
      /\ Len(conflicts') = Len(conflicts) + 1
      /\ \A x \in 1..Len(conflicts) : conflicts'[x] = conflicts[x]
      /\ conflicts'[Len(conflicts) + 1] = c
    BY <1>1, <1>2, <1>5
<1>7. LTypeInv'
    <2>1. i + 1 \in 1..(Len(deps) + 1)
        BY <1>2, <1>3
    <2>2. QED BY <1>1, <1>2, <1>6, <2>1 DEF LTypeInv
<1>8. /\ Failed(doc, entries, i + 1) = Failed(doc, entries, i) \union {i}
      /\ Fitted(doc, entries, i + 1) = Fitted(doc, entries, i)
    <2>1. ~Fits(entries, doc.dependencies[i])
        BY <1>4 DEF deps
    <2>2. i \in Nat \ {0}
        BY <1>3
    <2>3. QED BY <2>1, <2>2, OneMoreFails
<1>9. ConflictPart'
    <2>1. PICK f : /\ Enumerates(f, Len(conflicts), Failed(doc, entries, i))
                   /\ \A x \in 1..Len(conflicts) : conflicts[x].dependency = deps[f[x]]
        BY DEF ResolveInv, ConflictPart, Failed, deps
    <2>2. Failed(doc, entries, i) \in SUBSET Nat /\ \A k \in Failed(doc, entries, i) : k < i
        BY <1>3 DEF Failed
    <2> DEFINE g == Longer(f, Len(conflicts), i)
    <2>3. /\ Enumerates(g, Len(conflicts) + 1, Failed(doc, entries, i) \union {i})
          /\ \A x \in 1..Len(conflicts) : g[x] = f[x]
          /\ g[Len(conflicts) + 1] = i
        <3> DEFINE S == Failed(doc, entries, i)
                   size == Len(conflicts)
        <3>1. S \in SUBSET Nat /\ size \in Nat /\ i \in Nat /\ Below(S, i)
            BY <1>3, <1>6, <2>2 DEF Below
        <3>2. Enumerates(f, size, S)
            BY <2>1
        <3> HIDE DEF S, size
        <3>3. /\ Enumerates(Longer(f, size, i), size + 1, S \union {i})
              /\ \A x \in 1..size : Longer(f, size, i)[x] = f[x]
              /\ Longer(f, size, i)[size + 1] = i
            <4>1. Enumerates(Longer(f, size, i), size + 1, S \union {i})
                BY <3>1, <3>2, EnumerateNext
            <4>2. \A x \in 1..size : Longer(f, size, i)[x] = f[x]
                BY <3>1 DEF Longer
            <4>3. Longer(f, size, i)[size + 1] = i
                BY <3>1 DEF Longer
            <4>4. QED BY <4>1, <4>2, <4>3
        <3>4. QED BY <3>3 DEF S, size
    <2> HIDE DEF g
    <2>4. \A x \in 1..(Len(conflicts) + 1) : x \in 1..Len(conflicts) \/ x = Len(conflicts) + 1
        BY <1>6
    <2>5. \A x \in 1..(Len(conflicts) + 1) : conflicts'[x].dependency = deps[g[x]]
        BY <1>4, <1>5, <1>6, <2>1, <2>3, <2>4
    <2>6. \A x \in 1..(Len(conflicts) + 1) :
             conflicts'[x].reason = "invalid" => conflicts'[x].dependency.req = BadReq
        BY <1>5, <1>6, <2>4 DEF ResolveInv, ConflictPart
    <2>7. Enumerates(g, Len(conflicts'), {k \in 1..(i' - 1) : ~Fits(entries', deps'[k])})
        <3>1. {k \in 1..(i' - 1) : ~Fits(entries', deps'[k])} = Failed(doc, entries, i + 1)
            BY <1>1 DEF Failed, deps
        <3>2. QED BY <1>6, <1>8, <2>3, <3>1
    <2>8. \A x \in 1..Len(conflicts') : conflicts'[x].dependency = deps'[g[x]]
        BY <1>1, <1>6, <2>5
    <2>9. \A x \in 1..Len(conflicts') :
             conflicts'[x].reason = "invalid" => conflicts'[x].dependency.req = BadReq
        BY <1>6, <2>6
    <2>10. QED BY <2>7, <2>8, <2>9 DEF ConflictPart
<1>10. PinPart'
    <2>1. PICK f : /\ Enumerates(f, Len(pins), Fitted(doc, entries, i))
                   /\ \A x \in 1..Len(pins) : pins[x] = PinOf(entries, deps[f[x]])
        BY <1>3 DEF ResolveInv, PinPart, Fitted, deps
    <2>2. {k \in 1..(i' - 1) : Fits(entries', deps'[k])} = Fitted(doc, entries, i + 1)
        BY <1>1 DEF Fitted, deps
    <2>3. Enumerates(f, Len(pins'), {k \in 1..(i' - 1) : Fits(entries', deps'[k])})
        BY <1>1, <1>8, <2>1, <2>2
    <2>4. \A x \in 1..Len(pins') : pins'[x] = PinOf(entries', deps'[f[x]])
        BY <1>1, <2>1
    <2>5. QED BY <2>3, <2>4 DEF PinPart
<1>11. OutcomePart' /\ LockedPart'
    BY <1>1, <1>3 DEF OutcomePart, LockedPart
<1>12. QED BY <1>7, <1>9, <1>10, <1>11 DEF ResolveInv

LEMMA PinStep ==
    ASSUME ResolveInv, PinDependency, doc' = doc, outcome = "running"
    PROVE  ResolveInv'
<1> DEFINE p == PinOf(entries, dep)
<1>1. /\ entries' = entries /\ conflicts' = conflicts /\ outcome' = outcome
      /\ doc' = doc /\ deps' = deps
      /\ i' = i + 1 /\ pins' = Append(pins, p) /\ i <= Len(deps)
    BY DEF PinDependency, deps
<1>2. /\ doc \in Document /\ entries \in Seq(IndexEntry) /\ pins \in Seq(Pin)
      /\ conflicts \in Seq(Conflict) /\ i \in 1..(Len(deps) + 1) /\ Len(deps) \in Nat
      /\ outcome \in {"running", "locked", "conflicts", "registry_error"}
    BY DepsType DEF ResolveInv, LTypeInv
<1>3. i \in 1..Len(deps) /\ i \in Nat \ {0} /\ outcome = "running"
    BY <1>1, <1>2 DEF ResolveInv, OutcomePart
<1>4. dep = deps[i] /\ dep \in Dependency
    BY <1>2, <1>3, DepsType DEF dep
<1>5. Fits(entries, dep) /\ p \in Pin
    <2>1. Fits(entries, dep)
        BY DEF PinDependency, Fits
    <2>2. QED BY <1>2, <1>4, <2>1, PinType
<1> HIDE DEF p
<1>6. /\ pins' \in Seq(Pin) /\ Len(pins) \in Nat
      /\ Len(pins') = Len(pins) + 1
      /\ \A x \in 1..Len(pins) : pins'[x] = pins[x]
      /\ pins'[Len(pins) + 1] = p
    BY <1>1, <1>2, <1>5
<1>7. LTypeInv'
    <2>1. i + 1 \in 1..(Len(deps) + 1)
        BY <1>2, <1>3
    <2>2. QED BY <1>1, <1>2, <1>6, <2>1 DEF LTypeInv
<1>8. /\ Fitted(doc, entries, i + 1) = Fitted(doc, entries, i) \union {i}
      /\ Failed(doc, entries, i + 1) = Failed(doc, entries, i)
    <2>1. Fits(entries, doc.dependencies[i])
        BY <1>4, <1>5 DEF deps
    <2>2. i \in Nat \ {0}
        BY <1>3
    <2>3. QED BY <2>1, <2>2, OneMoreFits
<1>9. PinPart'
    <2>1. PICK f : /\ Enumerates(f, Len(pins), Fitted(doc, entries, i))
                   /\ \A x \in 1..Len(pins) : pins[x] = PinOf(entries, deps[f[x]])
        BY <1>3 DEF ResolveInv, PinPart, Fitted, deps
    <2>2. Fitted(doc, entries, i) \in SUBSET Nat /\ \A k \in Fitted(doc, entries, i) : k < i
        BY <1>3 DEF Fitted
    <2> DEFINE g == Longer(f, Len(pins), i)
    <2>3. /\ Enumerates(g, Len(pins) + 1, Fitted(doc, entries, i) \union {i})
          /\ \A x \in 1..Len(pins) : g[x] = f[x]
          /\ g[Len(pins) + 1] = i
        <3> DEFINE S == Fitted(doc, entries, i)
                   size == Len(pins)
        <3>1. S \in SUBSET Nat /\ size \in Nat /\ i \in Nat /\ Below(S, i)
            BY <1>3, <1>6, <2>2 DEF Below
        <3>2. Enumerates(f, size, S)
            BY <2>1
        <3> HIDE DEF S, size
        <3>3. /\ Enumerates(Longer(f, size, i), size + 1, S \union {i})
              /\ \A x \in 1..size : Longer(f, size, i)[x] = f[x]
              /\ Longer(f, size, i)[size + 1] = i
            <4>1. Enumerates(Longer(f, size, i), size + 1, S \union {i})
                BY <3>1, <3>2, EnumerateNext
            <4>2. \A x \in 1..size : Longer(f, size, i)[x] = f[x]
                BY <3>1 DEF Longer
            <4>3. Longer(f, size, i)[size + 1] = i
                BY <3>1 DEF Longer
            <4>4. QED BY <4>1, <4>2, <4>3
        <3>4. QED BY <3>3 DEF S, size
    <2> HIDE DEF g
    <2>4. \A x \in 1..(Len(pins) + 1) : x \in 1..Len(pins) \/ x = Len(pins) + 1
        BY <1>6
    <2>5. p = PinOf(entries, deps[i])
        BY <1>4 DEF p
    <2>6. \A x \in 1..(Len(pins) + 1) : pins'[x] = PinOf(entries, deps[g[x]])
        BY <1>6, <2>1, <2>3, <2>4, <2>5
    <2>7. {k \in 1..(i' - 1) : Fits(entries', deps'[k])} = Fitted(doc, entries, i + 1)
        BY <1>1 DEF Fitted, deps
    <2>8. Enumerates(g, Len(pins'), {k \in 1..(i' - 1) : Fits(entries', deps'[k])})
        BY <1>6, <1>8, <2>3, <2>7
    <2>9. \A x \in 1..Len(pins') : pins'[x] = PinOf(entries', deps'[g[x]])
        BY <1>1, <1>6, <2>6
    <2>10. QED BY <2>8, <2>9 DEF PinPart
<1>10. ConflictPart'
    <2>1. PICK f : /\ Enumerates(f, Len(conflicts), Failed(doc, entries, i))
                   /\ \A x \in 1..Len(conflicts) : conflicts[x].dependency = deps[f[x]]
        BY DEF ResolveInv, ConflictPart, Failed, deps
    <2>2. {k \in 1..(i' - 1) : ~Fits(entries', deps'[k])} = Failed(doc, entries, i + 1)
        BY <1>1 DEF Failed, deps
    <2>3. Enumerates(f, Len(conflicts'), {k \in 1..(i' - 1) : ~Fits(entries', deps'[k])})
        BY <1>1, <1>8, <2>1, <2>2
    <2>4. \A x \in 1..Len(conflicts') : conflicts'[x].dependency = deps'[f[x]]
        BY <1>1, <2>1
    <2>5. \A x \in 1..Len(conflicts') :
             conflicts'[x].reason = "invalid" => conflicts'[x].dependency.req = BadReq
        BY <1>1 DEF ResolveInv, ConflictPart
    <2>6. QED BY <2>3, <2>4, <2>5 DEF ConflictPart
<1>11. OutcomePart' /\ LockedPart'
    BY <1>1, <1>3 DEF OutcomePart, LockedPart
<1>12. QED BY <1>7, <1>9, <1>10, <1>11 DEF ResolveInv

\* Every step that reports a conflict has its reason.
LEMMA InvalidReqStep ==
    ASSUME ResolveInv, InvalidReq, doc' = doc, outcome = "running"
    PROVE  ResolveInv'
<1>1. i <= Len(deps) /\ dep.req = BadReq /\ Report("invalid")
    BY DEF InvalidReq
<1>2. ~Fits(entries, dep)
    BY <1>1 DEF Fits
<1>3. "invalid" \in Reasons
    BY DEF Reasons
<1>4. QED BY <1>1, <1>2, <1>3, ReportStep

LEMMA UnsatisfiedStep ==
    ASSUME ResolveInv, Unsatisfied, doc' = doc, outcome = "running"
    PROVE  ResolveInv'
<1> DEFINE reason == IF CatalogOf(entries)[dep.name] = {} THEN "no_skill" ELSE "no_version"
<1>1. i <= Len(deps) /\ Report(reason)
    BY DEF Unsatisfied
<1>2. ~Fits(entries, dep)
    BY DEF Unsatisfied, Fits
<1>3. reason \in Reasons /\ reason # "invalid"
    BY DEF Reasons
<1> HIDE DEF reason
<1>4. QED BY <1>1, <1>2, <1>3, ReportStep

\* Numbers gone through in their order are as many as the places.
LEMMA EnumeratesAll ==
    ASSUME NEW size \in Nat, NEW m \in Nat, NEW f, Enumerates(f, size, 1..m)
    PROVE  size = m
<1>1. f \in [1..size -> 1..m] /\ \A k \in 1..m : \E x \in 1..size : f[x] = k
    BY DEF Enumerates
<1>2. \A x, y \in 1..size : f[x] = f[y] => x = y
    <2> SUFFICES ASSUME NEW x \in 1..size, NEW y \in 1..size, f[x] = f[y] PROVE x = y
        OBVIOUS
    <2>1. f[x] \in Nat /\ f[y] \in Nat
        BY <1>1
    <2>2. (x < y => f[x] < f[y]) /\ (y < x => f[y] < f[x])
        BY DEF Enumerates
    <2>3. QED BY <2>1, <2>2
<1>3. f \in Surjection(1..size, 1..m) /\ f \in Injection(1..size, 1..m)
    BY <1>1, <1>2 DEF Surjection, Injection, IsInjective
<1>4. /\ IsFiniteSet(1..size) /\ Cardinality(1..size) = size
      /\ IsFiniteSet(1..m) /\ Cardinality(1..m) = m
    <2>1. 1 \in Int /\ size \in Int /\ m \in Int
        OBVIOUS
    <2>2. QED BY <2>1, FS_Interval
<1>5. Cardinality(1..m) = Cardinality(1..size)
    BY <1>3, <1>4, FS_Surjection
<1>6. QED BY <1>4, <1>5

\* What the sorting of the pins leaves: every dependency has its pin, in the
\* order of the names.
LEMMA SortStep ==
    ASSUME ResolveInv, Finish, conflicts = <<>>, doc' = doc
    PROVE  /\ pins' \in Seq(Pin) /\ LockedPart'
<1>1. /\ entries' = entries /\ doc' = doc /\ deps' = deps /\ outcome = "running"
      /\ outcome' = "locked" /\ pins' = SortedByName(pins) /\ i > Len(deps)
    BY DEF Finish, deps
<1>2. /\ doc \in Document /\ entries \in Seq(IndexEntry) /\ pins \in Seq(Pin)
      /\ i \in 1..(Len(deps) + 1) /\ Len(deps) \in Nat
    BY DepsType DEF ResolveInv, LTypeInv
<1>3. i = Len(deps) + 1 /\ 1..(i - 1) = 1..Len(deps)
    BY <1>1, <1>2
<1>4. \A k \in 1..Len(deps) : Fits(entries, deps[k])
    <2>1. PICK f : Enumerates(f, Len(conflicts), {k \in 1..(i - 1) : ~Fits(entries, deps[k])})
        BY DEF ResolveInv, ConflictPart
    <2>2. Len(conflicts) = 0 /\ \A x : x \notin 1..0
        OBVIOUS
    <2>3. {k \in 1..(i - 1) : ~Fits(entries, deps[k])} = {}
        BY <2>1, <2>2 DEF Enumerates
    <2>4. QED BY <1>3, <2>3
<1>5. {k \in 1..(i - 1) : Fits(entries, deps[k])} = 1..Len(deps)
    BY <1>3, <1>4
<1>6. PICK f : /\ Enumerates(f, Len(pins), 1..Len(deps))
               /\ \A x \in 1..Len(pins) : pins[x] = PinOf(entries, deps[f[x]])
    BY <1>1, <1>5 DEF ResolveInv, PinPart
<1>7. Len(pins) \in Nat /\ DOMAIN pins = 1..Len(pins) /\ \A x \in 1..Len(pins) : pins[x] \in Pin
    BY <1>2
<1>8. Len(pins) = Len(deps)
    BY <1>2, <1>6, <1>7, EnumeratesAll
<1>9. Named(pins)
    <2>1. \A p \in Pin : p.name \in Nat
        BY ManifestAssumption DEF Pin, Names
    <2>2. QED BY <1>7, <2>1 DEF Named
<1> DEFINE s == Source(pins)
           size == Len(pins)
<1>10. /\ DOMAIN pins' = 1..size
       /\ s \in [1..size -> 1..size]
       /\ \A k \in 1..size : \E r \in 1..size : s[r] = k
       /\ \A r \in 1..size : pins'[r] = pins[s[r]]
       /\ \A x, y \in 1..size : x < y => Ahead(pins, s[x], s[y]) /\ s[x] # s[y]
    <2>1. SortedByName(pins) = pins'
        BY <1>1
    <2>2. QED BY <1>9, <2>1, SortedIs
<1> HIDE DEF s
<1>11. pins' \in Seq(Pin) /\ Len(pins') = size
    <2> HIDE DEF size
    <2>1. \A r \in 1..size : pins'[r] \in Pin
        BY <1>7, <1>10 DEF size
    <2>2. pins' = [r \in 1..size |-> pins[s[r]]]
        BY <1>1, <1>7, <1>10 DEF SortedByName, s, Source, size
    <2>3. size \in Nat
        BY <1>7 DEF size
    <2>4. QED BY <2>1, <2>2, <2>3
<1> DEFINE from == [x \in 1..size |-> f[s[x]]]
<1>12. /\ f \in [1..size -> 1..size]
       /\ \A k \in 1..size : \E x \in 1..size : f[x] = k
       /\ \A x, y \in 1..size : x < y => f[x] < f[y]
    BY <1>6, <1>8 DEF Enumerates
<1>13. size \in Nat /\ \A x \in 1..size : pins[x] = PinOf(entries, deps[f[x]])
    BY <1>6, <1>7
<1> HIDE DEF size
<1>14. \A x \in 1..size : from[x] = f[s[x]] /\ from[x] \in 1..size
    BY <1>10, <1>12
<1>15. from \in [1..size -> 1..size]
    BY <1>14
<1> HIDE DEF from
<1>16. \A k \in 1..size : \E x \in 1..size : from[x] = k
    <2> TAKE k \in 1..size
    <2>1. PICK y \in 1..size : f[y] = k
        BY <1>12
    <2>2. PICK x \in 1..size : s[x] = y
        BY <1>10
    <2>3. QED BY <1>14, <2>1, <2>2
<1>17. \A x \in 1..size : pins'[x] = PinOf(entries, deps[from[x]])
    <2> TAKE x \in 1..size
    <2>1. s[x] \in 1..size /\ pins'[x] = pins[s[x]]
        BY <1>10
    <2>2. pins[s[x]] = PinOf(entries, deps[f[s[x]]])
        BY <1>13, <2>1
    <2>3. QED BY <1>14, <2>1, <2>2
<1>18. \A x, y \in 1..size : x < y =>
          \/ pins'[x].name < pins'[y].name
          \/ pins'[x].name = pins'[y].name /\ from[x] < from[y]
    <2> SUFFICES ASSUME NEW x \in 1..size, NEW y \in 1..size, x < y
                 PROVE  \/ pins'[x].name < pins'[y].name
                        \/ pins'[x].name = pins'[y].name /\ from[x] < from[y]
        OBVIOUS
    <2>1. /\ pins'[x] = pins[s[x]] /\ pins'[y] = pins[s[y]]
          /\ s[x] \in 1..size /\ s[y] \in 1..size
          /\ Ahead(pins, s[x], s[y]) /\ s[x] # s[y]
        BY <1>10
    <2>2. CASE pins[s[x]].name < pins[s[y]].name
        BY <2>1, <2>2
    <2>3. CASE pins[s[x]].name = pins[s[y]].name /\ s[x] <= s[y]
        <3>1. s[x] < s[y]
            BY <1>13, <2>1, <2>3
        <3>2. from[x] < from[y]
            BY <1>12, <1>14, <2>1, <3>1
        <3>3. QED BY <2>1, <2>3, <3>2
    <2>4. QED BY <2>1, <2>2, <2>3 DEF Ahead
<1>19. LockedPart'
    <2>1. Len(pins') = size /\ Len(deps') = size /\ deps' = deps /\ entries' = entries
        BY <1>1, <1>8, <1>11 DEF size
    <2>2. \A k \in 1..size : Fits(entries, deps[k])
        BY <1>4, <1>8 DEF size
    <2>3. from \in [1..Len(pins') -> 1..Len(deps')]
        BY <1>15, <2>1
    <2>4. \A k \in 1..Len(deps') : \E x \in 1..Len(pins') : from[x] = k
        BY <1>16, <2>1
    <2>5. \A x \in 1..Len(pins') : pins'[x] = PinOf(entries', deps'[from[x]])
        BY <1>17, <2>1
    <2>6. \A x, y \in 1..Len(pins') : x < y =>
             \/ pins'[x].name < pins'[y].name
             \/ pins'[x].name = pins'[y].name /\ from[x] < from[y]
        BY <1>18, <2>1
    <2>7. \A k \in 1..Len(deps') : Fits(entries', deps'[k])
        BY <2>1, <2>2
    <2>8. Len(pins') = Len(deps')
        BY <2>1
    <2>9. QED BY <2>3, <2>4, <2>5, <2>6, <2>7, <2>8 DEF LockedPart, AllPinned
<1>20. QED BY <1>11, <1>19

LEMMA FinishStep ==
    ASSUME ResolveInv, Finish, doc' = doc
    PROVE  ResolveInv'
<1>1. /\ entries' = entries /\ i' = i /\ conflicts' = conflicts /\ doc' = doc /\ deps' = deps
      /\ outcome = "running" /\ i > Len(deps)
    BY DEF Finish, deps
<1>2. /\ doc \in Document /\ entries \in Seq(IndexEntry) /\ pins \in Seq(Pin)
      /\ conflicts \in Seq(Conflict) /\ i \in 1..(Len(deps) + 1) /\ Len(deps) \in Nat
    BY DepsType DEF ResolveInv, LTypeInv
<1>3. i = Len(deps) + 1
    BY <1>1, <1>2
<1>4. ConflictPart'
    BY <1>1 DEF ResolveInv, ConflictPart
<1>5. CASE conflicts # <<>>
    <2>1. outcome' = "conflicts" /\ pins' = pins
        BY <1>5 DEF Finish
    <2>2. LTypeInv'
        BY <1>1, <1>2, <2>1 DEF LTypeInv
    <2>3. PinPart'
        BY <1>1, <2>1 DEF ResolveInv, PinPart
    <2>4. OutcomePart' /\ LockedPart'
        BY <1>1, <1>3, <1>5, <2>1 DEF OutcomePart, LockedPart
    <2>5. QED BY <1>4, <2>2, <2>3, <2>4 DEF ResolveInv
<1>6. CASE conflicts = <<>>
    <2>1. outcome' = "locked"
        BY <1>6 DEF Finish
    <2>2. pins' \in Seq(Pin) /\ LockedPart'
        BY <1>6, SortStep
    <2>3. LTypeInv'
        BY <1>1, <1>2, <2>1, <2>2 DEF LTypeInv
    <2>4. PinPart' /\ OutcomePart'
        BY <1>1, <1>3, <2>1 DEF PinPart, OutcomePart
    <2>5. QED BY <1>4, <2>2, <2>3, <2>4 DEF ResolveInv
<1>7. QED BY <1>5, <1>6

LEMMA ResolverStays ==
    ASSUME ResolveInv, UNCHANGED resolverVars, doc' = doc
    PROVE  ResolveInv'
<1>1. /\ entries' = entries /\ i' = i /\ pins' = pins /\ conflicts' = conflicts
      /\ outcome' = outcome /\ deps' = deps
    BY DEF resolverVars, deps
<1>2. LTypeInv' /\ ConflictPart' /\ PinPart'
    BY <1>1 DEF ResolveInv, LTypeInv, ConflictPart, PinPart
<1>3. OutcomePart'
    BY <1>1 DEF ResolveInv, OutcomePart
<1>4. LockedPart'
    BY <1>1 DEF ResolveInv, LockedPart
<1>5. QED BY <1>2, <1>3, <1>4 DEF ResolveInv

\* Validation leaves the document as it is.
LEMMA ValidateKeepsDoc == ValidateNext => doc' = doc
BY DEF ValidateNext, Load, CheckHead, CheckDependency, CheckCapability, CheckScope,
       CheckCompat, CheckField, NextList

LEMMA ResolveSteps == ResolveInv /\ [Next]_vars => ResolveInv'
<1> SUFFICES ASSUME ResolveInv, [Next]_vars PROVE ResolveInv'
    OBVIOUS
<1>1. CASE Validate
    BY <1>1, ValidateKeepsDoc, ResolverStays DEF Validate
<1>2. CASE Resolve
    <2>1. doc' = doc /\ outcome = "running" /\ ResolverNext
        BY <1>2 DEF Resolve, validateVars
    <2>2. QED BY <2>1, InvalidReqStep, UnsatisfiedStep, PinStep, FinishStep DEF ResolverNext
<1>3. CASE TruncateLockfile
    BY <1>3, ResolverStays DEF TruncateLockfile, validateVars
<1>4. CASE WriteLockfile
    BY <1>4, ResolverStays DEF WriteLockfile, validateVars
<1>5. CASE CatalogFails
    <2>1. /\ UNCHANGED <<entries, i, pins, conflicts, doc>> /\ deps' = deps
          /\ outcome = "running" /\ outcome' = "registry_error"
        BY <1>5 DEF CatalogFails, validateVars, deps
    <2>2. LTypeInv' /\ ConflictPart'
        BY <2>1 DEF ResolveInv, LTypeInv, ConflictPart
    <2>3. PinPart'
        BY <2>1 DEF ResolveInv, PinPart
    <2>4. OutcomePart' /\ LockedPart'
        BY <2>1 DEF OutcomePart, LockedPart
    <2>5. QED BY <2>2, <2>3, <2>4 DEF ResolveInv
<1>6. CASE UNCHANGED vars
    BY <1>6, ResolverStays DEF vars, validateVars
<1>7. QED BY <1>1, <1>2, <1>3, <1>4, <1>5, <1>6 DEF Next

LEMMA ResolveInvAlways == Spec => []ResolveInv
<1>1. QED BY InitResolves, ResolveSteps, PTL DEF Spec

-----------------------------------------------------------------------------
(* What a lockfile and a list of conflicts say.                            *)

LEMMA LockedIsHighest == ResolveInv => LockIsHighest
<1> SUFFICES ASSUME ResolveInv, outcome = "locked" PROVE LockIsHighest
    BY DEF LockIsHighest
<1>1. /\ doc \in Document /\ entries \in Seq(IndexEntry) /\ pins \in Seq(Pin)
      /\ DOMAIN deps = 1..Len(deps) /\ DOMAIN pins = 1..Len(pins)
      /\ \A k \in 1..Len(deps) : deps[k] \in Dependency
    BY DepsType DEF ResolveInv, LTypeInv
<1>2. /\ Len(pins) = Len(deps)
      /\ \A k \in 1..Len(deps) : Fits(entries, deps[k])
    BY DEF ResolveInv, LockedPart, AllPinned
<1>3. PICK from \in [1..Len(pins) -> 1..Len(deps)] :
         /\ \A k \in 1..Len(deps) : \E x \in 1..Len(pins) : from[x] = k
         /\ \A x \in 1..Len(pins) : pins[x] = PinOf(entries, deps[from[x]])
    BY DEF ResolveInv, LockedPart, AllPinned
<1> DEFINE PinFor(k) == PinOf(entries, deps[k])
<1>4. \A k \in 1..Len(deps) : PinFor(k).name = deps[k].name /\ PinFor(k).req = deps[k].req
    BY DEF PinOf
<1>5. \A k \in 1..Len(deps) : \E e \in Highest(PinFor(k)) :
          PinFor(k).version = e.version /\ PinFor(k).sha256 = e.sha256
    BY <1>1, <1>2, PinIsHighest
<1>6. \A x \in 1..Len(pins) : from[x] \in 1..Len(deps) /\ pins[x] = PinFor(from[x])
    BY <1>3
<1> HIDE DEF PinFor
<1>7. \A d \in ToSet(deps) : \E pin \in ToSet(pins) : pin.name = d.name /\ pin.req = d.req
    <2> SUFFICES ASSUME NEW d \in ToSet(deps)
                 PROVE  \E pin \in ToSet(pins) : pin.name = d.name /\ pin.req = d.req
        OBVIOUS
    <2>0. PICK k \in 1..Len(deps) : d = deps[k]
        BY <1>1, Zenon DEF ToSet
    <2>1. PICK x \in 1..Len(pins) : from[x] = k
        <3>1. \A h \in 1..Len(deps) : \E x \in 1..Len(pins) : from[x] = h
            BY <1>3, Zenon
        <3>2. QED BY <3>1, Zenon
    <2>2. pins[x].name = deps[k].name /\ pins[x].req = deps[k].req
        <3>1. pins[x] = PinFor(k)
            BY <1>6, <2>1, Zenon
        <3>2. PinFor(k).name = deps[k].name /\ PinFor(k).req = deps[k].req
            BY <1>4, Zenon
        <3>3. QED BY <3>1, <3>2, Zenon
    <2>3. pins[x] \in ToSet(pins)
        BY <1>1, <2>1 DEF ToSet
    <2>4. QED BY <2>0, <2>2, <2>3, Zenon
<1>8. \A pin \in ToSet(pins) :
         /\ [name |-> pin.name, req |-> pin.req] \in ToSet(deps)
         /\ \E e \in Highest(pin) : pin.version = e.version /\ pin.sha256 = e.sha256
    <2> SUFFICES ASSUME NEW x \in 1..Len(pins)
                 PROVE  /\ [name |-> pins[x].name, req |-> pins[x].req] \in ToSet(deps)
                        /\ \E e \in Highest(pins[x]) :
                              pins[x].version = e.version /\ pins[x].sha256 = e.sha256
        BY <1>1 DEF ToSet
    <2>1. from[x] \in 1..Len(deps) /\ pins[x] = PinFor(from[x])
        BY <1>6
    <2>2. \E e \in Highest(pins[x]) : pins[x].version = e.version /\ pins[x].sha256 = e.sha256
        BY <1>5, <2>1
    <2>3. pins[x].name = deps[from[x]].name /\ pins[x].req = deps[from[x]].req
        BY <1>4, <2>1
    <2>4. deps[from[x]] \in Dependency /\ deps[from[x]] \in ToSet(deps)
        BY <1>1, <2>1 DEF ToSet
    <2>5. [name |-> pins[x].name, req |-> pins[x].req] = deps[from[x]]
        BY <2>3, <2>4 DEF Dependency
    <2>6. QED BY <2>2, <2>4, <2>5
<1>9. QED BY <1>2, <1>7, <1>8 DEF LockIsHighest

\* Whatever the index and however long it and the list of dependencies are, a
\* lockfile pins every dependency and nothing else, each to the highest
\* version its requirement matches, with the hash of that build (resolve,
\* resolve.rs:153-187): going through the index keeps the last greatest build,
\* and sorting only moves the pins.
THEOREM LockPinsHighest == Spec => []LockIsHighest
<1>1. QED BY ResolveInvAlways, LockedIsHighest, PTL

LEMMA ConflictsAreAll == ResolveInv => ConflictsAreComplete
<1> SUFFICES ASSUME ResolveInv PROVE ConflictsAreComplete
    OBVIOUS
<1>1. /\ doc \in Document /\ entries \in Seq(IndexEntry) /\ conflicts \in Seq(Conflict)
      /\ DOMAIN deps = 1..Len(deps) /\ DOMAIN conflicts = 1..Len(conflicts)
      /\ Len(deps) \in Nat
      /\ \A k \in 1..Len(deps) : deps[k] \in Dependency
    BY DepsType DEF ResolveInv, LTypeInv
<1>2. \A k \in 1..Len(deps) : Satisfiable(deps[k]) <=> Fits(entries, deps[k])
    BY <1>1, FitsIsSatisfiable
<1>3. ASSUME outcome = "locked" PROVE \A d \in ToSet(deps) : Satisfiable(d)
    BY <1>1, <1>2, <1>3 DEF ResolveInv, LockedPart, AllPinned, ToSet
<1>4. ASSUME outcome = "conflicts"
      PROVE  /\ conflicts # <<>>
             /\ \E from \in [DOMAIN conflicts -> DOMAIN deps] :
                   /\ {from[x] : x \in DOMAIN conflicts}
                         = {k \in DOMAIN deps : ~Satisfiable(deps[k])}
                   /\ \A x \in DOMAIN conflicts : conflicts[x].dependency = deps[from[x]]
                   /\ \A x, y \in DOMAIN conflicts : x < y => from[x] < from[y]
    <2>1. conflicts # <<>> /\ i = Len(deps) + 1
        BY <1>4 DEF ResolveInv, OutcomePart
    <2>2. 1..(i - 1) = 1..Len(deps)
        BY <1>1, <2>1
    <2>3. PICK f : /\ Enumerates(f, Len(conflicts), {k \in 1..(i - 1) : ~Fits(entries, deps[k])})
                   /\ \A x \in 1..Len(conflicts) : conflicts[x].dependency = deps[f[x]]
        BY DEF ResolveInv, ConflictPart
    <2> DEFINE unsatisfied == {k \in DOMAIN deps : ~Satisfiable(deps[k])}
    <2>4. {k \in 1..(i - 1) : ~Fits(entries, deps[k])} = unsatisfied
        BY <1>1, <1>2, <2>2
    <2>5. unsatisfied \subseteq DOMAIN deps
        OBVIOUS
    <2> HIDE DEF unsatisfied
    <2>6. /\ f \in [DOMAIN conflicts -> unsatisfied]
          /\ \A k \in unsatisfied : \E x \in DOMAIN conflicts : f[x] = k
          /\ \A x, y \in DOMAIN conflicts : x < y => f[x] < f[y]
        BY <1>1, <2>3, <2>4 DEF Enumerates
    <2>7. f \in [DOMAIN conflicts -> DOMAIN deps]
        BY <2>5, <2>6
    <2>8. {f[x] : x \in DOMAIN conflicts} = unsatisfied
        BY <2>6
    <2>9. \A x \in DOMAIN conflicts : conflicts[x].dependency = deps[f[x]]
        BY <1>1, <2>3
    <2>10. QED BY <2>1, <2>6, <2>7, <2>8, <2>9 DEF unsatisfied
<1>5. QED BY <1>3, <1>4 DEF ConflictsAreComplete

\* A lockfile comes of a manifest all of whose dependencies can be satisfied;
\* of any other every dependency that cannot is told, in the order of the
\* manifest (resolve.rs:155-162, 171-192).
THEOREM ConflictsTellAll == Spec => []ConflictsAreComplete
<1>1. QED BY ResolveInvAlways, ConflictsAreAll, PTL

LEMMA LockedInOrder == ResolveInv => PinsInOrder
<1> SUFFICES ASSUME ResolveInv, outcome = "locked" PROVE PinsInOrder
    BY DEF PinsInOrder
<1>1. /\ doc \in Document /\ entries \in Seq(IndexEntry) /\ pins \in Seq(Pin)
      /\ DOMAIN deps = 1..Len(deps) /\ DOMAIN pins = 1..Len(pins)
      /\ \A k \in 1..Len(deps) : deps[k] \in Dependency
    BY DepsType DEF ResolveInv, LTypeInv
<1>2. \A k \in 1..Len(deps) :
         /\ PinOf(entries, deps[k]).name = deps[k].name
         /\ PinOf(entries, deps[k]).req = deps[k].req
    BY DEF PinOf
<1>3. PICK from \in [1..Len(pins) -> 1..Len(deps)] :
         /\ \A k \in 1..Len(deps) : \E x \in 1..Len(pins) : from[x] = k
         /\ \A x \in 1..Len(pins) : pins[x] = PinOf(entries, deps[from[x]])
         /\ \A x, y \in 1..Len(pins) : x < y =>
               \/ pins[x].name < pins[y].name
               \/ pins[x].name = pins[y].name /\ from[x] < from[y]
    BY DEF ResolveInv, LockedPart, AllPinned
<1>4. from \in [DOMAIN pins -> DOMAIN deps]
    BY <1>1
<1>5. {from[x] : x \in DOMAIN pins} = DOMAIN deps
    BY <1>1, <1>3
<1>6. \A x \in DOMAIN pins : pins[x].name = deps[from[x]].name /\ pins[x].req = deps[from[x]].req
    BY <1>1, <1>2, <1>3
<1>7. \A x, y \in DOMAIN pins : x < y =>
         \/ pins[x].name < pins[y].name
         \/ pins[x].name = pins[y].name /\ from[x] < from[y]
    BY <1>1, <1>3
<1>8. QED BY <1>4, <1>5, <1>6, <1>7 DEF PinsInOrder

\* Pins come by name, and those of one name as the manifest has them, none of
\* them lost (resolve.rs:94-95, 194): the order is one the manifest and the
\* index alone determine.
THEOREM PinsAreSorted == Spec => []PinsInOrder
<1>1. QED BY ResolveInvAlways, LockedInOrder, PTL

-----------------------------------------------------------------------------
(* What validation is good for.                                            *)

\* A lockfile holds the pins of a resolution that has come to its end.
FileInv == lockfile.text = "new" => outcome = "locked" /\ lockfile = Lockfile(doc, pins)
EmptyInv == lockfile.text = "empty" => outcome = "locked"

LockInv == ValidateInv /\ ResolveInv /\ FileInv /\ EmptyInv

LEMMA InitLocks == Init => LockInv
<1> SUFFICES ASSUME Init PROVE LockInv
    OBVIOUS
<1>1. ValidateInv
    BY InitValidates DEF Init
<1>2. ResolveInv
    BY InitResolves
<1>3. FileInv /\ EmptyInv
    BY DEF Init, FileInv, EmptyInv
<1>4. QED BY <1>1, <1>2, <1>3 DEF LockInv

LEMMA LockSteps == LockInv /\ [Next]_vars => LockInv'
<1> SUFFICES ASSUME LockInv, [Next]_vars PROVE LockInv'
    OBVIOUS
<1>1. ResolveInv'
    BY ResolveSteps DEF LockInv
<1>2. ValidateInv'
    <2>1. ValidateNext \/ UNCHANGED validateVars
        BY DEF Next, Validate, CatalogFails, Resolve, TruncateLockfile, WriteLockfile, vars
    <2>2. QED BY <2>1, ValidateSteps DEF LockInv
<1>3. FileInv' /\ EmptyInv'
    <2>1. CASE Validate
        <3>1. doc' = doc /\ pins' = pins /\ outcome' = outcome /\ lockfile' = lockfile
            BY <2>1, ValidateKeepsDoc DEF Validate, resolverVars
        <3>2. QED BY <3>1 DEF LockInv, FileInv, EmptyInv, Lockfile
    <2>2. CASE Resolve
        <3>1. outcome = "running" /\ lockfile' = lockfile
            BY <2>2 DEF Resolve
        <3>2. lockfile.text # "new" /\ lockfile.text # "empty"
            BY <3>1 DEF LockInv, FileInv, EmptyInv
        <3>3. QED BY <3>1, <3>2 DEF FileInv, EmptyInv
    <2>3. CASE TruncateLockfile
        BY <2>3 DEF TruncateLockfile, FileInv, EmptyInv, resolverVars
    <2>4. CASE WriteLockfile
        <3>1. /\ outcome = "locked" /\ outcome' = outcome /\ doc' = doc /\ pins' = pins
              /\ lockfile' = Lockfile(doc, pins)
            BY <2>4 DEF LockInv, EmptyInv, WriteLockfile, validateVars, resolverVars
        <3>2. QED BY <3>1 DEF FileInv, EmptyInv, Lockfile
    <2>5. CASE UNCHANGED vars
        <3>1. doc' = doc /\ pins' = pins /\ outcome' = outcome /\ lockfile' = lockfile
            BY <2>5 DEF vars, validateVars, resolverVars
        <3>2. QED BY <3>1 DEF LockInv, FileInv, EmptyInv, Lockfile
    <2>6. CASE CatalogFails
        <3>1. outcome = "running" /\ lockfile' = lockfile
            BY <2>6 DEF CatalogFails
        <3>2. lockfile.text # "new" /\ lockfile.text # "empty"
            BY <3>1 DEF LockInv, FileInv, EmptyInv
        <3>3. QED BY <3>1, <3>2 DEF FileInv, EmptyInv
    <2>7. QED BY <2>1, <2>2, <2>3, <2>4, <2>5, <2>6 DEF Next
<1>4. QED BY <1>1, <1>2, <1>3 DEF LockInv

LEMMA ValidLocks == LockInv => ValidManifestLocks
<1> SUFFICES ASSUME LockInv, verdict = "valid" PROVE ValidManifestLocks
    BY DEF ValidManifestLocks
<1>1. Valid(doc)
    <2>1. Done
        BY DEF LockInv, ValidateInv, VerdictInv, Done
    <2>2. VerdictIsExact
        BY ValidateInvExact DEF LockInv
    <2>3. QED BY <2>1, <2>2 DEF VerdictIsExact
<1>2. \A k \in 1..Len(deps) :
         /\ deps[k].name # doc.name /\ deps[k].req # BadReq
         /\ \A h \in 1..(k - 1) : deps[h].name # deps[k].name
    BY <1>1 DEF Valid, DependencyKept, deps
<1>3. /\ doc \in Document /\ conflicts \in Seq(Conflict) /\ pins \in Seq(Pin)
      /\ i \in 1..(Len(deps) + 1) /\ Len(deps) \in Nat
    BY DepsType DEF LockInv, ResolveInv, LTypeInv
<1>4. \A c \in DOMAIN conflicts : conflicts[c].reason # "invalid"
    <2> SUFFICES ASSUME NEW c \in 1..Len(conflicts), conflicts[c].reason = "invalid" PROVE FALSE
        BY <1>3
    <2>1. PICK f : /\ Enumerates(f, Len(conflicts), {k \in 1..(i - 1) : ~Fits(entries, deps[k])})
                   /\ \A x \in 1..Len(conflicts) : conflicts[x].dependency = deps[f[x]]
        BY DEF LockInv, ResolveInv, ConflictPart
    <2>2. f[c] \in 1..(i - 1)
        BY <2>1 DEF Enumerates
    <2>3. f[c] \in 1..Len(deps)
        BY <1>3, <2>2
    <2>4. conflicts[c].dependency.req = BadReq
        BY DEF LockInv, ResolveInv, ConflictPart
    <2>5. QED BY <1>2, <2>1, <2>3, <2>4
<1>5. ASSUME lockfile.text = "new"
      PROVE  \A x, y \in DOMAIN lockfile.pins :
                /\ lockfile.pins[x].name # lockfile.root
                /\ x < y => lockfile.pins[x].name < lockfile.pins[y].name
    <2>1. outcome = "locked" /\ lockfile.pins = pins /\ lockfile.root = doc.name
        BY <1>5 DEF LockInv, FileInv, Lockfile
    <2>2. DOMAIN pins = 1..Len(pins)
        BY <1>3
    <2>3. PICK from \in [1..Len(pins) -> 1..Len(deps)] :
             /\ \A x \in 1..Len(pins) : pins[x] = PinOf(entries, deps[from[x]])
             /\ \A x, y \in 1..Len(pins) : x < y =>
                   \/ pins[x].name < pins[y].name
                   \/ pins[x].name = pins[y].name /\ from[x] < from[y]
        BY <2>1 DEF LockInv, ResolveInv, LockedPart, AllPinned
    <2>4. \A x \in 1..Len(pins) : from[x] \in 1..Len(deps) /\ pins[x].name = deps[from[x]].name
        <3>1. \A d : PinOf(entries, d).name = d.name
            BY DEF PinOf
        <3>2. QED BY <2>3, <3>1
    <2>5. \A x \in 1..Len(pins) : pins[x].name # doc.name
        BY <1>2, <2>4
    <2>6. \A x, y \in 1..Len(pins) : x < y => pins[x].name < pins[y].name
        <3> SUFFICES ASSUME NEW x \in 1..Len(pins), NEW y \in 1..Len(pins), x < y,
                            pins[x].name = pins[y].name, from[x] < from[y]
                     PROVE  FALSE
            BY <2>3
        <3>1. from[x] \in 1..(from[y] - 1)
            BY <1>3, <2>4
        <3>2. deps[from[x]].name # deps[from[y]].name
            BY <1>2, <2>4, <3>1
        <3>3. QED BY <2>4, <3>2
    <2>7. QED BY <2>1, <2>2, <2>5, <2>6
<1>6. QED BY <1>4, <1>5 DEF ValidManifestLocks

\* Nothing but a build missing in the registry keeps a valid manifest from
\* being locked, and its lockfile has one pin for a name, in strict order, and
\* none for the skill itself (the rules of validate, manifest.rs:280-281,
\* taken to resolve).  The verdict of one component is what the promise of
\* the other rests on, so that both invariants are carried together.
THEOREM ValidManifestsLock == Spec => []ValidManifestLocks
<1>1. Init => LockInv
    BY InitLocks
<1>2. LockInv /\ [Next]_vars => LockInv'
    BY LockSteps
<1>3. QED BY <1>1, <1>2, ValidLocks, PTL DEF Spec

=============================================================================
