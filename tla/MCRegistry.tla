----------------------------- MODULE MCRegistry -----------------------------
(* Small instances of Registry for TLC.                                    *)
EXTENDS Registry, TLC

CONSTANTS p1, p2, p3, n1, n2, n3

MCDigest(a) == <<"sha256", a>>

Build(n, v, body) ==
    [name |-> n, version |-> v, body |-> body, intact |-> TRUE]

\* n3 is another spelling of n2, as "../" is of "..": both lead to one directory.
Spelling(n) == IF n = n3 THEN n2 ELSE n
MCPlace(k) == <<Spelling(k[1]), k[2]>>
MCDir(q) == q[1]
MCPlaces == {MCPlace(k) : k \in Key}

\* Two builds of one version, and one of a second version.
TwoBuilds == {Build(n1, 1, 1), Build(n1, 1, 2), Build(n1, 2, 1)}

\* The same with archives add must refuse, one of each kind.
MixedArchives ==
    TwoBuilds \union {Build(n1, NotSemver, 1), [Build(n1, 2, 2) EXCEPT !.intact = FALSE]}

\* Three names in two directories, so that one name's directory outlives the
\* other's and two names share a file.
ThreeNames ==
    TwoBuilds \union {Build(n2, 1, 1), Build(n3, 1, 1)}

\* Two versions beside each other.
TwoVersions == {Build(n1, 1, 1), Build(n1, 2, 1)}

\* Two builds of a version whose file another name shares.
SharedFile == {Build(n2, 1, 1), Build(n2, 1, 2), Build(n3, 1, 1)}

OneVersion == {{1}}
AnyVersion == {{1, 2}}
SomeVersions == {{1}, {1, 2}}

ProcSymmetry == Permutations(Procs)
=============================================================================
