-------------------------- MODULE ContainerProofs ---------------------------
(***************************************************************************)
(* Proofs about decoding, verifying and unpacking, for streams, blobs and  *)
(* paths of any number and length: what is decoded, what the verdicts      *)
(* mean, what reaches the disk, and that what is packed comes back.        *)
(***************************************************************************)
EXTENDS Container, SequenceTheorems, WellFoundedInduction,
        FiniteSetTheorems, TLAPS

Steps == {"header", "blobs", "check", "write", "creating", "list", "done"}

ContainerTypeInv ==
    /\ archive \in Stream
    /\ phase \in Steps
    /\ pos \in Nat
    /\ blobs \in Seq(Blob)
    /\ n \in Nat \ {0}
    /\ out \in [Files -> Blob \union {Absent}]

\* Entry k has the hash in the header, and no way out of the directory.
Passed(k) == HashMatches(k) /\ ".." \notin ToSet(header[k].path)

\* Unpack is at an entry only after all entries before it have passed, and
\* has opened its file only if it has passed itself.
WriteInv ==
    /\ ContainerTypeInv
    /\ phase \in {"header", "blobs"} => n = 1 /\ Len(blobs) <= Len(header)
    /\ phase \in {"write", "creating"} =>
          /\ Len(blobs) = Len(header)
          /\ \A j \in 1..(n - 1) : Passed(j)
    /\ phase = "creating" => n \in DOMAIN header /\ Passed(n)

\* A path that safe_relative lets through has no "..".
LEMMA SafeHasNoParent ==
    ASSUME NEW path, SafeRelative(path) # Unsafe
    PROVE  ".." \notin ToSet(path)
BY DEF SafeRelative, ToSet

LEMMA ContainerInit == Init => WriteInv
<1> SUFFICES ASSUME Init PROVE WriteInv
    OBVIOUS
<1>1. archive \in Stream
    BY ContainerAssumption DEF Init, ContainerAssumption
<1>2. out \in [Files -> Blob \union {Absent}]
    BY ContainerAssumption DEF Init, ContainerAssumption
<1>3. Len(header) \in Nat
    BY <1>1 DEF Stream, header
<1> QED BY <1>1, <1>2, <1>3 DEF Init, WriteInv, ContainerTypeInv, Steps, Blob

LEMMA ContainerStep == WriteInv /\ [Next]_vars => WriteInv'
<1> SUFFICES ASSUME WriteInv, [Next]_vars PROVE WriteInv'
    OBVIOUS
<1> USE DEF WriteInv, Passed, HashMatches, header, body
<1>1. CASE UNCHANGED vars
    BY <1>1 DEF vars, ContainerTypeInv
<1>2. CASE ReadHeader
    BY <1>2 DEF ReadHeader, Stop, ContainerTypeInv, Steps
<1>3. CASE ReadBlob
    <2> DEFINE blob == SubSeq(body, pos + 2, pos + 1 + BlobLen)
    <2>1. CASE blobs' = blobs
        BY <1>3, <2>1 DEF ReadBlob, Stop, ContainerTypeInv, Steps
    <2>2. CASE ~Short(pos, 1) /\ ~Short(pos + 1, BlobLen) /\ blobs' = Append(blobs, blob)
                  /\ pos' = pos + 1 + BlobLen /\ UNCHANGED <<phase, outcome>>
        <3>1. body \in Seq(Cells) /\ pos \in Nat /\ Cells \subseteq Nat
            BY ContainerAssumption DEF ContainerTypeInv, Stream, ContainerAssumption
        <3>2. BlobLen \in Nat
            <4>1. pos + 1 \in 1..Len(body)
                BY <2>2, <3>1 DEF Short
            <4>2. body[pos + 1] \in Cells
                BY <3>1, <4>1
            <4> QED BY <3>1, <4>2 DEF BlobLen
        <3>3. \A i \in (pos + 2)..(pos + 1 + BlobLen) : body[i] \in Cells
            BY <2>2, <3>1, <3>2 DEF Short
        <3>4. blob \in Blob
            BY <3>1, <3>2, <3>3, SubSeqProperties DEF Blob
        <3>5. blobs' \in Seq(Blob) /\ Len(blobs') <= Len(header)
            BY <1>3, <2>2, <3>4 DEF ReadBlob, Entry, ContainerTypeInv
        <3> QED BY <1>3, <2>2, <3>1, <3>2, <3>5 DEF ReadBlob, ContainerTypeInv, Steps
    <2> QED BY <1>3, <2>1, <2>2 DEF ReadBlob
<1>4. CASE Decoded
    <2>1. Len(header) \in Nat /\ Len(blobs) \in Nat
        BY DEF ContainerTypeInv, Stream
    <2>2. Len(blobs) = Len(header)
        BY <1>4, <2>1 DEF Decoded, Entry
    <2> QED BY <1>4, <2>2 DEF Decoded, Stop, ContainerTypeInv, Steps
<1>5. CASE CheckBlob
    BY <1>5 DEF CheckBlob, ContainerTypeInv, Steps
<1>6. CASE Report
    BY <1>6 DEF Report, Stop, ContainerTypeInv, Steps
<1>7. CASE CreateFile
    <2>1. CASE phase' = "done" /\ UNCHANGED <<out, n>>
        BY <1>7, <2>1 DEF CreateFile, ContainerTypeInv, Steps
    <2>2. CASE phase' = "creating" /\ HashMatches(n) /\ Dest # Unsafe
                  /\ out' = [out EXCEPT ![Dest] = <<>>]
        <3>1. n \in DOMAIN header
            BY <1>7 DEF CreateFile, ContainerTypeInv, Stream
        <3>2. Passed(n)
            BY <2>2, SafeHasNoParent DEF Dest
        <3>3. UNCHANGED <<archive, blobs, n, pos>> /\ phase = "write"
            BY <1>7 DEF CreateFile
        <3>4. <<>> \in Blob
            BY DEF Blob
        <3>5. out' \in [Files -> Blob \union {Absent}]
            BY <2>2, <3>4 DEF ContainerTypeInv
        <3> QED BY <2>2, <3>1, <3>2, <3>3, <3>5 DEF ContainerTypeInv, Steps
    <2> QED BY <1>7, <2>1, <2>2 DEF CreateFile, Stop
<1>8. CASE WriteFile
    <2>1. UNCHANGED <<archive, blobs, pos>> /\ phase = "creating"
        BY <1>8 DEF WriteFile
    <2>2. header \in Seq([path : Paths, size : Nat, sha256 : Hashes])
        BY DEF ContainerTypeInv, Stream
    <2>3. n \in 1..Len(blobs) /\ blobs[n] \in Blob
        BY <2>1, <2>2 DEF ContainerTypeInv
    <2>4. CASE out' = [out EXCEPT ![Dest] = blobs[n]] /\ n' = n + 1 /\ phase' = "write"
        <3>1. out' \in [Files -> Blob \union {Absent}]
            BY <2>3, <2>4 DEF ContainerTypeInv
        <3>2. \A j \in 1..n : Passed(j)
            BY <2>1 DEF ContainerTypeInv
        <3> QED BY <2>1, <2>4, <3>1, <3>2 DEF ContainerTypeInv, Steps
    <2>5. ASSUME NEW k \in 0..(Len(blobs[n]) - 1), n' = n, phase' = "done",
                 out' = [out EXCEPT ![Dest] = SubSeq(blobs[n], 1, k)]
          PROVE  WriteInv'
        <3>1. SubSeq(blobs[n], 1, k) \in Blob
            BY <2>3, SubSeqProperties DEF Blob
        <3>2. out' \in [Files -> Blob \union {Absent}]
            BY <2>5, <3>1 DEF ContainerTypeInv
        <3> QED BY <2>1, <2>5, <3>2 DEF ContainerTypeInv, Steps
    <2> QED BY <1>8, <2>4, <2>5 DEF WriteFile, Stop
<1>9. CASE Unpacked
    BY <1>9 DEF Unpacked, Stop, ContainerTypeInv, Steps
<1>10. CASE ListEntry \/ Listed
    BY <1>10 DEF ListEntry, Listed, Stop, ContainerTypeInv, Steps
<1> QED BY <1>1, <1>2, <1>3, <1>4, <1>5, <1>6, <1>7, <1>8, <1>9, <1>10 DEF Next

\* A step changes the file of the entry it is at and no other, to the
\* beginning of that entry's blob.
LEMMA WritesOwnFile ==
    ASSUME WriteInv, CreateFile \/ WriteFile, NEW f \in Files, out'[f] # out[f]
    PROVE  n \in DOMAIN header /\ Passed(n) /\ f = Dest /\ IsPrefix(out'[f], blobs[n])
<1> USE DEF WriteInv
<1>1. /\ n \in DOMAIN header /\ n \in 1..Len(blobs) /\ blobs[n] \in Blob
    BY DEF CreateFile, WriteFile, ContainerTypeInv, Stream, header
<1>2. Len(blobs[n]) \in Nat /\ \A i \in 1..Len(blobs[n]) : blobs[n][i] \in Cells
    BY <1>1 DEF Blob
<1>3. CASE CreateFile
    <2>1. HashMatches(n) /\ Dest # Unsafe /\ out' = [out EXCEPT ![Dest] = <<>>]
        BY <1>3 DEF CreateFile
    <2>2. f = Dest /\ out'[f] = <<>>
        BY <2>1 DEF ContainerTypeInv
    <2>3. SubSeq(<<>>, 1, 0) = <<>> /\ SubSeq(blobs[n], 1, 0) = <<>>
        BY SubSeqEmpty
    <2>4. IsPrefix(<<>>, blobs[n])
        BY <1>2, <2>3 DEF IsPrefix
    <2> QED BY <1>1, <2>1, <2>2, <2>4, SafeHasNoParent DEF Passed, Dest
<1>4. CASE WriteFile
    <2>1. Passed(n)
        BY <1>4 DEF WriteFile
    <2>2. PICK k \in 0..Len(blobs[n]) : out' = [out EXCEPT ![Dest] = SubSeq(blobs[n], 1, k)]
        <3>1. SubSeq(blobs[n], 1, Len(blobs[n])) = blobs[n]
            BY <1>1, SubSeqFull DEF Blob
        <3> QED BY <1>2, <1>4, <3>1 DEF WriteFile
    <2>3. f = Dest /\ out'[f] = SubSeq(blobs[n], 1, k)
        BY <2>2 DEF ContainerTypeInv
    <2>4. Len(out'[f]) = k /\ out'[f] \in Seq(Cells)
        BY <1>2, <2>3, SubSeqProperties
    <2>5. SubSeq(out'[f], 1, k) = out'[f]
        BY <2>4, SubSeqFull
    <2> QED BY <1>1, <1>2, <2>1, <2>3, <2>4, <2>5 DEF IsPrefix
<1> QED BY <1>3, <1>4

\* Unpack puts bytes in a file only for an entry of which the hash and the
\* path are right, after all entries before it had theirs right.
THEOREM UnpackWritesVerified == Spec => OnlyVerifiedIsWritten
<1>1. Spec => []WriteInv
    BY ContainerInit, ContainerStep, PTL DEF Spec
<1>2. WriteInv /\ [Next]_vars =>
          [\A f \in Files :
              out'[f] # out[f] =>
                  \E k \in DOMAIN header :
                      /\ \A j \in 1..k : /\ HashMatches(j)
                                         /\ ".." \notin ToSet(header[j].path)
                      /\ f = TheirDest(k)
                      /\ IsPrefix(out'[f], blobs[k])]_vars
    <2> SUFFICES ASSUME WriteInv, Next, NEW f \in Files, out'[f] # out[f]
                 PROVE  \E k \in DOMAIN header :
                            /\ \A j \in 1..k : Passed(j)
                            /\ f = TheirDest(k)
                            /\ IsPrefix(out'[f], blobs[k])
        BY DEF Passed
    <2>1. CreateFile \/ WriteFile
        BY DEF Next, ReadHeader, ReadBlob, Decoded, CheckBlob, Report, Unpacked, ListEntry, Listed
    <2>2. n \in DOMAIN header /\ Passed(n) /\ f = Dest /\ IsPrefix(out'[f], blobs[n])
        BY <2>1, WritesOwnFile
    <2>3. \A j \in 1..n : Passed(j)
        BY <2>1, <2>2 DEF WriteInv, ContainerTypeInv, CreateFile, WriteFile
    <2> QED BY <2>2, <2>3 DEF Dest, TheirDest
<1> QED BY <1>1, <1>2, PTL DEF Spec, OnlyVerifiedIsWritten

-----------------------------------------------------------------------------
(* Recursion.                                                              *)

\* Induction over a set of numbers: it contains all if it contains 0 and with
\* every number the next.
LEMMA SetInduction ==
    ASSUME NEW T \in SUBSET Nat, 0 \in T, \A k \in T : k + 1 \in T
    PROVE  T = Nat
<1>1. IsWellFoundedOn(OpToRel(<, Nat), Nat)
    BY NatLessThanWellFounded
<1>2. SUFFICES ASSUME Nat \ T # {} PROVE FALSE
    OBVIOUS
<1>3. PICK x \in Nat \ T : \A y \in Nat \ T : ~(<<y, x>> \in OpToRel(<, Nat))
    BY <1>1, <1>2, WFMin
<1>4. \A y \in Nat \ T : ~(y < x)
    BY <1>3 DEF OpToRel
<1>5. x \in Nat /\ x \notin T
    BY <1>3
<1>6. x # 0 /\ x - 1 \in Nat
    BY <1>5
<1>7. x - 1 \in T
    BY <1>4, <1>5, <1>6
<1>8. (x - 1) + 1 \in T
    BY <1>7
<1> QED BY <1>5, <1>8

\* f on 1..size has a first value, and each next one is a step from the last.
Follows(f, first, step, size) ==
    \A k \in 1..size : f[k] = IF k = 1 THEN first ELSE step[k][f[k - 1]]

\* There is such a function for any first value and steps.
LEMMA RecursionExists ==
    ASSUME NEW S
    PROVE  \A first \in S, step \in [Nat -> [S -> S]], size \in Nat :
              \E f \in [1..size -> S] : Follows(f, first, step, size)
<1> TAKE first \in S, step \in [Nat -> [S -> S]], size \in Nat
<1> DEFINE Good(f, m) == Follows(f, first, step, m)
           T == {m \in Nat : \E f \in [1..m -> S] : Good(f, m)}
<1>1. 0 \in T
    <2> DEFINE f == [k \in 1..0 |-> first]
    <2>1. f \in [1..0 -> S]
        OBVIOUS
    <2>2. Good(f, 0)
        BY DEF Follows
    <2> HIDE DEF f
    <2>3. \E g \in [1..0 -> S] : Good(g, 0)
        BY <2>1, <2>2
    <2> QED BY <2>3
<1>2. ASSUME NEW m \in T
      PROVE  m + 1 \in T
    <2>1. PICK f \in [1..m -> S] : Good(f, m)
        OBVIOUS
    <2> DEFINE g == [k \in 1..(m + 1) |-> IF k = m + 1 THEN IF m = 0 THEN first ELSE step[m + 1][f[m]]
                                          ELSE f[k]]
    <2>2. m \in Nat
        OBVIOUS
    <2>3. g \in [1..(m + 1) -> S]
        <3>1. ASSUME m # 0 PROVE step[m + 1][f[m]] \in S
            BY <2>2, <3>1
        <3> QED BY <2>2, <3>1
    <2>4. ASSUME NEW k \in 1..(m + 1)
          PROVE  g[k] = IF k = 1 THEN first ELSE step[k][g[k - 1]]
        BY <2>1, <2>2 DEF Follows
    <2>5. Good(g, m + 1)
        BY <2>4 DEF Follows
    <2> HIDE DEF g
    <2> HIDE DEF Good
    <2>6. \E h \in [1..(m + 1) -> S] : Good(h, m + 1)
        BY <2>3, <2>5
    <2>7. m + 1 \in Nat
        BY <2>2
    <2> QED BY <2>6, <2>7
<1> HIDE DEF T
<1>3. T = Nat
    <2>1. T \in SUBSET Nat
        BY DEF T
    <2> QED BY <1>1, <1>2, <2>1, SetInduction
<1>4. PICK f \in [1..size -> S] : Good(f, size)
    BY <1>3 DEF T
<1> QED BY <1>4

Headers == Seq([path : Paths, size : Nat, sha256 : Hashes])

\* The offsets begin at 0, and each lies a length field and a blob behind the
\* one before it.
LEMMA OffsetsAdvance ==
    ASSUME NEW entries \in Headers
    PROVE  /\ OffsetsOf(entries) \in [1..(Len(entries) + 1) -> Nat]
           /\ OffsetsOf(entries)[1] = 0
           /\ \A k \in 1..Len(entries) :
                 OffsetsOf(entries)[k + 1] = OffsetsOf(entries)[k] + 1 + entries[k].size
<1> DEFINE size == Len(entries) + 1
           step == [k \in Nat |-> [v \in Nat |->
                      IF k - 1 \in 1..Len(entries) THEN v + 1 + entries[k - 1].size ELSE v]]
           after(at) == [k \in 1..size |->
                            IF k = 1 THEN 0 ELSE at[k - 1] + 1 + entries[k - 1].size]
<1>1. size \in Nat /\ Len(entries) \in Nat /\ \A k \in 1..Len(entries) : entries[k].size \in Nat
    <2>1. ASSUME NEW k \in 1..Len(entries)
          PROVE  entries[k] \in [path : Paths, size : Nat, sha256 : Hashes]
        BY ElementOfSeq DEF Headers
    <2>2. Len(entries) \in Nat
        BY DEF Headers
    <2> QED BY <2>1, <2>2
<1>2. step \in [Nat -> [Nat -> Nat]]
    BY <1>1
<1> HIDE DEF step
<1>3. PICK f \in [1..size -> Nat] : Follows(f, 0, step, size)
    <2>1. 0 \in Nat /\ size \in Nat
        BY <1>1
    <2> HIDE DEF size
    <2> QED BY <1>2, <2>1, RecursionExists
<1>4. f = after(f)
    <2>1. ASSUME NEW k \in 1..size, k # 1
          PROVE  step[k][f[k - 1]] = f[k - 1] + 1 + entries[k - 1].size
        <3>1. k \in Nat /\ k - 1 \in 1..Len(entries)
            BY <1>1, <2>1
        <3>2. f[k - 1] \in Nat
            BY <3>1
        <3> QED BY <3>1, <3>2 DEF step
    <2>2. ASSUME NEW k \in 1..size
          PROVE  f[k] = after(f)[k]
        BY <1>3, <2>1, <2>2 DEF Follows
    <2> HIDE DEF after
    <2>3. f \in [1..size -> Nat] /\ DOMAIN after(f) = 1..size
        BY <1>3 DEF after
    <2>4. after(f) = [k \in 1..size |-> after(f)[k]]
        BY DEF after
    <2> QED BY <2>2, <2>3, <2>4
<1>5. OffsetsOf(entries) = CHOOSE at : at = after(at)
    BY DEF OffsetsOf
<1> DEFINE at == OffsetsOf(entries)
<1>6. at = after(at)
    <2> HIDE DEF after
    <2> QED BY <1>4, <1>5
<1> HIDE DEF at
<1>7. /\ DOMAIN at = 1..size /\ at[1] = 0
      /\ \A k \in 1..Len(entries) : at[k + 1] = at[k] + 1 + entries[k].size
    BY <1>1, <1>6
<1>8. \A k \in 1..size : at[k] \in Nat
    <2> DEFINE T == {j \in Nat : j < size => at[j + 1] \in Nat}
    <2>1. 0 \in T
        BY <1>7
    <2>2. ASSUME NEW j \in T PROVE j + 1 \in T
        BY <1>1, <1>7
    <2> HIDE DEF T
    <2>3. T = Nat
        <3>1. T \in SUBSET Nat
            BY DEF T
        <3> QED BY <2>1, <2>2, <3>1, SetInduction
    <2>4. ASSUME NEW k \in 1..size PROVE at[k] \in Nat
        <3>1. k - 1 \in T /\ k - 1 < size
            BY <1>1, <2>3
        <3> QED BY <3>1 DEF T
    <2> QED BY <2>4
<1>9. at = [k \in 1..size |-> at[k]]
    BY <1>6
<1> QED BY <1>7, <1>8, <1>9 DEF at

LEMMA SizesAreNumbers ==
    ASSUME NEW entries \in Headers
    PROVE  /\ Len(entries) \in Nat
           /\ DOMAIN entries = 1..Len(entries)
           /\ \A k \in 1..Len(entries) : entries[k].size \in Nat /\ entries[k].path \in Paths
<1>1. ASSUME NEW k \in 1..Len(entries)
      PROVE  entries[k] \in [path : Paths, size : Nat, sha256 : Hashes]
    BY ElementOfSeq DEF Headers
<1> QED BY <1>1 DEF Headers

\* So an offset is never beyond a later one.
LEMMA OffsetsGrow ==
    ASSUME NEW entries \in Headers, NEW k \in 1..(Len(entries) + 1)
    PROVE  OffsetsOf(entries)[k] <= OffsetsOf(entries)[Len(entries) + 1]
<1> DEFINE at == OffsetsOf(entries)
           size == Len(entries)
           T == {j \in Nat : j <= size => \A i \in 1..(j + 1) : at[i] <= at[j + 1]}
<1>1. /\ size \in Nat
      /\ at \in [1..(size + 1) -> Nat]
      /\ \A i \in 1..size : at[i + 1] = at[i] + 1 + entries[i].size /\ entries[i].size \in Nat
    BY SizesAreNumbers, OffsetsAdvance
<1> HIDE DEF at, size
<1>2. 0 \in T
    BY <1>1
<1>3. ASSUME NEW j \in T PROVE j + 1 \in T
    <2>1. ASSUME j + 1 <= size, NEW i \in 1..(j + 2)
          PROVE  at[i] <= at[j + 2]
        <3>1. at[j + 2] = at[j + 1] + 1 + entries[j + 1].size /\ entries[j + 1].size \in Nat
            <4>1. j + 1 \in 1..size /\ (j + 1) + 1 = j + 2
                BY <1>1, <2>1
            <4> QED BY <1>1, <4>1
        <3>2. at[j + 1] \in Nat /\ at[j + 2] \in Nat
            BY <1>1, <2>1
        <3>3. CASE i \in 1..(j + 1)
            <4>1. at[i] <= at[j + 1] /\ at[i] \in Nat
                BY <1>1, <2>1, <3>3
            <4> QED BY <3>1, <3>2, <4>1
        <3>4. CASE i = j + 2
            BY <3>2, <3>4
        <3> QED BY <2>1, <3>3, <3>4
    <2>2. (j + 1) + 1 = j + 2 /\ j + 1 \in Nat
        OBVIOUS
    <2> QED BY <2>1, <2>2
<1>4. T = Nat
    <2> HIDE DEF T
    <2>1. T \in SUBSET Nat
        BY DEF T
    <2> QED BY <1>2, <1>3, <2>1, SetInduction
<1>5. size \in T
    BY <1>1, <1>4
<1>6. k \in 1..(size + 1)
    BY DEF size
<1> QED BY <1>1, <1>5, <1>6 DEF at, size

-----------------------------------------------------------------------------
(* Decoding.                                                               *)

Parts == {MAGIC, "other", FORMAT_VERSION, "2", "not_json"}

LEMMA OpeningsAreSequences == ASSUME NEW opening \in Openings PROVE opening \in Seq(Parts)
<1> DEFINE Full == {MAGIC, "other"} \X {FORMAT_VERSION, "2"} \X {FORMAT_VERSION, "2", "not_json"}
<1>1. ASSUME NEW f \in Full, NEW k \in 1..3
      PROVE  SubSeq(f, 1, k) \in Seq(Parts)
    <2>1. f = <<f[1], f[2], f[3]>> /\ f[1] \in Parts /\ f[2] \in Parts /\ f[3] \in Parts
        BY DEF Parts
    <2> HIDE DEF Full
    <2>2. PICK a \in Parts, b \in Parts, c \in Parts : f = <<a, b, c>>
        BY <2>1
    <2>3. f \in Seq(Parts) /\ Len(f) = 3
        BY <2>2
    <2>4. \A i \in 1..k : f[i] \in Parts
        <3>1. \A i \in 1..k : i \in 1..Len(f)
            BY <2>3
        <3> QED BY <2>3, <3>1, ElementOfSeq
    <2> QED BY <2>3, <2>4, SubSeqProperties
<1> HIDE DEF Full
<1>2. opening = <<>> \/ \E f \in Full, k \in 1..3 : opening = SubSeq(f, 1, k)
    BY DEF Openings, Full
<1>3. <<>> \in Seq(Parts)
    OBVIOUS
<1> QED BY <1>1, <1>2, <1>3

\* read_header gets to a header exactly behind the right parts.
LEMMA ParsedIsExact ==
    ASSUME NEW opening \in Openings
    PROVE  Parsed(opening) = "ok" <=> opening = Opening
<1> DEFINE right == {k \in 1..3 : \A j \in 1..k : j <= Len(opening) /\ opening[j] = Opening[j]}
           k == Cardinality(right) + 1
<1>1. opening \in Seq(Parts) /\ Len(opening) \in Nat
    BY OpeningsAreSequences
<1>2. /\ IsFiniteSet(1..3) /\ Cardinality(1..3) = 3 
    <2>1. 1 \in Int /\ 3 \in Int
        OBVIOUS
    <2>2. IsFiniteSet(1..3) /\ Cardinality(1..3) = IF 1 > 3 THEN 0 ELSE 3 - 1 + 1
        BY <2>1, FS_Interval, Zenon
    <2> QED BY <2>2
<1>3. right \in SUBSET (1..3)
    OBVIOUS
<1> HIDE DEF right
<1>4. /\ IsFiniteSet(right) /\ Cardinality(right) \in Nat
      /\ Cardinality(right) = 3 => right = 1..3
    <2>1. IsFiniteSet(right) /\ (Cardinality(1..3) = Cardinality(right) => 1..3 = right)
        BY <1>2, <1>3, FS_Subset, Zenon
    <2> QED BY <1>2, <2>1, FS_CardinalityType
<1>5. Opening \in Seq(Parts) /\ Len(Opening) = 3
    BY DEF Opening, Parts
<1>6. CASE opening = Opening
    <2>1. right = 1..3
        <3>1. \A j \in 1..3 : j <= 3
            OBVIOUS
        <3>2. \A i \in 1..3 : \A j \in 1..i : j \in 1..3
            OBVIOUS
        <3> QED BY <1>5, <1>6, <3>1, <3>2 DEF right
    <2>2. k = 4 /\ Len(opening) = 3
        BY <1>2, <1>5, <1>6, <2>1
    <2> QED BY <1>6, <2>2 DEF Parsed, right
<1>7. CASE Parsed(opening) = "ok"
    <2>1. k > Len(opening) /\ k = 4
        BY <1>1, <1>4, <1>7 DEF Parsed, right
    <2>2. right = 1..3
        BY <1>4, <2>1
    <2>3. 3 \in right
        BY <2>2
    <2>4. Len(opening) = 3 /\ \A j \in 1..3 : opening[j] = Opening[j]
        <3>1. \A j \in 1..3 : j <= Len(opening) /\ opening[j] = Opening[j]
            BY <2>3 DEF right
        <3>2. 3 \in 1..3
            OBVIOUS
        <3> QED BY <1>1, <2>1, <3>1, <3>2
    <2>5. Len(opening) = Len(Opening) /\ \A j \in 1..Len(opening) : opening[j] = Opening[j]
        BY <1>5, <2>4
    <2>6. opening = Opening
        BY <1>1, <1>5, <2>5, SeqEqual, Zenon
    <2> QED BY <1>7, <2>6
<1> QED BY <1>6, <1>7

\* While blobs are read, those there are where the header puts them.
RightSoFar ==
    /\ archive.opening = Opening
    /\ pos = Offset[Len(blobs) + 1]
    /\ pos <= Len(body)
    /\ \A k \in 1..Len(blobs) : body[Offset[k] + 1] = header[k].size /\ blobs[k] = BlobAt(k)

AllDecoded == WellFormed /\ blobs = [k \in DOMAIN header |-> BlobAt(k)]

\* What has been decoded, and what a command that returns has decoded.
DecodeInv ==
    /\ command \in {"verify", "unpack", "info"}
    /\ phase \in {"blobs", "check", "write", "creating"} => command # "info"
    /\ phase = "list" => command = "info"
    /\ phase # "done" => outcome = "none"
    /\ phase = "header" => pos = 0 /\ blobs = <<>>
    /\ phase = "blobs" => RightSoFar
    /\ phase \in {"check", "write", "creating"} => AllDecoded
    /\ phase = "done" /\ command # "info" => IF Undecodable THEN ~WellFormed ELSE AllDecoded

\* Where the header puts the blobs, as numbers.
LEMMA Layout ==
    ASSUME ContainerTypeInv
    PROVE  /\ Len(header) \in Nat /\ DOMAIN header = 1..Len(header)
           /\ Len(body) \in Nat /\ \A i \in 1..Len(body) : body[i] \in Nat
           /\ Len(blobs) \in Nat
           /\ Offset[1] = 0 /\ Offset[Len(header) + 1] \in Nat
           /\ \A k \in 1..Len(header) :
                 /\ header[k].size \in Nat /\ Offset[k] \in Nat /\ Offset[k + 1] \in Nat
                 /\ Offset[k + 1] = Offset[k] + 1 + header[k].size
                 /\ Offset[k + 1] <= Offset[Len(header) + 1]
<1>1. header \in Headers /\ body \in Seq(Cells) /\ Cells \subseteq Nat /\ blobs \in Seq(Blob)
    BY ContainerAssumption DEF ContainerTypeInv, Stream, ContainerAssumption, Headers, header, body
<1>2. Len(body) \in Nat /\ \A i \in 1..Len(body) : body[i] \in Nat
    <2>1. \A i \in 1..Len(body) : body[i] \in Cells
        BY <1>1, ElementOfSeq
    <2>2. Len(body) \in Nat
        BY <1>1
    <2>3. Cells \subseteq Nat
        BY <1>1
    <2> QED BY <2>1, <2>2, <2>3
<1>3. Len(header) \in Nat /\ DOMAIN header = 1..Len(header)
      /\ \A k \in 1..Len(header) : header[k].size \in Nat
    BY <1>1, SizesAreNumbers
<1>4. /\ Offset \in [1..(Len(header) + 1) -> Nat] /\ Offset[1] = 0
      /\ \A k \in 1..Len(header) : Offset[k + 1] = Offset[k] + 1 + header[k].size
    BY <1>1, OffsetsAdvance DEF Offset
<1>5. \A k \in 1..(Len(header) + 1) : Offset[k] <= Offset[Len(header) + 1]
    BY <1>1, OffsetsGrow DEF Offset
<1>6. Offset[Len(header) + 1] \in Nat
    BY <1>3, <1>4
<1>7. ASSUME NEW k \in 1..Len(header)
      PROVE  /\ header[k].size \in Nat /\ Offset[k] \in Nat /\ Offset[k + 1] \in Nat
             /\ Offset[k + 1] = Offset[k] + 1 + header[k].size
             /\ Offset[k + 1] <= Offset[Len(header) + 1]
    <2>1. k \in 1..(Len(header) + 1) /\ k + 1 \in 1..(Len(header) + 1)
        BY <1>3
    <2>2. Offset[k] \in Nat /\ Offset[k + 1] \in Nat
        BY <1>4, <2>1
    <2>3. Offset[k + 1] <= Offset[Len(header) + 1]
        BY <1>5, <2>1
    <2>4. header[k].size \in Nat /\ Offset[k + 1] = Offset[k] + 1 + header[k].size
        BY <1>3, <1>4
    <2> QED BY <2>2, <2>3, <2>4
<1>8. Len(blobs) \in Nat
    BY <1>1
<1> QED BY <1>2, <1>3, <1>4, <1>6, <1>7, <1>8

LEMMA ArchiveStays ==
    ASSUME archive' = archive
    PROVE  /\ header' = header /\ body' = body /\ Offset' = Offset
           /\ WellFormed' <=> WellFormed
           /\ \A k : BlobAt(k)' = BlobAt(k)
BY DEF header, body, Offset, WellFormed, BlobAt

LEMMA DecodeInit == Init => DecodeInv
BY DEF Init, DecodeInv

\* The lengths found are the sizes of a well-formed stream.
LEMMA ReadBlobDecodes ==
    ASSUME WriteInv, DecodeInv, ReadBlob
    PROVE  DecodeInv'
<1> DEFINE e == Len(blobs) + 1
<1>1. ContainerTypeInv /\ RightSoFar /\ phase = "blobs" /\ e <= Len(header) /\ command # "info"
    BY DEF WriteInv, DecodeInv, ReadBlob, Entry
<1>2. /\ archive' = archive /\ command' = command
      /\ header' = header /\ body' = body /\ Offset' = Offset
      /\ WellFormed' <=> WellFormed
      /\ \A k : BlobAt(k)' = BlobAt(k)
    BY ArchiveStays DEF ReadBlob
<1>3. /\ e \in 1..Len(header) /\ Len(blobs) \in Nat
      /\ pos = Offset[e] /\ pos \in Nat /\ pos <= Len(body) /\ Len(body) \in Nat
      /\ header[e].size \in Nat
      /\ Offset[e + 1] = pos + 1 + header[e].size
      /\ Offset[e + 1] <= Offset[Len(header) + 1]
      /\ Offset[Len(header) + 1] \in Nat
    BY <1>1, Layout DEF RightSoFar
<1>4. CASE Short(pos, 1) \/ Short(pos + 1, BlobLen)
    <2>1. ASSUME WellFormed PROVE FALSE
        <3>1. Len(body) = Offset[Len(header) + 1] /\ body[pos + 1] = header[e].size
            BY <1>1, <1>3, <2>1, Layout DEF WellFormed
        <3> HIDE DEF e
        <3> QED BY <1>3, <1>4, <3>1 DEF Short, BlobLen
    <2>2. phase' = "done" /\ outcome' = "truncated"
        BY <1>4 DEF ReadBlob, Stop
    <2> QED BY <1>1, <1>2, <2>1, <2>2 DEF DecodeInv, Undecodable, Intros
<1>5. CASE ~Short(pos, 1) /\ ~Short(pos + 1, BlobLen) /\ BlobLen # header[e].size
    <2>1. ASSUME WellFormed PROVE FALSE
        <3>1. body[pos + 1] = header[e].size
            BY <1>1, <1>3, <2>1, Layout DEF WellFormed
        <3> QED BY <1>5, <3>1 DEF BlobLen
    <2>2. phase' = "done" /\ outcome' = "size_mismatch"
        BY <1>5 DEF ReadBlob, Stop, Entry
    <2> QED BY <1>1, <1>2, <2>1, <2>2 DEF DecodeInv, Undecodable, Intros
<1>6. CASE ~Short(pos, 1) /\ ~Short(pos + 1, BlobLen) /\ BlobLen = header[e].size
    <2> DEFINE blob == SubSeq(body, pos + 2, pos + 1 + BlobLen)
    <2>1. /\ blobs' = Append(blobs, blob) /\ pos' = pos + 1 + BlobLen
          /\ phase' = phase /\ outcome' = outcome
        BY <1>6 DEF ReadBlob, Entry
    <2>2. blob = BlobAt(e)
        BY <1>3, <1>6 DEF BlobAt
    <2>3. body[Offset[e] + 1] = header[e].size
        BY <1>3, <1>6 DEF BlobLen
    <2> HIDE DEF blob
    <2>4. /\ Len(blobs') = e /\ blobs'[e] = blob
          /\ \A k \in 1..Len(blobs) : blobs'[k] = blobs[k]
        BY <1>1, <2>1 DEF ContainerTypeInv
    <2>5. pos' = Offset[e + 1] /\ pos' <= Len(body)
        <3> HIDE DEF e
        <3> QED BY <1>3, <1>6, <2>1 DEF Short
    <2>6. ASSUME NEW k \in 1..e
          PROVE  body[Offset[k] + 1] = header[k].size /\ blobs'[k] = BlobAt(k)
        <3>1. CASE k = e
            BY <2>2, <2>3, <2>4, <3>1
        <3>2. CASE k # e
            <4>1. k \in 1..Len(blobs)
                BY <1>3, <3>2
            <4>2. body[Offset[k] + 1] = header[k].size /\ blobs[k] = BlobAt(k)
                BY <1>1, <4>1 DEF RightSoFar
            <4> QED BY <2>4, <4>1, <4>2
        <3> QED BY <3>1, <3>2
    <2>7. RightSoFar'
        BY <1>1, <1>2, <2>4, <2>5, <2>6 DEF RightSoFar
    <2> QED BY <1>1, <1>2, <2>1, <2>7 DEF DecodeInv
<1> QED BY <1>4, <1>5, <1>6

LEMMA DecodeStep == WriteInv /\ DecodeInv /\ [Next]_vars => DecodeInv'
<1> SUFFICES ASSUME WriteInv, DecodeInv, [Next]_vars PROVE DecodeInv'
    OBVIOUS
<1>1. CASE ReadBlob
    BY <1>1, ReadBlobDecodes
<1>2. ASSUME ~ReadBlob
      PROVE  UNCHANGED <<archive, command, pos, blobs>>
    BY <1>2 DEF Next, ReadHeader, Decoded, CheckBlob, Report, CreateFile, WriteFile, Unpacked,
                ListEntry, Listed, vars
<1>3. ASSUME UNCHANGED <<archive, command, pos, blobs>>
      PROVE  /\ RightSoFar' <=> RightSoFar
             /\ AllDecoded' <=> AllDecoded
             /\ WellFormed' <=> WellFormed
    BY <1>3 DEF RightSoFar, AllDecoded, WellFormed, BlobAt, Offset, header, body
<1>4. CASE ReadHeader
    <2>1. UNCHANGED <<archive, command, pos, blobs>>
        BY <1>4 DEF ReadHeader
    <2>2. archive.opening \in Openings /\ Len(<<>>) = 0
        BY DEF WriteInv, ContainerTypeInv, Stream
    <2>3. CASE Parsed(archive.opening) = "ok"
        <3>1. RightSoFar
            <4>1. archive.opening = Opening /\ pos = 0 /\ Len(blobs) = 0
                BY <1>4, <2>2, <2>3, ParsedIsExact DEF ReadHeader, DecodeInv
            <4>2. Offset[1] = 0 /\ 0 <= Len(body)
                BY Layout DEF WriteInv
            <4> QED BY <4>1, <4>2 DEF RightSoFar
        <3> QED BY <1>3, <1>4, <2>1, <2>3, <3>1 DEF ReadHeader, DecodeInv
    <2>4. CASE Parsed(archive.opening) # "ok"
        <3>1. ~WellFormed
            BY <2>2, <2>4, ParsedIsExact DEF WellFormed
        <3>2. Parsed(archive.opening) \in Intros
            BY DEF Parsed, Intros
        <3>3. phase' = "done" /\ outcome' = Parsed(archive.opening)
            BY <1>4, <2>4 DEF ReadHeader, Stop
        <3> HIDE DEF Intros
        <3>4. Undecodable'
            BY <2>4, <3>2, <3>3 DEF Undecodable
        <3> QED BY <1>3, <2>1, <3>1, <3>3, <3>4 DEF DecodeInv
    <2> QED BY <2>3, <2>4
<1>5. CASE Decoded
    <2>1. UNCHANGED <<archive, command, pos, blobs>> /\ phase = "blobs" /\ RightSoFar
          /\ ContainerTypeInv /\ Len(blobs) = Len(header) /\ command # "info"
        BY <1>5, Layout DEF Decoded, DecodeInv, WriteInv, Entry
    <2>2. CASE pos # Len(body)
        <3>1. ~WellFormed
            BY <2>1, <2>2 DEF WellFormed, RightSoFar
        <3>2. phase' = "done" /\ outcome' = "trailing"
            BY <1>5, <2>2 DEF Decoded, Stop
        <3> QED BY <1>3, <2>1, <3>1, <3>2 DEF DecodeInv, Undecodable, Intros
    <2>3. CASE pos = Len(body)
        <3>1. WellFormed
            BY <2>1, <2>3, Layout DEF WellFormed, RightSoFar
        <3>2. blobs = [k \in DOMAIN header |-> BlobAt(k)]
            <4>1. DOMAIN header = 1..Len(blobs) /\ blobs = [k \in 1..Len(blobs) |-> blobs[k]]
                BY <2>1, Layout DEF ContainerTypeInv
            <4> QED BY <2>1, <4>1 DEF RightSoFar
        <3>3. phase' \in {"check", "write"} /\ outcome' = "none"
            BY <1>5, <2>1, <2>3 DEF Decoded, DecodeInv
        <3> QED BY <1>3, <2>1, <3>1, <3>2, <3>3 DEF DecodeInv, AllDecoded
    <2> QED BY <2>2, <2>3
<1>6. CASE CheckBlob \/ Report \/ CreateFile \/ WriteFile \/ Unpacked
    <2>1. /\ UNCHANGED <<archive, command, pos, blobs>>
          /\ phase \in {"check", "write", "creating"} /\ AllDecoded /\ command # "info"
        BY <1>6 DEF CheckBlob, Report, CreateFile, WriteFile, Unpacked, DecodeInv
    <2>2. \/ phase' \in {"check", "write", "creating"} /\ outcome' = "none"
          \/ phase' = "done" /\ outcome' \in {"ok", "failed", "hash_mismatch", "unsafe_path", "io_error", "write_failed"}
        BY <1>6 DEF CheckBlob, Report, CreateFile, WriteFile, Unpacked, DecodeInv, Stop
    <2> QED BY <1>3, <2>1, <2>2 DEF DecodeInv, Undecodable, Intros
<1>7. CASE ListEntry \/ Listed
    BY <1>2, <1>3, <1>7 DEF ListEntry, Listed, DecodeInv, Stop
<1>8. CASE UNCHANGED vars
    BY <1>3, <1>8 DEF vars, DecodeInv, Undecodable
<1> QED BY <1>1, <1>4, <1>5, <1>6, <1>7, <1>8 DEF Next

\* A stream is decoded exactly if it is well-formed, and into the blobs that
\* are where the header puts them (lib.rs:329-363).
THEOREM DecodesExactly == Spec => []DecodesTheWellFormed
<1>1. Spec => [](WriteInv /\ DecodeInv)
    BY ContainerInit, ContainerStep, DecodeInit, DecodeStep, PTL DEF Spec
<1>2. WriteInv /\ DecodeInv => DecodesTheWellFormed
    <2> SUFFICES ASSUME WriteInv, DecodeInv, ~Decoding
                 PROVE  /\ Undecodable <=> ~WellFormed
                        /\ ~Undecodable => blobs = [k \in DOMAIN header |-> BlobAt(k)]
        BY DEF DecodesTheWellFormed
    <2>1. CASE phase = "done"
        BY <2>1 DEF DecodeInv, Decoding, AllDecoded
    <2>2. CASE phase \in {"check", "write", "creating"}
        BY <2>2 DEF DecodeInv, AllDecoded, Undecodable, Intros
    <2>3. CASE phase = "list"
        BY <2>3 DEF DecodeInv, Decoding
    <2> QED BY <2>1, <2>2, <2>3 DEF WriteInv, ContainerTypeInv, Steps, Decoding
<1> QED BY <1>1, <1>2, PTL

-----------------------------------------------------------------------------
(* Verdicts and written files.                                             *)

Archives == Streams \union {Packed(dir) : dir \in Directories}

Written == {f \in Files : out[f] # Absent}

\* Entry j passes, and its file is there without one in its way.
Placed(j) ==
    /\ HashMatches(j)
    /\ TheirDest(j) \in Written
    /\ \A f \in Written : f \notin Ancestors(TheirDest(j)) /\ TheirDest(j) \notin Ancestors(f)

\* The entries before n have their bytes in their file, but for those whose
\* file one up to the entry last opened for itself.
LastOneStays(last) ==
    \A k \in 1..(n - 1) :
        (\A j \in k + 1..last : TheirDest(j) # TheirDest(k)) => out[TheirDest(k)] = blobs[k]

Contents ==
    \A k \in DOMAIN header :
        (\A j \in k + 1..Len(header) : TheirDest(j) # TheirDest(k)) => out[TheirDest(k)] = BlobAt(k)

\* What is known when a command returns.
VerdictInv ==
    /\ command = "info" =>
          \/ outcome = "ok"
          \/ archive.opening # Opening
          \/ \E k \in DOMAIN header : header[k].sha256 \in ShortHashes
    /\ command = "verify" => (outcome = "ok" <=> Intact)
    /\ command = "unpack" /\ outcome # "write_failed" => (outcome = "ok" <=> Usable)
    /\ command = "unpack" /\ outcome = "ok" => Contents
    /\ outcome = "hash_mismatch" => ~Intact
    /\ outcome = "unsafe_path" => \E k \in DOMAIN header : TheirDest(k) = Unsafe

OutcomeInv ==
    /\ archive \in Archives
    /\ dirs = UNION {Ancestors(f) : f \in Written}
    /\ phase \in {"header", "blobs"} => n = 1 /\ problems = {}
    /\ phase = "check" =>
          /\ command = "verify" /\ n <= Len(header) + 1
          /\ problems = {j \in 1..(n - 1) : ~HashMatches(j)}
    /\ phase = "list" => n <= Len(header) + 1
    /\ phase \in {"write", "creating"} => command = "unpack" /\ n <= Len(header) + 1
    /\ phase = "write" => (\A j \in 1..(n - 1) : Placed(j)) /\ LastOneStays(n - 1)
    /\ phase = "creating" => (\A j \in 1..n : Placed(j)) /\ LastOneStays(n)
    /\ phase = "done" => VerdictInv

\* A file is in none of the directories below itself.
LEMMA NotItsAncestor == ASSUME NEW f \in Files PROVE f \notin Ancestors(f)
<1> SUFFICES ASSUME NEW k \in 1..Len(f) - 1, f = SubSeq(f, 1, k) PROVE FALSE
    BY DEF Ancestors
<1>1. f \in Seq(STRING) /\ Len(f) \in Nat
    BY ContainerAssumption DEF ContainerAssumption
<1>2. \A i \in 1..k : f[i] \in STRING
    <2>1. \A i \in 1..k : i \in 1..Len(f)
        BY <1>1
    <2> QED BY <1>1, <2>1, ElementOfSeq
<1>3. k \in Int /\ 1 \in Int /\ 1 <= k
    BY <1>1
<1>4. Len(SubSeq(f, 1, k)) = k
    <2>1. Len(SubSeq(f, 1, k)) = IF 1 <= k THEN k - 1 + 1 ELSE 0
        BY <1>2, <1>3, SubSeqProperties, Zenon
    <2> QED BY <1>3, <2>1
<1> QED BY <1>1, <1>4

LEMMA DestIsFile ==
    ASSUME ContainerTypeInv, NEW j \in DOMAIN header
    PROVE  TheirDest(j) # Unsafe <=> TheirDest(j) \in Files
<1>1. header \in Headers
    BY DEF ContainerTypeInv, Stream, Headers, header
<1>2. header[j].path \in Paths
    BY <1>1, SizesAreNumbers
<1> QED BY <1>2 DEF TheirDest, Files

\* What verdicts are about changes only with the files.
LEMMA VerdictsStay ==
    ASSUME UNCHANGED <<archive, command, blobs>>
    PROVE  /\ header' = header
           /\ Intact' <=> Intact
           /\ \A j : TheirDest(j)' = TheirDest(j) /\ BlobAt(j)' = BlobAt(j)
           /\ \A j : HashMatches(j)' <=> HashMatches(j)
           /\ out' = out => /\ Written' = Written /\ (Usable' <=> Usable) /\ (Contents' <=> Contents)
                            /\ \A j : Placed(j)' <=> Placed(j)
BY DEF header, body, Offset, WellFormed, Intact, TheirDest, BlobAt, HashMatches, Written,
       Disjoint, Usable, Contents, Placed

\* Blobs that have their hashes are those of an intact stream.
LEMMA IntactIsMatching ==
    ASSUME AllDecoded
    PROVE  Intact <=> \A k \in DOMAIN header : HashMatches(k)
BY DEF AllDecoded, Intact, HashMatches

LEMMA OutcomeInit == Init => OutcomeInv
BY DEF Init, OutcomeInv, Archives, Written

\* What stands in the way of a file stands in the way for good.
LEMMA CreateFileKeeps ==
    ASSUME WriteInv, DecodeInv, OutcomeInv, CreateFile
    PROVE  OutcomeInv'
<1>1. /\ ContainerTypeInv /\ phase = "write" /\ command = "unpack" /\ AllDecoded
      /\ n \in DOMAIN header /\ n \in Nat \ {0} /\ n <= Len(header)
      /\ archive \in Archives /\ dirs = UNION {Ancestors(f) : f \in Written}
      /\ (\A j \in 1..(n - 1) : Placed(j)) /\ LastOneStays(n - 1)
    BY Layout DEF WriteInv, DecodeInv, OutcomeInv, CreateFile, ContainerTypeInv
<1>2. UNCHANGED <<archive, command, blobs, n, pos, problems>> /\ Dest = TheirDest(n)
    BY DEF CreateFile, Dest, TheirDest
<1>3. CASE ~HashMatches(n)
    <2>1. ~Intact
        BY <1>1, <1>3, IntactIsMatching
    <2>2. phase' = "done" /\ outcome' = "hash_mismatch" /\ out' = out /\ dirs' = dirs
        BY <1>3 DEF CreateFile, Stop
    <2> QED BY <1>1, <1>2, <2>1, <2>2, VerdictsStay DEF OutcomeInv, VerdictInv, Usable, Archives
<1>4. CASE HashMatches(n) /\ Dest = Unsafe
    <2>1. phase' = "done" /\ outcome' = "unsafe_path" /\ out' = out /\ dirs' = dirs
        BY <1>4 DEF CreateFile, Stop
    <2>2. ~Usable
        BY <1>1, <1>2, <1>4 DEF Usable
    <2> QED BY <1>1, <1>2, <1>4, <2>1, <2>2, VerdictsStay DEF OutcomeInv, VerdictInv, Archives
<1>5. CASE HashMatches(n) /\ Dest # Unsafe /\ Blocked(Dest)
    <2>1. phase' = "done" /\ outcome' = "io_error" /\ out' = out /\ dirs' = dirs
        BY <1>5 DEF CreateFile, Stop
    <2>2. PICK f \in Written : f \in Ancestors(Dest) \/ Dest \in Ancestors(f)
        BY <1>1, <1>5 DEF Blocked, Written
    <2>3. ~Usable
        BY <1>1, <1>2, <2>2 DEF Usable, Disjoint, Written
    <2> QED BY <1>1, <1>2, <2>1, <2>3, VerdictsStay DEF OutcomeInv, VerdictInv, Archives
<1>6. CASE HashMatches(n) /\ Dest # Unsafe /\ ~Blocked(Dest)
    <2>1. /\ phase' = "creating" /\ out' = [out EXCEPT ![Dest] = <<>>]
          /\ dirs' = dirs \union Ancestors(Dest)
        BY <1>6 DEF CreateFile
    <2>2. Dest \in Files
        BY <1>1, <1>2, <1>6, DestIsFile
    <2>3. out' [Dest] = <<>> /\ \A f \in Files \ {Dest} : out'[f] = out[f]
        BY <1>1, <2>1, <2>2 DEF ContainerTypeInv
    <2>4. Written' = Written \union {Dest}
        <3>1. <<>> \in Blob /\ Absent \notin Blob
            BY ContainerAssumption DEF ContainerAssumption, Blob
        <3> QED BY <2>2, <2>3, <3>1 DEF Written
    <2>5. dirs' = UNION {Ancestors(f) : f \in Written'}
        BY <1>1, <2>1, <2>4
    <2>6. \A f \in Written : Dest \notin Ancestors(f) /\ f \notin Ancestors(Dest)
        BY <1>1, <1>6 DEF Blocked, Written
    <2>7. Dest \notin Ancestors(Dest)
        BY <2>2, NotItsAncestor
    <2>8. ASSUME NEW j \in 1..n PROVE Placed(j)'
        <3>1. TheirDest(j)' = TheirDest(j) /\ (HashMatches(j)' <=> HashMatches(j))
            BY <1>2, VerdictsStay
        <3>2. CASE j = n
            BY <1>2, <1>6, <2>4, <2>6, <2>7, <3>1, <3>2 DEF Placed
        <3>3. CASE j # n
            <4>1. j \in 1..(n - 1)
                BY <1>1, <3>3
            <4>2. Placed(j)
                BY <1>1, <4>1
            <4> QED BY <2>4, <2>6, <3>1, <4>2 DEF Placed
        <3> QED BY <3>2, <3>3
    <2>9. LastOneStays(n)'
        <3> SUFFICES ASSUME NEW k \in 1..(n - 1), \A j \in k + 1..n : TheirDest(j) # TheirDest(k)
                     PROVE  out'[TheirDest(k)] = blobs[k]
            BY <1>2, VerdictsStay DEF LastOneStays
        <3>1. TheirDest(k) # Dest /\ \A j \in k + 1..n - 1 : TheirDest(j) # TheirDest(k)
            BY <1>1, <1>2
        <3>2. TheirDest(k) \in Files
            BY <1>1 DEF Placed, Written
        <3> QED BY <1>1, <2>3, <3>1, <3>2 DEF LastOneStays
    <2> QED BY <1>1, <1>2, <2>1, <2>5, <2>8, <2>9, VerdictsStay DEF OutcomeInv, Archives
<1> QED BY <1>3, <1>4, <1>5, <1>6

LEMMA WriteFileKeeps ==
    ASSUME WriteInv, DecodeInv, OutcomeInv, WriteFile
    PROVE  OutcomeInv'
<1>1. /\ ContainerTypeInv /\ phase = "creating" /\ command = "unpack" /\ AllDecoded
      /\ n \in 1..Len(header) /\ n \in 1..Len(blobs) /\ n \in Nat /\ Len(header) \in Nat
      /\ archive \in Archives /\ dirs = UNION {Ancestors(f) : f \in Written}
      /\ (\A j \in 1..n : Placed(j)) /\ LastOneStays(n)
    <2>1. /\ phase = "creating" /\ ContainerTypeInv /\ Len(blobs) = Len(header)
          /\ n \in DOMAIN header /\ AllDecoded
        BY DEF WriteFile, WriteInv, DecodeInv
    <2>2. n \in 1..Len(header) /\ Len(header) \in Nat
        BY <2>1, Layout
    <2> QED BY <2>1, <2>2 DEF OutcomeInv
<1>2. UNCHANGED <<archive, command, blobs, pos, problems, dirs>> /\ Dest = TheirDest(n)
    BY DEF WriteFile, Dest, TheirDest
<1>3. blobs[n] \in Blob /\ Dest \in Files /\ out[Dest] # Absent /\ Absent \notin Blob
    BY <1>1, <1>2, ContainerAssumption DEF ContainerTypeInv, Placed, Written, ContainerAssumption
<1>4. PICK count \in 0..Len(blobs[n]) : out' = [out EXCEPT ![Dest] = SubSeq(blobs[n], 1, count)]
    <2>1. SubSeq(blobs[n], 1, Len(blobs[n])) = blobs[n] /\ Len(blobs[n]) \in Nat
        BY <1>3, SubSeqFull DEF Blob
    <2> QED BY <2>1 DEF WriteFile
<1>5. /\ out'[Dest] # Absent /\ \A f \in Files \ {Dest} : out'[f] = out[f]
    <2>1. \A i \in 1..count : blobs[n][i] \in Cells
        <3>1. \A i \in 1..count : i \in 1..Len(blobs[n])
            BY <1>3 DEF Blob
        <3> QED BY <1>3, <3>1, ElementOfSeq DEF Blob
    <2>2. count \in Int /\ 1 \in Int
        BY <1>3 DEF Blob
    <2>3. SubSeq(blobs[n], 1, count) \in Blob
        BY <2>1, <2>2, SubSeqProperties, Zenon DEF Blob
    <2> QED BY <1>1, <1>3, <1>4, <2>3 DEF ContainerTypeInv
<1>6. Written' = Written
    BY <1>3, <1>5 DEF Written
<1>7. \A j : Placed(j)' <=> Placed(j)
    BY <1>2, <1>6, VerdictsStay DEF Placed
<1>8. CASE out' = [out EXCEPT ![Dest] = blobs[n]] /\ n' = n + 1 /\ phase' = "write" /\ outcome' = outcome
    <2>1. ASSUME NEW k \in 1..n, \A j \in k + 1..n : TheirDest(j) # TheirDest(k)
          PROVE  out'[TheirDest(k)] = blobs[k]
        <3>1. CASE k = n
            BY <1>1, <1>2, <1>3, <1>8, <3>1 DEF ContainerTypeInv
        <3>2. CASE k # n
            <4>1. k \in 1..(n - 1) /\ TheirDest(k) # Dest /\ TheirDest(k) \in Files
                BY <1>1, <1>2, <2>1, <3>2 DEF Placed, Written
            <4> QED BY <1>1, <1>5, <2>1, <4>1 DEF LastOneStays
        <3> QED BY <3>1, <3>2
    <2>2. LastOneStays(n - 1)'
        <3>1. n' - 1 = n
            BY <1>1, <1>8
        <3>2. blobs' = blobs /\ \A j : TheirDest(j)' = TheirDest(j)
            BY <1>2, VerdictsStay
        <3> QED BY <2>1, <3>1, <3>2 DEF LastOneStays
    <2>3. n' - 1 = n /\ n' <= Len(header) + 1 /\ header' = header
        BY <1>1, <1>2, <1>8, VerdictsStay
    <2>4. \A j \in 1..(n' - 1) : Placed(j)'
        BY <1>1, <1>7, <2>3
    <2> QED BY <1>1, <1>2, <1>6, <1>8, <2>2, <2>3, <2>4 DEF OutcomeInv, Archives
<1>9. CASE n' = n /\ phase' = "done" /\ outcome' = "write_failed"
    BY <1>1, <1>2, <1>6, <1>9 DEF OutcomeInv, VerdictInv, Archives
<1> QED BY <1>8, <1>9 DEF WriteFile, Stop

\* When every entry has its file, no two are in each other's way.
LEMMA UnpackedKeeps ==
    ASSUME WriteInv, DecodeInv, OutcomeInv, Unpacked
    PROVE  OutcomeInv'
<1>1. /\ ContainerTypeInv /\ command = "unpack" /\ AllDecoded
      /\ archive \in Archives /\ dirs = UNION {Ancestors(f) : f \in Written}
      /\ UNCHANGED <<archive, command, blobs, n, pos, problems, out, dirs>>
      /\ phase' = "done" /\ outcome' = "ok"
    BY DEF WriteInv, DecodeInv, OutcomeInv, Unpacked, Stop
<1>2. n = Len(header) + 1 /\ n - 1 = Len(header) /\ DOMAIN header = 1..Len(header)
    BY Layout DEF WriteInv, OutcomeInv, Unpacked, ContainerTypeInv
<1>3. (\A j \in DOMAIN header : Placed(j)) /\ LastOneStays(Len(header))
    BY <1>2 DEF Unpacked, OutcomeInv
<1>4. Intact
    BY <1>1, <1>3, IntactIsMatching DEF Placed
<1>5. Disjoint
    BY <1>3 DEF Placed, Written, Disjoint
<1>6. \A j \in DOMAIN header : TheirDest(j) # Unsafe
    BY <1>3 DEF Placed, Written, Files
<1>7. Contents
    BY <1>1, <1>2, <1>3 DEF Contents, LastOneStays, AllDecoded
<1>8. Usable
    BY <1>4, <1>5, <1>6 DEF Usable
<1> QED BY <1>1, <1>4, <1>7, <1>8, VerdictsStay DEF OutcomeInv, VerdictInv, Archives

LEMMA VerifyKeeps ==
    ASSUME WriteInv, DecodeInv, OutcomeInv, CheckBlob \/ Report
    PROVE  OutcomeInv'
<1>1. /\ ContainerTypeInv /\ command = "verify" /\ AllDecoded /\ n \in Nat \ {0}
      /\ archive \in Archives /\ dirs = UNION {Ancestors(f) : f \in Written}
      /\ n <= Len(header) + 1 /\ problems = {j \in 1..(n - 1) : ~HashMatches(j)}
      /\ UNCHANGED <<archive, command, blobs, pos, out, dirs>>
      /\ Len(header) \in Nat /\ DOMAIN header = 1..Len(header)
    BY Layout DEF WriteInv, DecodeInv, OutcomeInv, CheckBlob, Report, ContainerTypeInv
<1>2. CASE CheckBlob
    <2>1. n' = n + 1 /\ n <= Len(header) /\ phase' = "check"
          /\ problems' = IF HashMatches(n) THEN problems ELSE problems \union {n}
        BY <1>2 DEF CheckBlob
    <2>2. problems' = {j \in 1..n : ~HashMatches(j)}
        BY <1>1, <2>1
    <2>3. problems' = {j \in 1..(n - 1) : ~HashMatches(j)}'
        <3>1. \A j : HashMatches(j)' <=> HashMatches(j)
            BY <1>1, VerdictsStay
        <3>2. n' - 1 = n
            BY <1>1, <2>1
        <3> QED BY <2>2, <3>1, <3>2
    <2> QED BY <1>1, <2>1, <2>3, VerdictsStay DEF OutcomeInv, Archives
<1>3. CASE Report
    <2>1. phase' = "done" /\ outcome' = (IF problems = {} THEN "ok" ELSE "failed") /\ n - 1 = Len(header)
        BY <1>1, <1>3 DEF Report, Stop
    <2>2. problems = {} <=> Intact
        BY <1>1, <2>1, IntactIsMatching
    <2> QED BY <1>1, <2>1, <2>2, VerdictsStay DEF OutcomeInv, VerdictInv, Archives
<1> QED BY <1>2, <1>3

LEMMA OutcomeStep ==
    WriteInv /\ DecodeInv /\ DecodeInv' /\ OutcomeInv /\ [Next]_vars => OutcomeInv'
<1> SUFFICES ASSUME WriteInv, DecodeInv, DecodeInv', OutcomeInv, [Next]_vars PROVE OutcomeInv'
    OBVIOUS
<1>1. CASE CheckBlob \/ Report
    BY <1>1, VerifyKeeps
<1>2. CASE CreateFile
    BY <1>2, CreateFileKeeps
<1>3. CASE WriteFile
    BY <1>3, WriteFileKeeps
<1>4. CASE Unpacked
    BY <1>4, UnpackedKeeps
<1>5. CASE ReadHeader \/ ReadBlob \/ Decoded
    <2>1. /\ UNCHANGED <<archive, command, n, problems, out, dirs>>
          /\ archive \in Archives /\ dirs = UNION {Ancestors(f) : f \in Written}
          /\ n = 1 /\ problems = {} /\ outcome = "none" /\ Len(header) \in Nat
          /\ command \in {"verify", "unpack", "info"}
        BY <1>5, Layout DEF WriteInv, DecodeInv, OutcomeInv, ReadHeader, ReadBlob, Decoded
    <2>2. /\ header' = header /\ Written' = Written /\ n <= Len(header) + 1
          /\ (Intact' => WellFormed') /\ (Usable' => Intact')
        BY <2>1 DEF header, Written, Intact, Usable
    <2>3. \/ phase' \in {"blobs", "list"}
          \/ phase' = "check" /\ command = "verify"
          \/ phase' = "write" /\ command = "unpack"
          \/ phase' = "done" /\ outcome' \in (Intros \ {"ok"}) \union {"size_mismatch", "trailing"}
        <3>1. Parsed(archive.opening) \in Intros
            BY DEF Parsed, Intros
        <3> HIDE DEF Intros
        <3>2. "truncated" \in Intros \ {"ok"}
            BY DEF Intros
        <3> QED BY <1>5, <2>1, <3>1, <3>2 DEF ReadHeader, ReadBlob, Decoded, Stop, DecodeInv
    <2>4. CASE phase' # "done"
        <3>1. LastOneStays(n - 1)' /\ problems' = {j \in 1..(n - 1) : ~HashMatches(j)}'
              /\ \A j \in (1..(n - 1))' : Placed(j)'
            BY <2>1 DEF LastOneStays
        <3> QED BY <2>1, <2>2, <2>3, <2>4, <3>1 DEF OutcomeInv, Archives
    <2>5. CASE phase' = "done"
        <3>1. /\ Undecodable' /\ outcome' \notin {"ok", "hash_mismatch", "unsafe_path", "write_failed"}
            BY <2>3, <2>5 DEF Undecodable, Intros
        <3>2. command # "info" => ~WellFormed'
            BY <2>1, <2>5, <3>1 DEF DecodeInv
        <3>3. command = "info" => archive'.opening # Opening
            <4>1. ASSUME command = "info" PROVE Parsed(archive.opening) # "ok"
                BY <1>5, <2>5, <4>1 DEF ReadHeader, ReadBlob, Decoded, DecodeInv
            <4>2. archive.opening \in Openings
                BY DEF WriteInv, ContainerTypeInv, Stream
            <4> QED BY <2>1, <4>1, <4>2, ParsedIsExact
        <3> QED BY <2>1, <2>2, <2>5, <3>1, <3>2, <3>3 DEF OutcomeInv, VerdictInv, Archives
    <2> QED BY <2>4, <2>5
<1>6. CASE ListEntry \/ Listed
    <2>1. /\ UNCHANGED <<archive, command, blobs, problems, out, dirs>>
          /\ archive \in Archives /\ dirs = UNION {Ancestors(f) : f \in Written}
          /\ command = "info" /\ n \in Nat \ {0} /\ phase = "list" /\ n <= Len(header) + 1
          /\ Len(header) \in Nat /\ DOMAIN header = 1..Len(header)
        BY <1>6, Layout DEF WriteInv, ContainerTypeInv, DecodeInv, OutcomeInv, ListEntry, Listed
    <2>2. header' = header /\ Written' = Written
        BY <2>1 DEF header, Written
    <2>3. \/ phase' = "list" /\ n' = n + 1 /\ n <= Len(header)
          \/ phase' = "done" /\ outcome' = "ok"
          \/ phase' = "done" /\ outcome' = "panic" /\ n \in DOMAIN header /\ header[n].sha256 \in ShortHashes
        BY <1>6, <2>1 DEF ListEntry, Listed, Stop
    <2>4. n' = n + 1 /\ n <= Len(header) => n' <= Len(header) + 1
        BY <2>1
    <2> QED BY <2>1, <2>2, <2>3, <2>4 DEF OutcomeInv, VerdictInv, Archives
<1>7. CASE UNCHANGED vars
    <2>1. UNCHANGED <<archive, command, blobs, out>>
        BY <1>7 DEF vars
    <2> QED BY <1>7, <2>1, VerdictsStay DEF vars, OutcomeInv, VerdictInv, LastOneStays, Archives
<1> QED BY <1>1, <1>2, <1>3, <1>4, <1>5, <1>6, <1>7 DEF Next

\* A blob of a well-formed stream is a part of its body.
LEMMA BlobsAreInBody ==
    ASSUME ContainerTypeInv, WellFormed, archive \in Archives, NEW k \in DOMAIN header
    PROVE  Sha256(BlobAt(k)) \notin ShortHashes
<1> DEFINE first == Offset[k] + 2
           last == Offset[k] + 1 + header[k].size
<1>1. first \in 1..Len(body) + 1 /\ last \in 0..Len(body)
    BY Layout DEF WellFormed
<1>2. body \in {s.body : s \in Archives}
    BY DEF body
<1> HIDE DEF first, last
<1>3. Sha256(SubSeq(body, first, last)) \notin ShortHashes
    BY <1>1, <1>2, HashAssumption DEF HashAssumption, Archives
<1> QED BY <1>3 DEF BlobAt, first, last

\* What is known of a stream and its command at any time.
StreamInv == WriteInv /\ DecodeInv /\ OutcomeInv

LEMMA AlwaysStreamInv == Spec => []StreamInv
<1>1. Init => StreamInv
    BY ContainerInit, DecodeInit, OutcomeInit DEF StreamInv
<1>2. StreamInv /\ [Next]_vars => StreamInv'
    BY ContainerStep, DecodeStep, OutcomeStep DEF StreamInv
<1> QED BY <1>1, <1>2, PTL DEF Spec

\* verify reports no problem exactly for intact streams, unpack succeeds on a
\* disk with room exactly if also nothing is in the way, and leaves the bytes
\* of the last entry of every name; info does not panic on what verifies
\* (lib.rs:392-443, main.rs:275).
THEOREM VerdictsAreExact == Spec => []OutcomeIsExact
<1>1. StreamInv => OutcomeIsExact
    <2> SUFFICES ASSUME StreamInv, phase = "done" PROVE OutcomeIsExact
        BY DEF OutcomeIsExact
    <2>1. ContainerTypeInv /\ VerdictInv /\ archive \in Archives
        BY DEF StreamInv, WriteInv, OutcomeInv
    <2>2. ASSUME command = "info", Intact PROVE outcome = "ok"
        <3>1. archive.opening = Opening
            BY <2>2 DEF Intact, WellFormed
        <3>2. \A k \in DOMAIN header : header[k].sha256 \notin ShortHashes
            BY <2>1, <2>2, BlobsAreInBody DEF Intact
        <3> QED BY <2>1, <2>2, <3>1, <3>2 DEF VerdictInv
    <2> QED BY <2>1, <2>2 DEF VerdictInv, OutcomeIsExact, Contents
<1> QED BY <1>1, AlwaysStreamInv, PTL

-----------------------------------------------------------------------------
(* What pack writes.                                                       *)

\* A sequence is flattened one element after the other.
Flattens(flat, seqs) ==
    /\ flat[1] = seqs[1]
    /\ \A k \in 2..Len(seqs) : flat[k] = flat[k - 1] \o seqs[k]

LEMMA Flattening ==
    ASSUME NEW S, NEW seqs \in Seq(Seq(S)), Len(seqs) # 0
    PROVE  \E flat \in [1..Len(seqs) -> Seq(S)] :
               Flattens(flat, seqs) /\ FlattenSeq(seqs) = flat[Len(seqs)]
<1> DEFINE size == Len(seqs)
           step == [k \in Nat |-> [v \in Seq(S) |-> IF k \in 1..size THEN v \o seqs[k] ELSE v]]
           after(flat) == [i \in 1..size |-> IF i = 1 THEN seqs[i] ELSE flat[i - 1] \o seqs[i]]
<1>1. size \in Nat /\ size # 0 /\ \A k \in 1..size : seqs[k] \in Seq(S)
    BY ElementOfSeq
<1> HIDE DEF size
<1>2. step \in [Nat -> [Seq(S) -> Seq(S)]]
    BY <1>1, ConcatProperties
<1> HIDE DEF step
<1>3. PICK f \in [1..size -> Seq(S)] : Follows(f, seqs[1], step, size)
    <2>1. seqs[1] \in Seq(S)
        BY <1>1
    <2> QED BY <1>1, <1>2, <2>1, RecursionExists
<1>4. f = after(f)
    <2>1. ASSUME NEW k \in 1..size, k # 1
          PROVE  step[k][f[k - 1]] = f[k - 1] \o seqs[k]
        <3>1. k \in Nat /\ k - 1 \in 1..size
            BY <1>1, <2>1
        <3>2. f[k - 1] \in Seq(S)
            BY <3>1
        <3> QED BY <3>1, <3>2 DEF step
    <2>2. ASSUME NEW k \in 1..size
          PROVE  f[k] = after(f)[k]
        BY <1>3, <2>1, <2>2 DEF Follows
    <2> HIDE DEF after
    <2>3. after(f) = [k \in 1..size |-> after(f)[k]]
        BY DEF after
    <2> QED BY <2>2, <2>3
<1> DEFINE flat == CHOOSE flat : flat = after(flat)
<1>5. flat = after(flat)
    <2> HIDE DEF after
    <2> QED BY <1>4
<1>6. FlattenSeq(seqs) = flat[size]
    BY <1>1 DEF FlattenSeq, size
<1> HIDE DEF flat
<1>7. /\ DOMAIN flat = 1..size /\ flat[1] = seqs[1]
      /\ \A k \in 2..size : flat[k] = flat[k - 1] \o seqs[k]
    <2>1. \A k \in 1..size : flat[k] = IF k = 1 THEN seqs[k] ELSE flat[k - 1] \o seqs[k]
        BY <1>5
    <2>2. 1 \in 1..size /\ \A k \in 2..size : k \in 1..size /\ k # 1
        BY <1>1
    <2>3. DOMAIN flat = 1..size
        BY <1>5
    <2> QED BY <2>1, <2>2, <2>3
<1>8. \A k \in 1..size : flat[k] \in Seq(S)
    <2> DEFINE T == {j \in Nat : j < size => flat[j + 1] \in Seq(S)}
    <2>1. 0 \in T
        BY <1>1, <1>7
    <2>2. ASSUME NEW j \in T PROVE j + 1 \in T
        <3>1. ASSUME j + 1 < size PROVE flat[(j + 1) + 1] \in Seq(S)
            <4>1. j + 2 \in 2..size /\ (j + 2) - 1 = j + 1 /\ (j + 1) + 1 = j + 2 /\ j + 2 \in 1..size
                BY <1>1, <3>1
            <4>2. flat[j + 1] \in Seq(S) /\ seqs[j + 2] \in Seq(S)
                BY <1>1, <3>1, <4>1
            <4>3. flat[j + 2] = flat[j + 1] \o seqs[j + 2]
                BY <1>7, <4>1
            <4> QED BY <4>1, <4>2, <4>3, ConcatProperties
        <3> QED BY <3>1
    <2> HIDE DEF T
    <2>3. T = Nat
        <3>1. T \in SUBSET Nat
            BY DEF T
        <3> QED BY <2>1, <2>2, <3>1, SetInduction
    <2>4. ASSUME NEW k \in 1..size PROVE flat[k] \in Seq(S)
        <3>1. k - 1 \in T /\ k - 1 < size
            BY <1>1, <2>3
        <3> QED BY <3>1 DEF T
    <2> QED BY <2>4
<1>9. flat = [k \in 1..size |-> flat[k]]
    BY <1>5
<1>10. flat \in [1..size -> Seq(S)]
    BY <1>8, <1>9
<1> QED BY <1>6, <1>7, <1>10 DEF Flattens, size

\* Every element lies in what is flattened where those before it end.
LEMMA FlatPositions ==
    ASSUME NEW S, NEW seqs \in Seq(Seq(S)), NEW at,
           at[1] = 0, \A k \in 1..Len(seqs) : at[k] \in Nat /\ at[k + 1] = at[k] + Len(seqs[k])
    PROVE  /\ Len(FlattenSeq(seqs)) = at[Len(seqs) + 1]
           /\ Len(seqs) # 0 => FlattenSeq(seqs) \in Seq(S)
           /\ \A k \in 1..Len(seqs) : \A i \in 1..Len(seqs[k]) :
                 FlattenSeq(seqs)[at[k] + i] = seqs[k][i]
<1>1. CASE Len(seqs) = 0
    BY <1>1 DEF FlattenSeq
<1>2. CASE Len(seqs) # 0
    <2> DEFINE size == Len(seqs)
    <2>1. PICK flat \in [1..size -> Seq(S)] :
              Flattens(flat, seqs) /\ FlattenSeq(seqs) = flat[size]
        BY <1>2, Flattening
    <2>2. /\ size \in Nat /\ size # 0
          /\ \A k \in 1..size : /\ seqs[k] \in Seq(S) /\ Len(seqs[k]) \in Nat
                                /\ at[k] \in Nat /\ at[k + 1] = at[k] + Len(seqs[k])
        BY <1>2, ElementOfSeq
    <2>3. flat[1] = seqs[1] /\ \A k \in 2..size : flat[k] = flat[k - 1] \o seqs[k]
        BY <2>1 DEF Flattens
    <2> HIDE DEF size
    <2> DEFINE Holds(j) ==
                  /\ Len(flat[j]) = at[j + 1]
                  /\ \A k \in 1..j :
                        /\ at[k + 1] <= at[j + 1]
                        /\ \A i \in 1..Len(seqs[k]) : flat[j][at[k] + i] = seqs[k][i]
               T == {j \in Nat : j < size => Holds(j + 1)}
    <2>4. 0 \in T
        <3>1. at[1] = 0 /\ at[2] = Len(seqs[1]) /\ Len(seqs[1]) \in Nat /\ flat[1] = seqs[1]
            BY <2>2, <2>3
        <3>2. Holds(1)
            BY <3>1
        <3> HIDE DEF Holds
        <3> QED BY <3>2
    <2>5. ASSUME NEW j \in T PROVE j + 1 \in T
        <3> SUFFICES ASSUME j + 1 < size PROVE Holds((j + 1) + 1)
            OBVIOUS
        <3> DEFINE m == j + 2
        <3>1. /\ m \in 2..size /\ m \in 1..size /\ m - 1 \in 1..size /\ m - 1 = j + 1 /\ m \in Nat
              /\ (j + 1) + 1 = m /\ Holds(m - 1) /\ (m - 1) + 1 = m
            BY <2>2
        <3> HIDE DEF m, T
        <3>2. /\ flat[m] = flat[m - 1] \o seqs[m]
              /\ flat[m - 1] \in Seq(S) /\ seqs[m] \in Seq(S) /\ Len(flat[m - 1]) = at[m]
              /\ at[m] \in Nat /\ at[m + 1] = at[m] + Len(seqs[m]) /\ Len(seqs[m]) \in Nat
            BY <2>2, <2>3, <3>1
        <3>3. /\ Len(flat[m]) = at[m] + Len(seqs[m])
              /\ \A i \in 1..(at[m] + Len(seqs[m])) :
                    flat[m][i] = IF i <= at[m] THEN flat[m - 1][i] ELSE seqs[m][i - at[m]]
            <4>1. /\ Len(flat[m - 1] \o seqs[m]) = Len(flat[m - 1]) + Len(seqs[m])
                  /\ \A i \in 1..(Len(flat[m - 1]) + Len(seqs[m])) :
                        (flat[m - 1] \o seqs[m])[i] =
                           IF i <= Len(flat[m - 1]) THEN flat[m - 1][i] ELSE seqs[m][i - Len(flat[m - 1])]
                BY <3>2, ConcatProperties
            <4> QED BY <3>2, <4>1
        <3>4. ASSUME NEW k \in 1..m
              PROVE  /\ at[k + 1] <= at[m + 1]
                     /\ \A i \in 1..Len(seqs[k]) : flat[m][at[k] + i] = seqs[k][i]
            <4>1. CASE k = m
                <5>1. at[k + 1] = at[m + 1] /\ at[m + 1] \in Nat
                    BY <3>2, <4>1
                <5>2. ASSUME NEW i \in 1..Len(seqs[m])
                      PROVE  flat[m][at[m] + i] = seqs[m][i]
                    <6>1. at[m] + i \in 1..(at[m] + Len(seqs[m])) /\ ~(at[m] + i <= at[m])
                          /\ (at[m] + i) - at[m] = i
                        BY <3>2
                    <6> QED BY <3>3, <6>1
                <5> QED BY <4>1, <5>1, <5>2
            <4>2. CASE k # m
                <5>1. k \in 1..(m - 1) /\ k \in 1..size
                    <6>1. m \in Nat /\ m \in 1..size
                        BY <3>1
                    <6> QED BY <2>2, <4>2, <6>1
                <5>2. at[k + 1] <= at[m] /\ at[k] \in Nat /\ at[k + 1] = at[k] + Len(seqs[k])
                      /\ Len(seqs[k]) \in Nat
                      /\ \A i \in 1..Len(seqs[k]) : flat[m - 1][at[k] + i] = seqs[k][i]
                    BY <2>2, <3>1, <5>1
                <5>3. at[k + 1] <= at[m + 1]
                    <6>1. at[k + 1] <= at[m] /\ at[k + 1] \in Nat
                        BY <5>2
                    <6>2. at[m] \in Nat /\ Len(seqs[m]) \in Nat /\ at[m + 1] = at[m] + Len(seqs[m])
                        BY <3>2
                    <6> QED BY <6>1, <6>2
                <5>4. ASSUME NEW i \in 1..Len(seqs[k])
                      PROVE  flat[m][at[k] + i] = seqs[k][i]
                    <6>1. /\ at[k] \in Nat /\ Len(seqs[k]) \in Nat /\ at[k] + Len(seqs[k]) <= at[m]
                          /\ at[m] \in Nat /\ Len(seqs[m]) \in Nat
                        BY <3>2, <5>2
                    <6> DEFINE a == at[k]  c == at[m]  l == Len(seqs[k])  r == Len(seqs[m])
                    <6>2. a + i \in 1..(c + r) /\ a + i <= c
                        <7>1. a \in Nat /\ l \in Nat /\ a + l <= c /\ c \in Nat /\ r \in Nat /\ i \in 1..l
                            BY <6>1
                        <7> HIDE DEF a, c, l, r
                        <7> QED BY <7>1
                    <6>3. flat[m][at[k] + i] = flat[m - 1][at[k] + i]
                        BY <3>3, <6>2
                    <6>4. flat[m - 1][at[k] + i] = seqs[k][i]
                        BY <5>2
                    <6> QED BY <6>3, <6>4
                <5> QED BY <5>3, <5>4
            <4> QED BY <4>1, <4>2
        <3> QED BY <3>1, <3>2, <3>3, <3>4
    <2> HIDE DEF T
    <2>6. T = Nat
        <3>1. T \in SUBSET Nat
            BY DEF T
        <3> QED BY <2>4, <2>5, <3>1, SetInduction
    <2>7. Holds(size)
        <3>1. size - 1 \in T /\ size - 1 < size /\ (size - 1) + 1 = size
            BY <2>2, <2>6
        <3> HIDE DEF Holds
        <3> QED BY <3>1 DEF T
    <2>8. flat[size] \in Seq(S)
        BY <2>2
    <2> QED BY <2>1, <2>7, <2>8 DEF size
<1> QED BY <1>1, <1>2

\* The blobs of a packed directory lie where its header puts them.
LEMMA PackedIsIntact ==
    ASSUME NEW dir \in Directories, archive = Packed(dir)
    PROVE  /\ Intact /\ DOMAIN header = DOMAIN dir
           /\ \A k \in DOMAIN dir : BlobAt(k) = dir[k].bytes /\ header[k].path = dir[k].path
<1> DEFINE size == Len(dir)
           bytes == [k \in DOMAIN dir |-> dir[k].bytes]
           parts == [k \in DOMAIN bytes |-> <<Len(bytes[k])>> \o bytes[k]]
<1>1. /\ DOMAIN dir = 1..size /\ size \in Nat /\ Cells \subseteq Nat
      /\ \A k \in 1..size : dir[k].path \in Paths /\ dir[k].bytes \in Seq(Cells) /\ dir[k].bytes \in Seq(Nat)
    <2>1. dir \in Seq([path : Paths, bytes : Blob]) /\ Cells \subseteq Nat
        BY DirectoryAssumption, ContainerAssumption DEF DirectoryAssumption, ContainerAssumption
    <2>2. ASSUME NEW k \in 1..size
          PROVE  dir[k] \in [path : Paths, bytes : Blob]
        BY <2>1, ElementOfSeq
    <2>3. ASSUME NEW s \in Seq(Cells)
          PROVE  s \in Seq(Nat)
        <3>1. \A i \in 1..Len(s) : s[i] \in Nat
            BY <2>1, <2>3, ElementOfSeq
        <3>2. s \in [1..Len(s) -> Nat] /\ Len(s) \in Nat
            BY <2>3, <3>1
        <3> QED BY <3>2
    <2>4. DOMAIN dir = 1..size /\ size \in Nat
        BY <2>1
    <2>5. ASSUME NEW k \in 1..size
          PROVE  dir[k].path \in Paths /\ dir[k].bytes \in Seq(Cells)
        BY <2>2 DEF Blob
    <2> QED BY <2>1, <2>3, <2>4, <2>5
<1> HIDE DEF size
<1>2. archive \in Stream /\ header \in Headers
    BY ContainerAssumption DEF ContainerAssumption, Stream, Headers, header
<1>3. /\ archive.opening = Opening /\ DOMAIN header = 1..size
      /\ \A k \in 1..size : /\ header[k].path = dir[k].path
                            /\ header[k].size = Len(dir[k].bytes)
                            /\ header[k].sha256 = Sha256(dir[k].bytes)
      /\ body = FlattenSeq(parts)
    BY <1>1 DEF Packed, Encode, header, body
<1>4. Len(header) = size
    BY <1>1, <1>2, <1>3, SizesAreNumbers
<1>5. /\ Offset[1] = 0
      /\ \A k \in 1..size : /\ Offset[k] \in Nat
                            /\ Offset[k + 1] = Offset[k] + 1 + Len(dir[k].bytes)
    <2>1. /\ Offset \in [1..(size + 1) -> Nat] /\ Offset[1] = 0
          /\ \A k \in 1..size : Offset[k + 1] = Offset[k] + 1 + header[k].size
        BY <1>2, <1>4, OffsetsAdvance DEF Offset
    <2> QED BY <1>1, <1>3, <2>1
<1>6. /\ parts \in Seq(Seq(Nat)) /\ Len(parts) = size
      /\ \A k \in 1..size : /\ parts[k] \in Seq(Nat)
                            /\ Len(parts[k]) = 1 + Len(dir[k].bytes)
                            /\ parts[k][1] = Len(dir[k].bytes)
                            /\ \A i \in 1..Len(dir[k].bytes) : parts[k][i + 1] = dir[k].bytes[i]
    <2>1. ASSUME NEW k \in 1..size
          PROVE  /\ parts[k] \in Seq(Nat)
                 /\ Len(parts[k]) = 1 + Len(dir[k].bytes)
                 /\ parts[k][1] = Len(dir[k].bytes)
                 /\ \A i \in 1..Len(dir[k].bytes) : parts[k][i + 1] = dir[k].bytes[i]
        <3> DEFINE b == dir[k].bytes
        <3>1. b \in Seq(Nat) /\ Len(b) \in Nat /\ parts[k] = <<Len(b)>> \o b
            BY <1>1
        <3> HIDE DEF b, parts
        <3>2. <<Len(b)>> \in Seq(Nat) /\ Len(<<Len(b)>>) = 1 /\ <<Len(b)>>[1] = Len(b)
            BY <3>1
        <3>3. /\ <<Len(b)>> \o b \in Seq(Nat)
              /\ Len(<<Len(b)>> \o b) = 1 + Len(b)
              /\ \A i \in 1..(1 + Len(b)) :
                    (<<Len(b)>> \o b)[i] = IF i <= 1 THEN <<Len(b)>>[i] ELSE b[i - 1]
            BY <3>1, <3>2, ConcatProperties
        <3>4. \A i \in 1..Len(b) : parts[k][i + 1] = b[i]
            <4> TAKE i \in 1..Len(b)
            <4>1. i + 1 \in 1..(1 + Len(b)) /\ ~(i + 1 <= 1) /\ (i + 1) - 1 = i
                BY <3>1
            <4> QED BY <3>1, <3>3, <4>1
        <3>5. parts[k][1] = Len(b)
            BY <3>1, <3>2, <3>3
        <3> QED BY <3>1, <3>3, <3>4, <3>5 DEF b
    <2>2. DOMAIN parts = 1..size
        BY <1>1
    <2>3. parts = [k \in 1..size |-> parts[k]]
        BY <1>1
    <2> HIDE DEF parts
    <2> QED BY <1>1, <2>1, <2>2, <2>3
<1> HIDE DEF parts, bytes
<1>7. /\ Len(body) = Offset[size + 1]
      /\ size # 0 => body \in Seq(Nat)
      /\ \A k \in 1..size : \A i \in 1..Len(parts[k]) : body[Offset[k] + i] = parts[k][i]
    <2>1. \A k \in 1..Len(parts) : Offset[k] \in Nat /\ Offset[k + 1] = Offset[k] + Len(parts[k])
        <3> TAKE k \in 1..Len(parts)
        <3>1. k \in 1..size
            BY <1>6
        <3>2. Len(dir[k].bytes) \in Nat /\ Len(parts[k]) = 1 + Len(dir[k].bytes)
            BY <1>1, <1>6, <3>1
        <3>3. Offset[k] \in Nat /\ Offset[k + 1] = Offset[k] + 1 + Len(dir[k].bytes)
            BY <1>5, <3>1
        <3> QED BY <3>2, <3>3
    <2>2. /\ Len(FlattenSeq(parts)) = Offset[Len(parts) + 1]
          /\ Len(parts) # 0 => FlattenSeq(parts) \in Seq(Nat)
          /\ \A k \in 1..Len(parts) : \A i \in 1..Len(parts[k]) :
                FlattenSeq(parts)[Offset[k] + i] = parts[k][i]
        <3>1. parts \in Seq(Seq(Nat)) /\ Offset[1] = 0
            BY <1>5, <1>6
        <3> QED BY <2>1, <3>1, FlatPositions
    <2> QED BY <1>3, <1>6, <2>2
<1>8. ASSUME NEW k \in 1..size
      PROVE  body[Offset[k] + 1] = Len(dir[k].bytes) /\ BlobAt(k) = dir[k].bytes
    <2> DEFINE b == dir[k].bytes  first == Offset[k]
    <2>1. /\ b \in Seq(Cells) /\ Len(b) \in Nat /\ first \in Nat /\ header[k].size = Len(b)
          /\ Len(parts[k]) = 1 + Len(b) /\ parts[k][1] = Len(b)
          /\ \A i \in 1..Len(b) : parts[k][i + 1] = b[i]
        BY <1>1, <1>3, <1>5, <1>6
    <2> HIDE DEF b, first
    <2>2. \A i \in 1..(1 + Len(b)) : body[first + i] = parts[k][i]
        BY <1>7, <2>1 DEF first
    <2>3. body[first + 1] = Len(b)
        BY <2>1, <2>2
    <2>4. \A i \in 1..Len(b) : body[first + 1 + i] = b[i]
        <3> TAKE i \in 1..Len(b)
        <3>1. i + 1 \in 1..(1 + Len(b)) /\ first + (i + 1) = first + 1 + i
            BY <2>1
        <3> QED BY <2>1, <2>2, <3>1
    <2>5. BlobAt(k) = SubSeq(body, first + 2, first + 1 + Len(b))
        BY <2>1 DEF BlobAt, first
    <2>6. \A i \in (first + 2)..(first + 1 + Len(b)) : body[i] \in Cells
        <3> TAKE i \in (first + 2)..(first + 1 + Len(b))
        <3>1. i - first - 1 \in 1..Len(b) /\ first + 1 + (i - first - 1) = i
            BY <2>1
        <3>2. body[i] = b[i - first - 1]
            BY <2>4, <3>1
        <3> QED BY <2>1, <3>1, <3>2, ElementOfSeq
    <2>7. /\ BlobAt(k) \in Seq(Cells) /\ Len(BlobAt(k)) = Len(b)
          /\ \A i \in 1..Len(b) : BlobAt(k)[i] = b[i]
        <3> DEFINE l == first + 2  h == first + 1 + Len(b)
        <3>1. l \in Int /\ h \in Int /\ h - l + 1 = Len(b) /\ (l <= h <=> 1 <= Len(b))
            BY <2>1
        <3>2. \A i \in 1..Len(b) : l + i - 1 = first + 1 + i
            BY <2>1
        <3>3. \A i \in l..h : body[i] \in Cells
            BY <2>6
        <3> HIDE DEF l, h
        <3>4. /\ SubSeq(body, l, h) \in Seq(Cells)
              /\ Len(SubSeq(body, l, h)) = IF l <= h THEN h - l + 1 ELSE 0
              /\ \A i \in 1..(h - l + 1) : SubSeq(body, l, h)[i] = body[l + i - 1]
            BY <3>1, <3>3, SubSeqProperties
        <3>5. BlobAt(k) = SubSeq(body, l, h)
            BY <2>5 DEF l, h
        <3>6. Len(SubSeq(body, l, h)) = Len(b)
            BY <2>1, <3>1, <3>4
        <3> QED BY <2>4, <3>1, <3>2, <3>4, <3>5, <3>6
    <2>8. BlobAt(k) = b
        BY <2>1, <2>7, SeqEqual
    <2> QED BY <2>3, <2>8 DEF b, first
<1> QED BY <1>1, <1>3, <1>4, <1>7, <1>8 DEF Intact, WellFormed

\* What pack writes is accepted by verify, info and unpack, and comes back with
\* its bytes unless something else is in the way (lib.rs:207-258, 278-290,
\* 392-443).
THEOREM PackedComesBack == Spec => []RoundTrip
<1>1. StreamInv => RoundTrip
    <2> SUFFICES ASSUME StreamInv, NEW dir \in Directories, archive = Packed(dir), phase = "done"
                 PROVE  /\ command \in {"verify", "info"} => outcome = "ok"
                        /\ command = "unpack" /\ outcome = "ok" =>
                              \A k \in DOMAIN dir : out[dir[k].path] = dir[k].bytes
                        /\ ~Undecodable /\ outcome # "hash_mismatch" /\ outcome # "unsafe_path"
        BY DEF RoundTrip
    <2>1. ContainerTypeInv /\ VerdictInv /\ DecodeInv /\ archive \in Archives
        BY DEF StreamInv, WriteInv, OutcomeInv
    <2>2. /\ Intact /\ WellFormed /\ DOMAIN header = DOMAIN dir
          /\ \A k \in DOMAIN dir : BlobAt(k) = dir[k].bytes /\ header[k].path = dir[k].path
        BY PackedIsIntact DEF Intact
    <2>3. /\ \A k \in DOMAIN dir : SafeRelative(dir[k].path) = dir[k].path /\ dir[k].path # Unsafe
          /\ \A j, k \in DOMAIN dir : dir[j].path = dir[k].path => j = k
        BY DirectoryAssumption DEF DirectoryAssumption
    <2>4. \A k \in DOMAIN dir : TheirDest(k) = dir[k].path
        BY <2>2, <2>3 DEF TheirDest
    <2>5. outcome # "hash_mismatch" /\ outcome # "unsafe_path"
        BY <2>1, <2>2, <2>3, <2>4 DEF VerdictInv
    <2>6. command \in {"verify", "info"} => outcome = "ok"
        <3>1. command = "verify" => outcome = "ok"
            BY <2>1, <2>2 DEF VerdictInv
        <3>2. \A k \in DOMAIN header : header[k].sha256 \notin ShortHashes
            BY <2>1, <2>2, BlobsAreInBody DEF Intact
        <3>3. command = "info" => outcome = "ok"
            BY <2>1, <2>2, <3>2 DEF VerdictInv, WellFormed
        <3> QED BY <3>1, <3>3
    <2>7. ~Undecodable
        <3>1. command # "info" => ~Undecodable
            BY <2>1, <2>2 DEF DecodeInv
        <3>2. command = "info" => ~Undecodable
            BY <2>6 DEF Undecodable, Intros
        <3> QED BY <3>1, <3>2
    <2>8. ASSUME command = "unpack", outcome = "ok", NEW k \in DOMAIN dir
          PROVE  out[dir[k].path] = dir[k].bytes
        <3>1. Contents /\ k \in DOMAIN header
            BY <2>1, <2>2, <2>8 DEF VerdictInv
        <3>2. \A j \in k + 1..Len(header) : TheirDest(j) # TheirDest(k)
            <4> TAKE j \in k + 1..Len(header)
            <4>1. j \in DOMAIN header /\ j # k
                BY <2>1, <3>1, Layout
            <4> QED BY <2>2, <2>3, <2>4, <4>1
        <3>3. out[TheirDest(k)] = BlobAt(k)
            BY <3>1, <3>2 DEF Contents
        <3> QED BY <2>2, <2>4, <3>3
    <2> QED BY <2>5, <2>6, <2>7, <2>8
<1> QED BY <1>1, AlwaysStreamInv, PTL

=============================================================================
