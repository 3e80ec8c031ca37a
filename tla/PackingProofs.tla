--------------------------- MODULE PackingProofs ---------------------------
(***************************************************************************)
(* Proofs about packing a directory that is being edited, for directories  *)
(* of any size and any number of edits.                                    *)
(***************************************************************************)
EXTENDS Packing, TLAPS

\* The history holds the present, and only the present if nobody edits.
PastHolds ==
    \A f \in Files : tree[f] \in past[f] /\ (edits = 0 => past[f] = {tree[f]})

Underway == phase # "done" \/ outcome = "ok"

\* A directory on the way to f is still to be listed.
Awaited(f) == \E i \in 1..Len(Way[f]) : Way[f][i] \in stack

\* A file that was there all the time is listed, or will be.
NothingMissed ==
    /\ phase \in {"validate", "validate_read"} => Root \in stack
    /\ \A f \in Files :
          Absent \notin past[f] =>
              /\ phase = "collect" => f \in found \/ Awaited(f)
              /\ phase \in {"meta", "meta_read", "read"} \/ outcome = "ok" => f \in found

\* There was a file in dir, or below it.
WasThere(dir) ==
    \E f \in Files : past[f] # {Absent} /\ \E i \in 1..Len(Way[f]) : Way[f][i] = dir

\* What is listed was there at some time.
NothingInvented ==
    /\ \A f \in found : past[f] # {Absent}
    /\ \A dir \in stack \ {Root} : WasThere(dir)
    /\ phase \in {"validate_read", "meta_read"} => past[Manifest] # {Absent}
    /\ \A f \in DOMAIN packed : packed[f] \in past[f]

\* What the phases passed have established.
Passed ==
    /\ phase # "done" <=> outcome = "none"
    /\ outcome = "ok" => phase = "done" /\ found \subseteq DOMAIN packed
    /\ validated /\ Underway /\ phase \notin {"validate", "validate_read"}
          => past[Manifest] \intersect Valid # {}
    /\ phase \in {"validate", "validate_read"} => validated
    /\ phase \in {"meta", "meta_read", "read"} \/ outcome = "ok" => found # {}
    /\ phase \notin {"read", "done"} => meta = Default
    /\ phase = "read" \/ outcome = "ok" =>
          \/ \E c \in past[Manifest] \intersect Json : meta = MetaOf[c]
          \/ meta = Default /\ Absent \in past[Manifest]

\* Why it failed.
Reasons ==
    /\ outcome = "io_error" => \E f \in Files : Absent \in past[f] /\ past[f] # {Absent}
    /\ outcome = "no_files" => \A f \in Files : Absent \in past[f]
    /\ outcome = "not_json" => past[Manifest] \intersect (Contents \ Json) # {}
    /\ outcome = "invalid" => validated /\ past[Manifest] \intersect (Contents \ Valid) # {}
    /\ outcome = "no_manifest" => validated /\ Absent \in past[Manifest]

PackInv == TypeOK /\ PastHolds /\ NothingMissed /\ NothingInvented /\ Passed /\ Reasons

\* A call that has just begun has missed and invented nothing.
LEMMA PackInit == Init => PackInv
<1> SUFFICES ASSUME Init PROVE PackInv
    OBVIOUS
<1> USE PackingAssumption DEF PackingAssumption
<1>1. DOMAIN packed = {} /\ Root \in Dirs /\ Manifest \in Files
    BY DEF Init
<1>2. TypeOK
    BY <1>1 DEF Init, TypeOK, Outcomes, Phases
<1>3. PastHolds
    BY DEF Init, PastHolds
<1>4. NothingMissed /\ NothingInvented
    <2>1. ASSUME NEW f \in Files
          PROVE  Awaited(f)
        <3>1. Way[f] \in Seq(Dirs) /\ Len(Way[f]) > 0 /\ Way[f][1] = Root
            OBVIOUS
        <3>2. 1 \in 1..Len(Way[f])
            BY <3>1
        <3> QED BY <3>1, <3>2 DEF Init, Awaited
    <2> QED BY <1>1, <2>1 DEF Init, NothingMissed, NothingInvented
<1>5. Passed /\ Reasons
    BY DEF Init, Passed, Reasons, Underway, Outcomes
<1> QED BY <1>2, <1>3, <1>4, <1>5 DEF PackInv

\* Every step of the packer and every edit keeps it.
LEMMA PackStep == PackInv /\ [Next]_vars => PackInv'
<1> SUFFICES ASSUME PackInv, [Next]_vars PROVE PackInv'
    OBVIOUS
<1> USE PackingAssumption DEF PackingAssumption, PackInv, Stop, Outcomes, Phases
<1>1. CASE UNCHANGED vars
    <2>1. TypeOK' /\ PastHolds' /\ Passed' /\ Reasons'
        BY <1>1 DEF vars, TypeOK, PastHolds, Passed, Reasons, Underway
    <2>2. NothingMissed' /\ NothingInvented'
        BY <1>1 DEF vars, NothingMissed, NothingInvented, Awaited, WasThere
    <2> QED BY <2>1, <2>2
<1>2. CASE Validate
    <2>1. TypeOK' /\ PastHolds'
        BY <1>2 DEF Validate, TypeOK, PastHolds
    <2>2. NothingInvented'
        BY <1>2 DEF Validate, NothingInvented, PastHolds, WasThere
    <2>3. NothingMissed'
        BY <1>2 DEF Validate, NothingMissed, Passed
    <2>4. Passed'
        BY <1>2 DEF Validate, Passed, Underway
    <2>5. Reasons'
        BY <1>2 DEF Validate, Passed, Reasons, PastHolds
    <2> QED BY <2>1, <2>2, <2>3, <2>4, <2>5
<1>10. CASE ValidateRead
    <2>1. TypeOK' /\ PastHolds'
        BY <1>10 DEF ValidateRead, TypeOK, PastHolds
    <2>2. NothingInvented'
        BY <1>10 DEF ValidateRead, NothingInvented, WasThere
    <2>3. NothingMissed'
        <3>1. phase' = "collect" => Root \in stack'
            BY <1>10 DEF ValidateRead, NothingMissed
        <3>2. \A f \in Files : Root \in stack' => Awaited(f)'
            BY DEF Awaited
        <3> QED BY <1>10, <3>1, <3>2 DEF ValidateRead, NothingMissed, Passed
    <2>4. Passed'
        BY <1>10 DEF ValidateRead, Passed, Underway, PastHolds
    <2>5. Reasons'
        BY <1>10 DEF ValidateRead, Passed, Reasons, PastHolds, TypeOK, NothingInvented
    <2> QED BY <2>1, <2>2, <2>3, <2>4, <2>5
<1>3. CASE ListDir
    <2>1. PICK dir \in stack :
              /\ phase = "collect"
              /\ stack' = (stack \ {dir}) \union SubDirs(dir)
              /\ found' = found \union In(dir)
              /\ UNCHANGED <<tree, validated, phase, meta, packed, outcome, edits, past>>
        BY <1>3 DEF ListDir
    <2>2. TypeOK'
        BY <2>1 DEF TypeOK, In, SubDirs
    <2>3. NothingMissed'
        <3>1. ASSUME NEW f \in Files, Absent \notin past[f]
              PROVE  f \in found' \/ Awaited(f)'
            <4>1. tree[f] # Absent
                BY <3>1 DEF PastHolds
            <4>2. CASE f \in found
                BY <2>1, <4>2
            <4>3. CASE f \notin found
                <5>1. PICK i \in 1..Len(Way[f]) : Way[f][i] \in stack
                    BY <2>1, <3>1, <4>3 DEF NothingMissed, Awaited
                <5>2. CASE Way[f][i] # dir
                    BY <2>1, <5>1, <5>2 DEF Awaited
                <5>3. CASE Way[f][i] = dir /\ i = Len(Way[f])
                    BY <2>1, <4>1, <5>3 DEF In
                <5>4. CASE Way[f][i] = dir /\ i # Len(Way[f])
                    <6>1. i + 1 \in 2..Len(Way[f]) /\ i + 1 \in 1..Len(Way[f]) /\ (i + 1) - 1 = i
                        BY <5>4
                    <6>2. f \in Under(dir) /\ Way[f][i + 1] \in Dirs
                        BY <4>1, <5>4, <6>1 DEF Under
                    <6>3. Way[f][i + 1] \in SubDirs(dir)
                        BY <5>4, <6>1, <6>2 DEF SubDirs
                    <6> QED BY <2>1, <6>1, <6>3 DEF Awaited
                <5> QED BY <5>2, <5>3, <5>4
            <4> QED BY <4>2, <4>3
        <3> QED BY <2>1, <3>1 DEF NothingMissed, Passed
    <2>4. NothingInvented'
        <3>1. \A f \in found' : past[f] # {Absent}
            BY <2>1 DEF NothingInvented, In, PastHolds
        <3>2. ASSUME NEW d \in stack' \ {Root}
              PROVE  WasThere(d)'
            <4>1. CASE d \in stack
                BY <2>1, <4>1 DEF NothingInvented, WasThere
            <4>2. CASE d \notin stack
                <5>1. PICK f \in Under(dir) : \E i \in 2..Len(Way[f]) : Way[f][i] = d
                    BY <2>1, <4>2 DEF SubDirs
                <5>2. f \in Files /\ tree[f] # Absent /\ tree[f] \in past[f]
                    BY DEF Under, PastHolds
                <5>3. \E i \in 1..Len(Way[f]) : Way[f][i] = d
                    BY <5>1, <5>2
                <5> QED BY <2>1, <5>2, <5>3 DEF WasThere
            <4> QED BY <4>1, <4>2
        <3> QED BY <2>1, <3>1, <3>2 DEF NothingInvented
    <2>5. PastHolds' /\ Passed' /\ Reasons'
        BY <2>1 DEF PastHolds, Passed, Reasons, Underway
    <2> QED BY <2>2, <2>3, <2>4, <2>5
<1>4. CASE ListDirFails
    <2>1. TypeOK' /\ PastHolds' /\ NothingMissed' /\ NothingInvented' /\ Passed'
        BY <1>4 DEF ListDirFails, TypeOK, PastHolds, NothingMissed, NothingInvented, Passed,
           Underway, WasThere
    <2>2. PICK dir \in stack \ {Root} : Under(dir) = {}
        BY <1>4 DEF ListDirFails
    <2>3. PICK f \in Files : past[f] # {Absent} /\ \E i \in 1..Len(Way[f]) : Way[f][i] = dir
        BY <2>2 DEF NothingInvented, WasThere
    <2>4. Absent \in past[f]
        BY <2>2, <2>3 DEF Under, PastHolds
    <2>5. Reasons'
        BY <1>4, <2>3, <2>4 DEF ListDirFails, Reasons
    <2> QED BY <2>1, <2>5
<1>5. CASE Collected
    <2>1. TypeOK' /\ PastHolds' /\ NothingInvented'
        BY <1>5 DEF Collected, TypeOK, PastHolds, NothingInvented, WasThere
    <2>2. \A f \in Files : ~Awaited(f)
        BY <1>5 DEF Collected, Awaited
    <2>3. NothingMissed'
        BY <1>5, <2>2 DEF Collected, NothingMissed, Passed
    <2>4. Passed'
        BY <1>5 DEF Collected, Passed, Underway
    <2>5. Reasons'
        <3>1. found = {} => \A f \in Files : Absent \in past[f]
            BY <1>5, <2>2 DEF Collected, NothingMissed
        <3> QED BY <1>5, <3>1 DEF Collected, Reasons, Passed
    <2> QED BY <2>1, <2>3, <2>4, <2>5
<1>11. CASE TestMeta
    <2>1. TypeOK' /\ PastHolds' /\ NothingMissed'
        BY <1>11 DEF TestMeta, TypeOK, PastHolds, NothingMissed
    <2>2. NothingInvented'
        BY <1>11 DEF TestMeta, NothingInvented, PastHolds, WasThere
    <2>3. Passed' /\ Reasons'
        BY <1>11 DEF TestMeta, Passed, Underway, PastHolds, Reasons
    <2> QED BY <2>1, <2>2, <2>3
<1>6. CASE ReadMeta
    <2>1. TypeOK' /\ PastHolds' /\ NothingMissed' /\ NothingInvented'
        BY <1>6 DEF ReadMeta, TypeOK, PastHolds, NothingMissed, NothingInvented, WasThere
    <2>2. Passed'
        BY <1>6 DEF ReadMeta, Passed, Underway, PastHolds, TypeOK
    <2>3. Reasons'
        BY <1>6 DEF ReadMeta, Reasons, Passed, PastHolds, TypeOK, NothingInvented
    <2> QED BY <2>1, <2>2, <2>3
<1>7. CASE ReadFile
    <2>1. PICK f \in Unread :
              /\ phase = "read"
              /\ IF tree[f] = Absent
                 THEN Stop("io_error") /\ UNCHANGED packed
                 ELSE /\ packed' = [g \in DOMAIN packed \union {f} |->
                                       IF g = f THEN tree[f] ELSE packed[g]]
                      /\ UNCHANGED <<phase, outcome>>
              /\ UNCHANGED <<tree, validated, stack, found, meta, edits, past>>
        BY <1>7 DEF ReadFile
    <2>2. f \in found /\ f \in Files /\ tree[f] \in past[f] /\ past[f] # {Absent}
        BY <2>1 DEF Unread, TypeOK, PastHolds, NothingInvented
    <2>3. CASE tree[f] = Absent
        BY <2>1, <2>2, <2>3
           DEF TypeOK, PastHolds, NothingMissed, NothingInvented, Passed, Reasons, Underway,
               WasThere
    <2>4. CASE tree[f] # Absent
        <3>1. /\ DOMAIN packed' = DOMAIN packed \union {f}
              /\ \A g \in DOMAIN packed' : packed'[g] = IF g = f THEN tree[f] ELSE packed[g]
            BY <2>1, <2>4
        <3>2. TypeOK'
            BY <2>1, <2>2, <2>4, <3>1 DEF TypeOK
        <3>3. NothingInvented'
            BY <2>1, <2>2, <2>4, <3>1 DEF NothingInvented, WasThere
        <3> QED BY <2>1, <2>4, <3>2, <3>3 DEF PastHolds, NothingMissed, Passed, Reasons, Underway
    <2> QED BY <2>3, <2>4
<1>8. CASE Serialize
    BY <1>8 DEF Serialize, Unread, TypeOK, PastHolds, NothingMissed, NothingInvented, Passed,
       Reasons, Underway, WasThere
<1>9. CASE Edit
    <2>1. PICK f \in Files, c \in Contents \union {Absent} :
              /\ tree' = [tree EXCEPT ![f] = c]
              /\ past' = [past EXCEPT ![f] = @ \union {c}]
        BY <1>9 DEF Edit
    <2>2. /\ phase # "done" /\ edits < MaxEdits /\ edits' = edits + 1
          /\ UNCHANGED <<validated, phase, stack, found, meta, packed, outcome>>
        BY <1>9 DEF Edit
    <2>3. \A g \in Files : /\ past'[g] = IF g = f THEN past[g] \union {c} ELSE past[g]
                           /\ tree'[g] = IF g = f THEN c ELSE tree[g]
                           /\ past[g] \subseteq past'[g]
        BY <2>1 DEF TypeOK
    <2>4. TypeOK'
        BY <2>1, <2>2 DEF TypeOK
    <2>5. PastHolds'
        <3>1. edits' # 0
            BY <2>2 DEF TypeOK
        <3>2. \A g \in Files : tree'[g] \in past'[g]
            BY <2>3 DEF PastHolds
        <3> QED BY <3>1, <3>2 DEF PastHolds
    <2>6. ASSUME NEW g \in Files, past[g] # {Absent} PROVE past'[g] # {Absent}
        <3>1. PICK x \in past[g] : x # Absent
            BY <2>6 DEF PastHolds
        <3> QED BY <2>3, <3>1
    <2>7. NothingInvented'
        <3>1. \A dir \in stack \ {Root} : WasThere(dir)'
            BY <2>6 DEF NothingInvented, WasThere
        <3> QED BY <2>2, <2>3, <2>6, <3>1 DEF NothingInvented, TypeOK
    <2>8. NothingMissed' /\ Passed'
        BY <2>2, <2>3 DEF NothingMissed, Passed, Underway, Awaited
    <2>9. Reasons'
        BY <2>2 DEF Reasons, Passed
    <2> QED BY <2>4, <2>5, <2>7, <2>8, <2>9
<1> QED BY <1>1, <1>2, <1>3, <1>4, <1>5, <1>6, <1>7, <1>8, <1>9, <1>10, <1>11 DEF Next

\* It holds in every state.
LEMMA PackInvariant == Spec => []PackInv
<1>1. Init => PackInv
    BY PackInit
<1>2. PackInv /\ [Next]_vars => PackInv'
    BY PackStep
<1> QED BY <1>1, <1>2, PTL DEF Spec

\* Every variable of a pack keeps its type.
THEOREM PackTypeCorrect == Spec => []TypeOK
<1>1. PackInv => TypeOK
    BY DEF PackInv
<1> QED BY <1>1, PackInvariant, PTL

\* An archive is of its directory, whatever was edited while it was packed.
THEOREM PackedIsOfTheDirectory ==
    Spec => []ArchiveIsOfTheDirectory
<1>1. PackInv => ArchiveIsOfTheDirectory
    BY PackingAssumption DEF PackingAssumption, PackInv, TypeOK, NothingMissed, NothingInvented,
       Passed, Underway, ArchiveIsOfTheDirectory
<1> QED BY <1>1, PackInvariant, PTL

\* A pack that fails has a reason to, and with nobody editing fails only for
\* the documented ones.
THEOREM PackRefusesWithReason ==
    Spec => []RefusalsHaveAReason
<1>1. PackInv => RefusalsHaveAReason
    <2> SUFFICES ASSUME PackInv PROVE RefusalsHaveAReason
        OBVIOUS
    <2> USE PackingAssumption DEF PackingAssumption, PackInv
    <2>1. ASSUME phase = "done", edits = 0, outcome = "ok"
          PROVE  /\ Present # {}
                 /\ tree[Manifest] \in Json \union {Absent}
                 /\ validated => tree[Manifest] \in Valid
        <3>1. past[Manifest] = {tree[Manifest]}
            BY <2>1 DEF PastHolds
        <3>2. PICK f \in found : f \in Files /\ past[f] # {Absent}
            BY <2>1 DEF Passed, NothingInvented, TypeOK
        <3>3. past[f] = {tree[f]}
            BY <2>1, <3>2 DEF PastHolds
        <3>4. f \in Present
            BY <3>2, <3>3 DEF Present
        <3>5. tree[Manifest] \in Json \union {Absent}
            BY <2>1, <3>1 DEF Passed
        <3>6. validated => tree[Manifest] \in Valid
            BY <2>1, <3>1 DEF Passed, Underway
        <3> QED BY <3>4, <3>5, <3>6
    <2>2. ASSUME phase = "done", edits = 0, outcome # "ok"
          PROVE  \/ Present = {}
                 \/ tree[Manifest] \notin Json \union {Absent}
                 \/ validated /\ tree[Manifest] \notin Valid
        <3>1. \A f \in Files : past[f] = {tree[f]}
            BY <2>2 DEF PastHolds
        <3>2. outcome \in {"no_manifest", "invalid", "no_files", "not_json", "io_error"}
            BY <2>2 DEF Passed, TypeOK, Outcomes
        <3>3. CASE outcome = "io_error"
            BY <3>1, <3>3 DEF Reasons
        <3>4. CASE outcome = "no_files"
            BY <3>1, <3>4 DEF Reasons, Present
        <3>5. CASE outcome = "not_json"
            <4>1. tree[Manifest] \in Contents \ Json
                BY <3>1, <3>5 DEF Reasons
            <4> QED BY <4>1
        <3>6. CASE outcome = "invalid"
            <4>1. validated /\ tree[Manifest] \in Contents \ Valid
                BY <3>1, <3>6 DEF Reasons
            <4> QED BY <4>1
        <3>7. CASE outcome = "no_manifest"
            <4>1. validated /\ tree[Manifest] = Absent
                BY <3>1, <3>7 DEF Reasons
            <4> QED BY <4>1
        <3> QED BY <3>2, <3>3, <3>4, <3>5, <3>6, <3>7
    <2> QED BY <2>1, <2>2 DEF Reasons, RefusalsHaveAReason
<1> QED BY <1>1, PackInvariant, PTL
=============================================================================
