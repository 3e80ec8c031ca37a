--------------------------- MODULE RecoveryProofs ---------------------------
(***************************************************************************)
(* How far overlapping commands, killed commands and edits reach: proofs   *)
(* of DamageConfined and PromisesKept, for any number of processes, names, *)
(* versions, directories, failures and edits.                              *)
(***************************************************************************)
EXTENDS RegistryRecovery, SingleWriterProofs

\* The two commands that create the index.
Starting(p) == pc[p] \in {"init_truncate", "init_fill"}

\* p writes the version k and has not touched its archive yet.
Early(p) == pc[p] \in {"make_dirs", "make_version_dir", "archive_truncate", "unlink"}

\* Whoever is busy is crowded unless it is the only one, and what a crowded
\* command is changing is suspect.  So are, while a file is being rewritten or
\* deleted, the other versions that lead to it.
CrowdInv ==
    /\ crowded \subseteq {p \in Procs : Busy(p)}
    /\ \A p, q \in Procs : Busy(p) /\ Busy(q) /\ p # q => p \in crowded
    /\ \A p \in crowded : Writing(p) => Target(p) \in suspect
    /\ \A p \in Procs : Touching(p) => Neighbours(p) \subseteq suspect

\* What was answered are entries, and nobody is about to change them.
PromiseInv ==
    /\ promised \subseteq Entry
    /\ \A e \in promised, p \in Procs : ~Changes(p, e)

\* Before there is an index there is nothing else, and while it is being
\* created no archive is there but those in doubt.
FreshInv ==
    /\ index = Absent =>
          /\ promised = {}
          /\ \A q \in Places : files[q] = Absent
          /\ \A p \in Procs : pc[p] \in {"idle", "init_truncate"}
    /\ \A p \in Procs : Starting(p) =>
          /\ \A k \in Key \ suspect : files[Place(k)] = Absent
          /\ \A e \in promised : KeyOf(e) \in suspect

\* The entries a writer holds list its own version as its command has it, and
\* it goes to the archive only when there is something to change.
OwnEntry(p) ==
    /\ Writing(p) =>
          {e \in mem[p] : KeyOf(e) = Target(p)}
          = IF cmd[p].op = "add" THEN {EntryOf(cmd[p].archive)} ELSE {}
    /\ Early(p) \/ pc[p] = "archive_fill" => result[p].status = "ok"

\* What a writer that is alone has done to the archive and the index.
LoneWriter(p) ==
    Writing(p) /\ p \notin crowded =>
        LET k == Target(p) IN
        /\ pc[p] = "archive_fill" => files[Place(k)] = Empty /\ p \in live
        /\ pc[p] \in {"prune_version", "prune_name"} => AgreesWith(mem[p], k)
        /\ pc[p] \in {"index_truncate", "index_fill"} =>
              (result[p].status = "ok" \/ k \notin suspect => AgreesWith(mem[p], k))
        /\ pc[p] = "index_fill" => index = Empty

\* The entries agree with the archive of k, and have what was answered of it.
Faithful(entries, k) ==
    /\ AgreesWith(entries, k)
    /\ \A e \in promised : KeyOf(e) = k => e \in entries

\* A version that is not suspect: the index is right about it, unless the one
\* writer it has is past its archive, and so is every copy of the index.
KeyInv(k) ==
    /\ IndexReadable /\ (\A p \in Procs : Writing(p) /\ Target(p) = k => Early(p))
       => Faithful(index, k)
    /\ \A q \in Procs : Writing(q) /\ Target(q) # k => Faithful(mem[q], k)

DamageInv ==
    /\ CrowdInv /\ PromiseInv /\ FreshInv
    /\ \A p \in Procs : OwnEntry(p) /\ LoneWriter(p)
    /\ \A k \in Key \ suspect : KeyInv(k)
-----------------------------------------------------------------------------
(* What the history variables do in any step.                              *)

LEMMA RememberKeeps ==
    ASSUME NEW hit, NEW doubtful, NEW settled, NEW answers,
           Remember(hit, doubtful, settled, answers)
    PROVE  /\ CrowdInv'
           /\ \A k : k \notin suspect' => k \notin doubtful /\ (k \in settled \/ k \notin suspect)
           /\ promised' \subseteq promised \union answers
           /\ \A e \in promised', p \in Procs : ~Changes(p, e)'
           /\ \A p \in Procs : Busy(p)' /\ p \in crowded \union hit => p \in crowded'
<1> DEFINE busy == {p \in Procs : Busy(p)'}
           together == IF \E p, q \in busy : p # q THEN busy ELSE {}
<1>1. /\ crowded' = (crowded \union hit \union together) \intersect busy
      /\ suspect' = ((suspect \ settled) \union doubtful)
                       \union {Target(p)' : p \in {q \in crowded' : Writing(q)'}}
                       \union UNION {Neighbours(p)' : p \in {q \in Procs : Touching(q)'}}
      /\ promised' = {e \in promised \union answers : \A p \in Procs : ~Changes(p, e)'}
  BY DEF Remember
<1>2. \A p, q \in Procs : Busy(p)' /\ Busy(q)' /\ p # q => p \in together
  OBVIOUS
<1> HIDE DEF together
<1> QED
  BY <1>1, <1>2 DEF CrowdInv

\* The states of a process exclude one another.
LEMMA PhasesOf ==
    ASSUME NEW p \in Procs
    PROVE  /\ Busy(p) <=> Writing(p) \/ Starting(p)
           /\ ~(Writing(p) /\ Starting(p))
           /\ Early(p) => Writing(p)
BY DEF Busy, Writing, Starting, Early

\* A command that is alone is the only one at work.
LEMMA LoneIsOnly ==
    ASSUME CrowdInv, NEW p \in Procs, Busy(p), p \notin crowded
    PROVE  \A q \in Procs \ {p} : ~Busy(q)
BY DEF CrowdInv

\* A file that a command changes is that of its own version and of suspects.
LEMMA FileStays ==
    ASSUME CrowdInv, NEW p \in Procs,
           \A q \in Places : files'[q] # files[q] => Touching(p) /\ q = Home(p),
           NEW k \in Key, k \notin suspect, k # Target(p)
    PROVE  files'[Place(k)] = files[Place(k)]
BY PlacesAssumption DEF CrowdInv, Neighbours

\* A version that is not suspect has a writer only if that is alone.
LEMMA TrustedWriter ==
    ASSUME CrowdInv, NEW p \in Procs, Writing(p), Target(p) \notin suspect
    PROVE  p \notin crowded /\ \A q \in Procs \ {p} : ~Busy(q)
BY PhasesOf DEF CrowdInv

LEMMA FaithfulLocal ==
    ASSUME NEW a, NEW b, NEW k,
           {e \in a : KeyOf(e) = k} = {e \in b : KeyOf(e) = k}
    PROVE  Faithful(a, k) <=> Faithful(b, k)
BY AgreesLocal DEF Faithful

\* Faithful entries stay so as long as the archive is left alone and nothing
\* more is promised.
LEMMA FaithfulStays ==
    ASSUME NEW a, NEW k, Faithful(a, k), files'[Place(k)] = files[Place(k)],
           promised' \subseteq promised
    PROVE  /\ AgreesWith(a, k)'
           /\ \A e \in promised' : KeyOf(e) = k => e \in a
BY DEF Faithful, AgreesWith

\* The others stay where they are.
LEMMA OthersWait ==
    ASSUME NEW p \in Procs, OnlyActs(p)
    PROVE  \A q \in Procs \ {p} :
              /\ pc'[q] = pc[q] /\ cmd'[q] = cmd[q] /\ mem'[q] = mem[q] /\ result'[q] = result[q]
              /\ (Writing(q)' <=> Writing(q)) /\ (Starting(q)' <=> Starting(q))
              /\ (Early(q)' <=> Early(q)) /\ Target(q)' = Target(q)
              /\ (Busy(q)' <=> Busy(q)) /\ (OwnEntry(q)' <=> OwnEntry(q))
<1>1. \A q \in Procs \ {p} :
         pc'[q] = pc[q] /\ cmd'[q] = cmd[q] /\ mem'[q] = mem[q] /\ result'[q] = result[q]
  BY DEF OnlyActs
<1>2. \A q \in Procs \ {p} :
         /\ (Writing(q)' <=> Writing(q)) /\ (Starting(q)' <=> Starting(q))
         /\ (Early(q)' <=> Early(q)) /\ Target(q)' = Target(q)
  BY <1>1 DEF Writing, Starting, Early, Target
<1>3. \A q \in Procs \ {p} : (Busy(q)' <=> Busy(q)) /\ (OwnEntry(q)' <=> OwnEntry(q))
  BY <1>1, <1>2 DEF Busy, OwnEntry, Early
<1> QED
  BY <1>1, <1>2, <1>3

\* An entry that may be promised: there is an index in order, which lists it,
\* and so does every copy of it that is going to be written.
Fits(e) ==
    LET k == KeyOf(e) IN
    /\ \A p \in Procs : ~Starting(p)
    /\ IndexReadable /\ (\A p \in Procs : Writing(p) /\ Target(p) = k => Early(p)) => e \in index
    /\ \A q \in Procs : Writing(q) /\ Target(q) # k => e \in mem[q]

\* A command that is not writing the store looks at it, and may answer.
LEMMA ReaderKeeps ==
    ASSUME TypeInv, DamageInv, NEW p \in Procs, OnlyActs(p), NEW answers \in SUBSET Entry,
           UNCHANGED store, ~Busy(p), ~Writing(p)', Remember({}, {}, {}, answers),
           index = Absent => answers = {} /\ pc'[p] = "init_truncate",
           Starting(p)' => index = Absent,
           \A e \in answers : KeyOf(e) \notin suspect => Fits(e)
    PROVE  DamageInv'
<1> USE DEF DamageInv
<1>1. /\ CrowdInv' /\ \A e \in promised', q \in Procs : ~Changes(q, e)'
      /\ \A k : k \notin suspect' => k \notin suspect
      /\ promised' \subseteq promised \union answers
      /\ \A q \in Procs : Busy(q)' /\ q \in crowded => q \in crowded'
  BY RememberKeeps
<1>2. PromiseInv'
  BY <1>1 DEF PromiseInv
<1>3. \A q \in Procs \ {p} :
         /\ pc'[q] = pc[q] /\ cmd'[q] = cmd[q] /\ mem'[q] = mem[q] /\ result'[q] = result[q]
         /\ (Writing(q)' <=> Writing(q)) /\ (Starting(q)' <=> Starting(q))
         /\ (Early(q)' <=> Early(q)) /\ Target(q)' = Target(q)
         /\ (Busy(q)' <=> Busy(q)) /\ (OwnEntry(q)' <=> OwnEntry(q))
  BY OthersWait
<1>4. index' = index /\ files' = files /\ live' = live
  BY DEF store
<1>5. ~Writing(p) /\ ~Starting(p) /\ ~Writing(p)'
  BY PhasesOf
<1>6. FreshInv'
  <2>1. ASSUME index' = Absent
        PROVE  /\ promised' = {} /\ \A r \in Places : files'[r] = Absent
               /\ \A q \in Procs : pc'[q] \in {"idle", "init_truncate"}
    BY <1>1, <1>3, <1>4, <2>1 DEF FreshInv
  <2>2. ASSUME NEW q \in Procs, Starting(q)'
        PROVE  /\ \A k \in Key \ suspect' : files'[Place(k)] = Absent
               /\ \A e \in promised' : KeyOf(e) \in suspect'
    <3>1. CASE q = p
      BY <1>1, <1>4, <2>1, <2>2, <3>1, PlacesAssumption DEF FreshInv
    <3>2. CASE q # p
      <4>1. Starting(q)
        BY <1>3, <2>2, <3>2
      <4>2. \A e \in answers : KeyOf(e) \in suspect
        BY <4>1 DEF Fits
      <4> QED
        BY <1>1, <1>4, <4>1, <4>2 DEF FreshInv
    <3> QED
      BY <3>1, <3>2
  <2> QED
    BY <2>1, <2>2 DEF FreshInv
<1>7. ASSUME NEW q \in Procs
      PROVE  OwnEntry(q)' /\ LoneWriter(q)'
  <2>1. CASE q = p
    BY <1>5, <2>1 DEF OwnEntry, LoneWriter, Writing, Early
  <2>2. CASE q # p
    <3>1. OwnEntry(q)'
      BY <1>3, <2>2
    <3>2. ASSUME Writing(q)', q \notin crowded'
          PROVE  Writing(q) /\ q \notin crowded
      BY <1>1, <1>3, <2>2, <3>2 DEF Busy, Writing
    <3>3. LoneWriter(q)'
      BY <1>1, <1>3, <1>4, <2>2, <3>2 DEF LoneWriter, AgreesWith
    <3> QED
      BY <3>1, <3>3
  <2> QED
    BY <2>1, <2>2
<1>8. ASSUME NEW k \in Key \ suspect'
      PROVE  KeyInv(k)'
  <2>1. KeyInv(k) /\ k \notin suspect
    BY <1>1
  <2>2. ASSUME IndexReadable', \A q \in Procs : Writing(q)' /\ Target(q)' = k => Early(q)'
        PROVE  Faithful(index, k)'
    <3>1. IndexReadable /\ \A q \in Procs : Writing(q) /\ Target(q) = k => Early(q)
      BY <1>3, <1>4, <1>5, <2>2 DEF IndexReadable
    <3>2. Faithful(index, k)
      BY <2>1, <3>1 DEF KeyInv
    <3>3. \A e \in answers : KeyOf(e) = k => e \in index
      BY <2>1, <3>1 DEF Fits
    <3> QED
      BY <1>1, <1>4, <3>2, <3>3 DEF Faithful, AgreesWith
  <2>3. ASSUME NEW q \in Procs, Writing(q)', Target(q)' # k
        PROVE  Faithful(mem[q], k)'
    <3>1. q # p /\ Writing(q) /\ Target(q) # k /\ mem'[q] = mem[q]
      BY <1>3, <1>5, <2>3
    <3>2. Faithful(mem[q], k)
      BY <2>1, <3>1 DEF KeyInv
    <3>3. \A e \in answers : KeyOf(e) = k => e \in mem[q]
      BY <2>1, <3>1 DEF Fits
    <3> QED
      BY <1>1, <1>4, <3>1, <3>2, <3>3 DEF Faithful, AgreesWith
  <2> QED
    BY <2>2, <2>3 DEF KeyInv
<1> QED
  BY <1>1, <1>2, <1>6, <1>7, <1>8

\* A step of a command that is busy: only its own part of the invariant, and
\* what the versions look like, has to be looked at.
LEMMA BusyKeeps ==
    ASSUME DamageInv, NEW p \in Procs, OnlyActs(p), Busy(p),
           NEW hit, NEW doubtful, NEW settled, Remember(hit, doubtful, settled, {}),
           FreshInv', OwnEntry(p)', p \notin crowded \union hit => LoneWriter(p)',
           \A k \in Key \ suspect' : KeyInv(k)'
    PROVE  DamageInv'
<1>1. /\ CrowdInv' /\ \A e \in promised', q \in Procs : ~Changes(q, e)'
      /\ promised' \subseteq promised
      /\ \A q \in Procs : Busy(q)' /\ q \in crowded \union hit => q \in crowded'
  BY RememberKeeps
<1>2. PromiseInv'
  BY <1>1 DEF PromiseInv, DamageInv
<1>3. ASSUME NEW q \in Procs \ {p}
      PROVE  OwnEntry(q)' /\ LoneWriter(q)'
  <2>1. (OwnEntry(q)' <=> OwnEntry(q)) /\ (Writing(q)' <=> Writing(q)) /\ (Busy(q)' <=> Busy(q))
    BY <1>3, OthersWait
  <2>2. ASSUME Writing(q)'
        PROVE  q \in crowded'
    BY <1>1, <1>3, <2>1, <2>2, PhasesOf DEF DamageInv, CrowdInv
  <2> QED
    BY <1>3, <2>1, <2>2 DEF DamageInv, LoneWriter
<1>4. LoneWriter(p)'
  <2>1. ASSUME Writing(p)', p \in crowded \union hit
        PROVE  p \in crowded'
    BY <1>1, <2>1 DEF Busy, Writing
  <2> QED
    BY <2>1 DEF LoneWriter
<1> QED
  BY <1>1, <1>2, <1>3, <1>4 DEF DamageInv

\* What a step does to the versions it leaves alone, as long as the index is
\* not given other entries.
LEMMA KeyStays ==
    ASSUME DamageInv, NEW p \in Procs, OnlyActs(p), NEW k \in Key, KeyInv(k), 
           k \notin suspect, promised' \subseteq promised,
           files'[Place(k)] = files[Place(k)],
           IndexReadable' => index' = index,
           Writing(p)' => Writing(p) /\ mem'[p] = mem[p] /\ Target(p)' = Target(p),
           Writing(p) /\ Target(p) = k => Early(p) \/ (Writing(p)' /\ ~Early(p)')
    PROVE  KeyInv(k)'
<1>1. \A q \in Procs \ {p} :
         /\ mem'[q] = mem[q] /\ (Writing(q)' <=> Writing(q))
         /\ (Early(q)' <=> Early(q)) /\ Target(q)' = Target(q)
  BY OthersWait
<1>2. ASSUME IndexReadable', \A q \in Procs : Writing(q)' /\ Target(q)' = k => Early(q)'
      PROVE  Faithful(index, k)'
  <2>1. IndexReadable /\ index' = index
    BY <1>2 DEF IndexReadable
  <2>2. \A q \in Procs : Writing(q) /\ Target(q) = k => Early(q)
    BY <1>1, <1>2
  <2>3. Faithful(index, k)
    BY <2>1, <2>2 DEF KeyInv
  <2> QED
    BY <2>1, <2>3, FaithfulStays DEF Faithful, AgreesWith
<1>3. ASSUME NEW q \in Procs, Writing(q)', Target(q)' # k
      PROVE  Faithful(mem[q], k)'
  <2>1. Writing(q) /\ Target(q) # k /\ mem'[q] = mem[q]
    BY <1>1, <1>3
  <2>2. Faithful(mem[q], k)
    BY <2>1 DEF KeyInv
  <2> QED
    BY <2>1, <2>2, FaithfulStays DEF Faithful, AgreesWith
<1> QED
  BY <1>2, <1>3 DEF KeyInv

\* A step within the archive tree, and the truncation of the index.
LEMMA TreeKeeps ==
    ASSUME DamageInv, NEW p \in Procs, OnlyActs(p), Writing(p), Writing(p)',
           mem'[p] = mem[p], cmd'[p] = cmd[p], OwnEntry(p)',
           NEW hit, Remember(hit, {}, {}, {}), index' \in {index, Empty},
           \A q \in Places : files'[q] # files[q] => Touching(p) /\ q = Home(p),
           Early(p)' => Early(p) /\ files' = files,
           p \notin crowded \union hit => LoneWriter(p)'
    PROVE  DamageInv'
<1>1. /\ CrowdInv' /\ promised' \subseteq promised
      /\ \A k : k \notin suspect' => k \notin suspect
      /\ \A q \in Procs : Busy(q)' /\ q \in crowded => q \in crowded'
  BY RememberKeeps
<1>2. Target(p)' = Target(p) /\ Busy(p) /\ Busy(p)'
  BY DEF Target, Busy, Writing
<1>3. FreshInv'
  <2>1. index # Absent /\ index' # Absent
    BY ContentAssumption DEF DamageInv, FreshInv, Writing
  <2>2. ASSUME NEW q \in Procs, Starting(q)'
        PROVE  /\ \A k \in Key \ suspect' : files'[Place(k)] = Absent
               /\ \A e \in promised' : KeyOf(e) \in suspect'
    <3>1. q # p
      BY <2>2 DEF Starting, Writing
    <3>2. Starting(q)
      BY <2>2, <3>1, OthersWait
    <3>3. p \in crowded
      BY <1>2, <3>1, <3>2, PhasesOf DEF DamageInv, CrowdInv
    <3>4. Target(p) \in suspect'
      BY <1>1, <1>2, <3>3 DEF CrowdInv
    <3> QED
      BY <1>1, <3>2, <3>4, FileStays DEF DamageInv, FreshInv
  <2> QED
    BY <2>1, <2>2 DEF FreshInv
<1>5. ASSUME NEW k \in Key \ suspect'
      PROVE  KeyInv(k)'
  <2>1. k \notin suspect /\ KeyInv(k)
    BY <1>1 DEF DamageInv
  <2>2. CASE Target(p) # k
    <3>1. files'[Place(k)] = files[Place(k)] /\ (IndexReadable' => index' = index)
      BY <2>1, <2>2, FileStays DEF DamageInv, IndexReadable, Damaged
    <3> QED
      BY <1>1, <1>2, <2>1, <2>2, <3>1, KeyStays
  <2>3. CASE Target(p) = k
    <3>1. ASSUME IndexReadable', \A q \in Procs : Writing(q)' /\ Target(q)' = k => Early(q)'
          PROVE  Faithful(index, k)'
      <4>1. Early(p)'
        BY <1>2, <2>3, <3>1
      <4>2. Early(p) /\ files' = files /\ index' = index /\ IndexReadable
        BY <3>1, <4>1 DEF IndexReadable, Damaged
      <4>3. \A q \in Procs : Writing(q) /\ Target(q) = k => Early(q)
        BY <3>1, <4>2, OthersWait
      <4>4. Faithful(index, k)
        BY <2>1, <4>2, <4>3 DEF KeyInv
      <4> QED
        BY <1>1, <4>2, <4>4, FaithfulStays DEF Faithful, AgreesWith
    <3>2. ASSUME NEW q \in Procs, Writing(q)', Target(q)' # k
          PROVE  FALSE
      <4>1. q # p /\ Writing(q)
        BY <1>2, <2>3, <3>2, OthersWait
      <4> QED
        BY <2>1, <2>3, <4>1, TrustedWriter, PhasesOf DEF DamageInv
    <3> QED
      BY <3>1, <3>2 DEF KeyInv
  <2> QED
    BY <2>2, <2>3
<1> QED
  BY <1>2, <1>3, <1>5, BusyKeeps

\* A command that stops half way: killed, or refused by the file system.
LEMMA LeaveKeeps ==
    ASSUME DamageInv, NEW p \in Procs, OnlyActs(p), pc'[p] = "idle", NEW doubtful,
           Remember({}, doubtful, {}, {}), index' \in {index, Garbage},
           ~Busy(p) => index' = index /\ files' = files, live' \in {live, live \ {p}},
           \A q \in Places : files'[q] # files[q] => Touching(p) /\ q = Home(p),
           Writing(p) => Target(p) \in doubtful \/ (Early(p) /\ files' = files)
    PROVE  DamageInv'
<1>1. /\ CrowdInv' /\ \A e \in promised', q \in Procs : ~Changes(q, e)'
      /\ promised' \subseteq promised
      /\ \A k : k \notin suspect' => k \notin suspect /\ k \notin doubtful
      /\ \A q \in Procs : Busy(q)' /\ q \in crowded => q \in crowded'
  BY RememberKeeps
<1>2. ~Writing(p)' /\ ~Starting(p)' /\ ~Busy(p)'
  BY DEF Writing, Starting, Busy
<1>3. FreshInv'
  <2>1. ASSUME index' = Absent
        PROVE  /\ promised' = {} /\ \A r \in Places : files'[r] = Absent
               /\ \A q \in Procs : pc'[q] \in {"idle", "init_truncate"}
    <3>1. index = Absent
      BY <2>1, ContentAssumption
    <3>2. ~Writing(p) /\ promised = {} /\ \A r \in Places : files[r] = Absent
      BY <3>1 DEF DamageInv, FreshInv, Writing
    <3> QED
      BY <1>1, <3>1, <3>2, OthersWait DEF DamageInv, FreshInv, Touching
  <2>2. ASSUME NEW q \in Procs, Starting(q)'
        PROVE  /\ \A k \in Key \ suspect' : files'[Place(k)] = Absent
               /\ \A e \in promised' : KeyOf(e) \in suspect'
    <3>1. q # p /\ Starting(q)
      BY <1>2, <2>2, OthersWait
    <3>2. Writing(p) => Target(p) \in suspect
      BY <3>1, PhasesOf DEF DamageInv, CrowdInv
    <3>3. \A k \in Key \ suspect : files'[Place(k)] = files[Place(k)]
      BY <3>2, FileStays, PlacesAssumption DEF DamageInv, Touching
    <3> QED
      BY <1>1, <3>1, <3>3 DEF DamageInv, FreshInv
  <2> QED
    BY <2>1, <2>2 DEF FreshInv
<1>4. ASSUME NEW k \in Key \ suspect'
      PROVE  KeyInv(k)'
  <2>1. k \notin suspect /\ KeyInv(k) /\ k \notin doubtful
    BY <1>1 DEF DamageInv
  <2>2. IndexReadable' => index' = index
    BY DEF IndexReadable, Damaged
  <2>3. files'[Place(k)] = files[Place(k)]
    BY <2>1, FileStays, PlacesAssumption DEF DamageInv, Touching
  <2>4. Writing(p) /\ Target(p) = k => Early(p)
    BY <2>1
  <2> QED
    BY <1>1, <1>2, <2>1, <2>2, <2>3, <2>4, KeyStays
<1>5. OwnEntry(p)' /\ LoneWriter(p)'
  BY <1>2 DEF OwnEntry, LoneWriter, Early
<1>6. CASE Busy(p)
  BY <1>3, <1>4, <1>5, <1>6, BusyKeeps
<1>7. CASE ~Busy(p)
  <2>1. ASSUME NEW q \in Procs \ {p}
        PROVE  OwnEntry(q)' /\ LoneWriter(q)'
    <3>1. /\ (OwnEntry(q)' <=> OwnEntry(q)) /\ (Writing(q)' <=> Writing(q))
          /\ pc'[q] = pc[q] /\ mem'[q] = mem[q] /\ result'[q] = result[q]
          /\ Target(q)' = Target(q) /\ (Busy(q)' <=> Busy(q))
      BY <2>1, OthersWait
    <3>2. Writing(q)' /\ q \notin crowded' => Writing(q) /\ q \notin crowded
      BY <1>1, <3>1, PhasesOf
    <3>3. LoneWriter(q)'
      BY <1>1, <1>7, <2>1, <3>1, <3>2 DEF DamageInv, LoneWriter, AgreesWith
    <3> QED
      BY <3>1, <3>3 DEF DamageInv
  <2> QED
    BY <1>1, <1>3, <1>4, <1>5, <2>1 DEF DamageInv, PromiseInv
<1> QED
  BY <1>6, <1>7

\* The creation of an index: there was nothing to be wrong about.
LEMMA StartKeeps ==
    ASSUME TypeInv, DamageInv, NEW p \in Procs, OnlyActs(p), InitTruncate(p) \/ InitFill(p),
           Remember({}, {}, {}, {})
    PROVE  DamageInv'
<1>1. /\ promised' \subseteq promised /\ \A k : k \notin suspect' => k \notin suspect
  BY RememberKeeps
<1>2. Starting(p) /\ Busy(p) /\ ~Writing(p)
  BY DEF InitTruncate, InitFill, Starting, Busy, Writing
<1>3. /\ files' = files /\ index' \in {Empty, {}, Garbage} /\ ~Writing(p)'
      /\ IndexReadable' => index' = {}
  BY OverwriteLeaves DEF InitTruncate, InitFill, Continue, Writing, IndexReadable, Damaged,
     TypeInv, TypeOK
<1>4. index' # Absent
  BY <1>3, ContentAssumption DEF Damaged
<1>5. \A q \in Procs : Starting(q)' => Starting(q)
  BY <1>2, OthersWait
<1>6. FreshInv'
  BY <1>1, <1>3, <1>4, <1>5 DEF DamageInv, FreshInv
<1>7. ASSUME NEW k \in Key \ suspect'
      PROVE  KeyInv(k)'
  <2>1. /\ k \notin suspect /\ files[Place(k)] = Absent /\ KeyInv(k)
        /\ \A e \in promised : KeyOf(e) # k
    BY <1>1, <1>2 DEF DamageInv, FreshInv
  <2>2. IndexReadable' => Faithful(index, k)'
    BY <1>1, <1>3, <2>1 DEF Faithful, AgreesWith
  <2>3. ASSUME NEW q \in Procs, Writing(q)', Target(q)' # k
        PROVE  Faithful(mem[q], k)'
    <3>1. Writing(q) /\ Target(q) # k /\ mem'[q] = mem[q]
      BY <1>3, <2>3, OthersWait
    <3>2. Faithful(mem[q], k)
      BY <2>1, <3>1 DEF KeyInv
    <3> QED
      BY <1>1, <1>3, <3>1, <3>2, FaithfulStays DEF Faithful, AgreesWith
  <2> QED
    BY <2>2, <2>3 DEF KeyInv
<1>8. OwnEntry(p)' /\ LoneWriter(p)'
  BY <1>3, PhasesOf DEF OwnEntry, LoneWriter, Writing, Early
<1> QED
  BY <1>2, <1>6, <1>7, <1>8, BusyKeeps

\* What the entries that add, or remove, decides on say of every version.
LEMMA DecidedEntries ==
    ASSUME TypeInv, NEW p \in Procs, AddLoad(p) \/ RemoveLoad(p)
    PROVE  /\ Target(p) \in Key /\ Target(p)' = Target(p) /\ cmd' = cmd
           /\ {e \in mem'[p] : KeyOf(e) = Target(p)}
              = IF cmd[p].op = "add" THEN {EntryOf(cmd[p].archive)} ELSE {}
           /\ \A k : k # Target(p) =>
                 {e \in mem'[p] : KeyOf(e) = k} = {e \in index : KeyOf(e) = k}
<1>1. cmd[p] \in Command /\ cmd' = cmd /\ Target(p)' = Target(p)
  BY DEF AddLoad, RemoveLoad, Continue, Target, TypeInv, CmdOK
<1>2. CASE AddLoad(p)
  <2>1. /\ cmd[p].op = "add" /\ Acceptable(cmd[p].archive) /\ cmd[p].archive \in Archives
        /\ Target(p) = KeyOf(cmd[p].archive)
        /\ mem'[p] = Without(index, Target(p)) \union {EntryOf(cmd[p].archive)}
    BY <1>1, <1>2, CommandKind DEF AddLoad, Continue, Target, AddCommand, TypeInv, TypeOK
  <2>2. KeyOf(EntryOf(cmd[p].archive)) = Target(p) /\ Target(p) \in Key
    BY <2>1, EntryOfAccepted
  <2> QED
    BY <1>1, <2>1, <2>2 DEF Without
<1>3. CASE RemoveLoad(p)
  <2>1. /\ cmd[p].op = "remove" /\ cmd[p] \in RemoveCommand
        /\ mem'[p] = Without(index, Target(p))
    BY <1>1, <1>3, CommandKind DEF RemoveLoad, Continue, TypeInv, TypeOK
  <2>2. Target(p) \in Key
    BY <2>1 DEF Target, RemoveCommand, KeyOf, Key
  <2> QED
    BY <1>1, <2>1, <2>2 DEF Without
<1> QED
  BY <1>2, <1>3

\* A command reads the index and is a writer from then on: the copy it holds
\* is right about every version that is not suspect, or somebody else is
\* busy too and crowds it.
LEMMA DecideKeeps ==
    ASSUME TypeInv, DamageInv, NEW p \in Procs, OnlyActs(p), AddLoad(p) \/ RemoveLoad(p),
           Remember({}, {}, {}, {})
    PROVE  DamageInv'
<1>1. /\ CrowdInv' /\ \A e \in promised', q \in Procs : ~Changes(q, e)'
      /\ promised' \subseteq promised
      /\ \A k : k \notin suspect' => k \notin suspect
      /\ \A q \in Procs : Busy(q)' /\ q \in crowded => q \in crowded'
  BY RememberKeeps
<1>2. /\ IndexReadable /\ index # Absent /\ ~Busy(p) /\ ~Writing(p) /\ ~Starting(p)
      /\ index' = index /\ files' = files /\ live' = live /\ Writing(p)' /\ Busy(p)'
      /\ ~Starting(p)'
  BY DEF AddLoad, RemoveLoad, store, Continue, Busy, Writing, Starting, IndexReadable, Damaged,
     TypeInv, TypeOK
<1>3. /\ Target(p) \in Key /\ Target(p)' = Target(p) /\ cmd' = cmd
      /\ {e \in mem'[p] : KeyOf(e) = Target(p)}
         = IF cmd[p].op = "add" THEN {EntryOf(cmd[p].archive)} ELSE {}
      /\ \A k : k # Target(p) =>
            {e \in mem'[p] : KeyOf(e) = k} = {e \in index : KeyOf(e) = k}
  BY DecidedEntries
<1>4. \A q \in Procs \ {p} : Busy(q) => q \in crowded' /\ (Writing(q) => Target(q) \in suspect')
  BY <1>1, <1>2, OthersWait DEF CrowdInv
<1>5. FreshInv'
  BY <1>1, <1>2, OthersWait DEF DamageInv, FreshInv
<1>6. ASSUME NEW k \in Key \ suspect'
      PROVE  KeyInv(k)' /\ Faithful(index, k)
  <2>1. KeyInv(k)
    BY <1>1 DEF DamageInv
  <2>2. \A q \in Procs : ~(Writing(q) /\ Target(q) = k)
    BY <1>2, <1>4, PhasesOf
  <2>3. Faithful(index, k)
    BY <1>2, <2>1, <2>2 DEF KeyInv
  <2>4. Faithful(index, k)'
    BY <1>1, <1>2, <2>3, FaithfulStays DEF Faithful, AgreesWith
  <2>5. ASSUME NEW q \in Procs, Writing(q)', Target(q)' # k
        PROVE  Faithful(mem[q], k)'
    <3>1. CASE q = p
      <4>1. Faithful(mem'[p], k)
        BY <1>3, <2>3, <2>5, <3>1, FaithfulLocal
      <4> QED
        BY <1>1, <1>2, <3>1, <4>1, FaithfulStays DEF Faithful, AgreesWith
    <3>2. CASE q # p
      <4>1. Writing(q) /\ Target(q) # k /\ mem'[q] = mem[q]
        BY <2>5, <3>2, OthersWait
      <4>2. Faithful(mem[q], k)
        BY <2>1, <4>1 DEF KeyInv
      <4> QED
        BY <1>1, <1>2, <4>1, <4>2, FaithfulStays DEF Faithful, AgreesWith
    <3> QED
      BY <3>1, <3>2
  <2> QED
    BY <2>3, <2>4, <2>5 DEF KeyInv
<1>a. /\ pc'[p] \in {"make_dirs", "unlink", "index_truncate"}
      /\ pc'[p] = "index_truncate" => mem'[p] = index /\ result'[p].status # "ok"
      /\ pc'[p] # "index_truncate" => result'[p].status = "ok"
  BY DEF AddLoad, RemoveLoad, Continue, Result, TypeInv, TypeOK
<1>7. OwnEntry(p)'
  BY <1>3, <1>a DEF OwnEntry, Early
<1>8. LoneWriter(p)'
  <2>1. /\ pc'[p] \in {"make_dirs", "unlink", "index_truncate"}
        /\ pc'[p] = "index_truncate" => mem'[p] = index /\ result'[p].status # "ok"
    BY <1>a
  <2>2. ASSUME pc'[p] = "index_truncate", Target(p)' \notin suspect'
        PROVE  AgreesWith(mem[p], Target(p))'
    <3>1. Faithful(index, Target(p))
      BY <1>3, <1>6, <2>2
    <3> QED
      BY <1>2, <1>3, <2>1, <2>2, <3>1 DEF Faithful, AgreesWith
  <2> QED
    BY <2>1, <2>2 DEF LoneWriter
<1>9. ASSUME NEW q \in Procs \ {p}
      PROVE  OwnEntry(q)' /\ LoneWriter(q)'
  <2>1. Writing(q)' => q \in crowded'
    BY <1>4, OthersWait, PhasesOf
  <2> QED
    BY <2>1, OthersWait DEF DamageInv, LoneWriter
<1> QED
  BY <1>1, <1>5, <1>6, <1>7, <1>8, <1>9 DEF DamageInv, PromiseInv

\* The index is written from the copy the command holds.
LEMMA FillKeeps ==
    ASSUME TypeInv, DamageInv, NEW p \in Procs, OnlyActs(p), IndexFill(p), NEW settled,
           settled \subseteq {Target(p)},
           settled # {} => p \notin crowded /\ result[p].status = "ok",
           Remember({}, {}, settled, {})
    PROVE  DamageInv'
<1>1. /\ CrowdInv' /\ promised' \subseteq promised
      /\ \A k : k \notin suspect' => k \in settled \/ k \notin suspect
  BY RememberKeeps
<1>2. /\ Writing(p) /\ Busy(p) /\ ~Writing(p)' /\ ~Starting(p)' /\ files' = files
      /\ index' \in {mem[p], Garbage} /\ mem[p] \in SUBSET Entry
      /\ IndexReadable' => index' = mem[p]
  BY OverwriteLeaves DEF IndexFill, Finish, Writing, Busy, Starting, IndexReadable, Damaged,
     TypeInv, TypeOK
<1>3. FreshInv'
  <2>1. index' # Absent
    BY <1>2, ContentAssumption DEF Damaged
  <2>2. ASSUME NEW q \in Procs, Starting(q)'
        PROVE  Starting(q) /\ settled = {}
    <3>1. q # p /\ Starting(q)
      BY <1>2, <2>2, OthersWait
    <3> QED
      BY <1>2, <3>1, PhasesOf DEF DamageInv, CrowdInv
  <2> QED
    BY <1>1, <1>2, <2>1, <2>2 DEF DamageInv, FreshInv
<1>4. OwnEntry(p)' /\ LoneWriter(p)'
  BY <1>2, PhasesOf DEF OwnEntry, LoneWriter, Writing, Early
<1>5. ASSUME NEW k \in Key \ suspect'
      PROVE  KeyInv(k)'
  <2>1. Faithful(mem[p], k)
    <3>1. CASE k # Target(p)
      BY <1>1, <1>2, <3>1 DEF DamageInv, KeyInv
    <3>2. CASE k = Target(p)
      <4>1. p \notin crowded
        BY <1>1, <1>2, <3>2 DEF DamageInv, CrowdInv
      <4>2. AgreesWith(mem[p], k)
        BY <1>1, <1>2, <3>2, <4>1 DEF DamageInv, LoneWriter, IndexFill
      <4>3. ASSUME NEW e \in promised, KeyOf(e) = k
            PROVE  e \in mem[p]
        <5>1. cmd[p].op = "add" /\ EntryOf(cmd[p].archive) = e
          BY <1>2, <3>2, <4>3 DEF DamageInv, PromiseInv, Changes
        <5>2. {f \in mem[p] : KeyOf(f) = Target(p)} = {e}
          BY <1>2, <5>1 DEF DamageInv, OwnEntry
        <5> QED
          BY <5>2
      <4> QED
        BY <4>2, <4>3 DEF Faithful
    <3> QED
      BY <3>1, <3>2
  <2>2. IndexReadable' => Faithful(index, k)'
    BY <1>1, <1>2, <2>1, FaithfulStays DEF Faithful, AgreesWith
  <2>3. ASSUME NEW q \in Procs, Writing(q)', Target(q)' # k
        PROVE  Faithful(mem[q], k)'
    <3>1. q # p /\ Writing(q) /\ Target(q) # k /\ mem'[q] = mem[q]
      BY <1>2, <2>3, OthersWait
    <3>2. k \notin suspect
      BY <1>1, <1>2, <3>1, PhasesOf DEF DamageInv, CrowdInv
    <3>3. Faithful(mem[q], k)
      BY <3>1, <3>2 DEF DamageInv, KeyInv
    <3> QED
      BY <1>1, <1>2, <3>1, <3>3, FaithfulStays DEF Faithful, AgreesWith
  <2> QED
    BY <2>2, <2>3 DEF KeyInv
<1> QED
  BY <1>2, <1>3, <1>4, <1>5, BusyKeeps

-----------------------------------------------------------------------------
(* Answers.                                                                *)

\* An entry whose archive is in its file: the index lists it.
LEMMA ReadFits ==
    ASSUME DamageInv, NEW e \in Entry, KeyOf(e) \notin suspect,
           files[Place(KeyOf(e))] \in Archives, EntryOf(files[Place(KeyOf(e))]) = e
    PROVE  Fits(e)
<1> DEFINE k == KeyOf(e)
<1>1. k \in Key
  BY DEF Entry, KeyOf, Key
<1>2. KeyInv(k)
  BY <1>1 DEF DamageInv
<1>3. files[Place(k)] # Absent
  BY ContentAssumption DEF Damaged
<1>4. \A entries : AgreesWith(entries, k) => e \in entries
  BY <1>3 DEF AgreesWith
<1>5. \A p \in Procs : ~Starting(p)
  BY <1>1, <1>3 DEF DamageInv, FreshInv
<1> QED
  BY <1>2, <1>4, <1>5 DEF Fits, KeyInv, Faithful

\* An entry that the index lists.
LEMMA ListedFits ==
    ASSUME TypeInv, DamageInv, IndexSound, IndexReadable, NEW e \in index,
           KeyOf(e) \notin suspect
    PROVE  Fits(e)
<1> DEFINE k == KeyOf(e)
<1>1. e \in Entry /\ k \in Key /\ Unique(index)
  BY DEF TypeInv, TypeOK, IndexReadable, IndexSound, Sound, Entry, KeyOf, Key
<1>2. CASE \A p \in Procs : Writing(p) /\ Target(p) = k => Early(p)
  <2>1. AgreesWith(index, k)
    BY <1>1, <1>2 DEF DamageInv, KeyInv, Faithful
  <2>2. {f \in index : KeyOf(f) = k} = {e}
    BY <1>1 DEF Unique
  <2>3. files[Place(k)] \in Archives /\ EntryOf(files[Place(k)]) = e
    BY <2>1, <2>2 DEF AgreesWith
  <2> QED
    BY <1>1, <2>3, ReadFits
<1>3. CASE \E p \in Procs : Writing(p) /\ Target(p) = k /\ ~Early(p)
  <2>1. PICK p \in Procs : Writing(p) /\ Target(p) = k
    BY <1>3
  <2>2. \A q \in Procs \ {p} : ~Busy(q)
    BY <2>1, TrustedWriter DEF DamageInv
  <2>3. \A q \in Procs : ~Starting(q) /\ ~(Writing(q) /\ Target(q) # k)
    BY <2>1, <2>2, PhasesOf
  <2> QED
    BY <2>3 DEF Fits
<1> QED
  BY <1>2, <1>3

\* A resolve answers with the entry of the archive it has read.
LEMMA ResolveFits ==
    ASSUME TypeInv, MemSound, OneLookup, DamageInv, NEW p \in Procs, ResolveRead(p),
           result'[p].status = "ok", NEW e \in mem[p], KeyOf(e) \notin suspect
    PROVE  Fits(e)
<1>1. mem[p] = {e}
  BY DEF ResolveRead, OneLookup
<1>2. result \in [Procs -> [status : Statuses, found : Content]]
  BY DEF TypeInv, TypeOK
<1> DEFINE bytes == files[Place(KeyOf(e))]
<1>3. bytes \in Archives /\ Digest(bytes) = e.sha256
  BY <1>1, <1>2 DEF ResolveRead, Finish, Result
<1>4. PICK a \in Archives : Acceptable(a) /\ e = EntryOf(a)
  BY DEF MemSound, Sound, Verified
<1>5. bytes = a
  BY <1>3, <1>4, DigestAssumption DEF EntryOf
<1> QED
  BY <1>4, <1>5, ReadFits, EntryOfAccepted

-----------------------------------------------------------------------------
(* Every step.                                                             *)

\* A writer's target is a version: its entries are typed.
LEMMA WriterKey ==
    ASSUME TypeInv, NEW p \in Procs, OwnEntry(p), Writing(p)
    PROVE  Target(p) \in Key
<1>1. cmd[p] \in AddCommand \/ cmd[p] \in RemoveCommand
  BY DEF Writing, TypeInv, TypeOK, CmdOK, Labels
<1>2. CASE cmd[p] \in AddCommand
  <2>1. cmd[p].op = "add" /\ EntryOf(cmd[p].archive) \in mem[p]
    BY <1>2 DEF AddCommand, OwnEntry
  <2>2. EntryOf(cmd[p].archive) \in Entry
    BY <2>1 DEF TypeInv, TypeOK
  <2> QED
    BY <2>1, <2>2 DEF Target, EntryOf, Entry, KeyOf, Key
<1>3. CASE cmd[p] \in RemoveCommand
  BY <1>3 DEF RemoveCommand, Target, KeyOf, Key
<1> QED
  BY <1>1, <1>2, <1>3

\* A step of a process that goes on answers nothing and settles nothing.
LEMMA GoesOn ==
    ASSUME NEW p \in Procs, pc[p] = "idle" \/ pc'[p] # "idle"
    PROVE  Settled(p) = {} /\ Answers(p) = {}
BY DEF Settled, Answers, Returns, Writing

LEMMA ReadingStep ==
    ASSUME TypeInv, MemSound, IndexSound, OneLookup, DamageInv, NEW p \in Procs,
           \/ Open(p) \/ AddRejected(p) \/ LoadFails(p) \/ AddConflict(p)
           \/ ResolveNoMatch(p) \/ ResolveLoad(p) \/ ListLoad(p) \/ ResolveRead(p),
           OnlyActs(p), Remember({}, {}, Settled(p), Answers(p))
    PROVE  DamageInv'
<1>1. /\ UNCHANGED store /\ pc[p] \in {"idle", "load", "read_archive"}
      /\ pc[p] # "idle" => pc'[p] \in {"idle", "read_archive"}
      /\ pc[p] = "idle" => pc'[p] = IF index = Absent THEN "init_truncate" ELSE "load"
  BY DEF Open, AddRejected, LoadFails, AddConflict, ResolveNoMatch, ResolveLoad, ListLoad,
     ResolveRead, Continue, Finish, TypeInv, TypeOK
<1>2. ~Busy(p) /\ ~Writing(p) /\ ~Writing(p)' /\ (Starting(p)' => index = Absent)
  BY <1>1 DEF Busy, Writing, Starting
<1>3. Settled(p) = {}
  BY <1>2 DEF Settled
<1>4. index = Absent => pc[p] = "idle"
  BY <1>1 DEF DamageInv, FreshInv
<1>5. /\ Answers(p) \in SUBSET Entry
      /\ pc[p] = "idle" => Answers(p) = {}
      /\ \A e \in Answers(p) : KeyOf(e) \notin suspect => Fits(e)
  <2>1. CASE Open(p) \/ ResolveLoad(p)
    BY <2>1, GoesOn DEF Open, ResolveLoad, Continue, TypeInv, TypeOK
  <2>2. CASE AddRejected(p) \/ LoadFails(p) \/ AddConflict(p) \/ ResolveNoMatch(p)
    <3>1. result'[p].status # "ok" /\ pc[p] # "idle"
      BY <2>2 DEF AddRejected, LoadFails, AddConflict, ResolveNoMatch, Finish, Result,
         TypeInv, TypeOK
    <3> QED
      BY <3>1 DEF Answers
  <2>3. CASE ListLoad(p)
    <3>1. Answers(p) \in {index, {}} /\ IndexReadable /\ pc[p] # "idle"
      BY <2>3 DEF ListLoad, Answers
    <3>2. index \in SUBSET Entry
      BY <3>1 DEF IndexReadable, TypeInv, TypeOK
    <3> QED
      BY <3>1, <3>2, ListedFits
  <2>4. CASE ResolveRead(p)
    <3>1. cmd[p].op = "resolve" /\ mem[p] \in SUBSET Entry /\ pc[p] # "idle"
      BY <2>4 DEF ResolveRead, TypeInv, TypeOK, CmdOK, ResolveCommand
    <3>2. Answers(p) = IF Returns(p) /\ result'[p].status = "ok" THEN mem[p] ELSE {}
      BY <3>1 DEF Answers
    <3> QED
      BY <2>4, <3>1, <3>2, ResolveFits
  <2> QED
    BY <2>1, <2>2, <2>3, <2>4
<1> HIDE DEF Answers
<1> DEFINE answers == Answers(p)
<1>6. Remember({}, {}, {}, answers)
  BY <1>3
<1>7. index = Absent => answers = {} /\ pc'[p] = "init_truncate"
  BY <1>1, <1>4, <1>5
<1> QED
  BY <1>1, <1>2, <1>5, <1>6, <1>7, ReaderKeeps

LEMMA TreeStep ==
    ASSUME TypeInv, DamageInv, NEW p \in Procs,
           \/ MakeDirs(p) \/ MakeVersionDir(p) \/ ArchiveTruncate(p) \/ ArchiveFill(p)
           \/ Unlink(p) \/ PruneVersion(p) \/ PruneName(p) \/ IndexTruncate(p),
           OnlyActs(p), Remember({}, {}, Settled(p), Answers(p))
    PROVE  DamageInv'
<1> DEFINE k == Target(p)
<1>1. /\ Writing(p) /\ k \in Key /\ Home(p) \in Places /\ Busy(p) /\ pc[p] # "idle"
      /\ p \notin crowded => LoneWriter(p)
  <2>1. Writing(p)
    BY DEF MakeDirs, MakeVersionDir, ArchiveTruncate, ArchiveFill, Unlink, PruneVersion,
       PruneName, IndexTruncate, Writing
  <2> QED
    BY <2>1, WriterKey, PlacesAssumption DEF DamageInv, Busy, Writing, Home
<1>2. {e \in mem[p] : KeyOf(e) = k}
      = IF cmd[p].op = "add" THEN {EntryOf(cmd[p].archive)} ELSE {}
  BY <1>1 DEF DamageInv, OwnEntry
<1>3. \A j : j \notin suspect' => j \notin suspect \/ j \in Settled(p)
  BY RememberKeeps
<1>4. CASE pc'[p] = "idle"
  <2>1. /\ MakeVersionDir(p) \/ ArchiveTruncate(p)
        /\ Early(p) /\ index' = index /\ files' = files /\ live' = live
        /\ result'[p].status = "io_error"
    BY <1>4 DEF MakeDirs, MakeVersionDir, ArchiveTruncate, ArchiveFill, Unlink, PruneVersion,
       PruneName, IndexTruncate, Continue, Finish, Result, Early, TypeInv, TypeOK
  <2>2. Settled(p) = {} /\ Answers(p) = {}
    BY <2>1 DEF Settled, Answers
  <2>3. Remember({}, {}, {}, {})
    BY <2>2
  <2> QED
    BY <1>1, <1>4, <2>1, <2>3, LeaveKeeps
<1>5. CASE pc'[p] # "idle"
  <2>1. Settled(p) = {} /\ Answers(p) = {}
    BY <1>5, GoesOn
  <2>2. Remember({}, {}, {}, {})
    BY <2>1
  <2>3. /\ Writing(p)' /\ mem'[p] = mem[p] /\ cmd'[p] = cmd[p] /\ k = Target(p)'
        /\ result'[p] = result[p]
        /\ index' \in {index, Empty} /\ (\A q \in Places \ {Home(p)} : files'[q] = files[q])
        /\ Early(p)' => Early(p) /\ files' = files
    BY <1>5 DEF MakeDirs, MakeVersionDir, ArchiveTruncate, ArchiveFill, Unlink, PruneVersion,
       PruneName, IndexTruncate, Continue, Finish, Writing, Early, Target, TypeInv, TypeOK
  <2>5. pc'[p] = "archive_fill" => Early(p)
    BY DEF MakeDirs, MakeVersionDir, ArchiveTruncate, ArchiveFill, Unlink, PruneVersion,
       PruneName, IndexTruncate, Continue, Finish, Early, TypeInv, TypeOK
  <2>6. OwnEntry(p)'
    BY <1>2, <2>3, <2>5 DEF DamageInv, OwnEntry
  <2>7. \A q \in Places : files'[q] # files[q] => Touching(p) /\ q = Home(p)
    <3>1. files' = files \/ ArchiveTruncate(p) \/ ArchiveFill(p) \/ Unlink(p)
      BY DEF MakeDirs, MakeVersionDir, PruneVersion, PruneName, IndexTruncate
    <3>2. ArchiveTruncate(p) \/ ArchiveFill(p) \/ Unlink(p) => result[p].status = "ok"
      BY DEF DamageInv, OwnEntry, ArchiveTruncate, ArchiveFill, Unlink, Early
    <3> QED
      BY <1>1, <2>3, <3>1, <3>2 DEF Touching
  <2>4. ASSUME p \notin crowded
        PROVE  LoneWriter(p)'
    <3>1. LoneWriter(p)
      BY <1>1, <2>4
    <3>2. CASE MakeDirs(p) \/ MakeVersionDir(p)
      BY <1>5, <3>2 DEF MakeDirs, MakeVersionDir, Continue, Finish, LoneWriter, TypeInv, TypeOK
    <3>3. CASE ArchiveTruncate(p)
      <4>1. pc'[p] = "archive_fill" /\ files'[Place(k)] = Empty /\ p \in live'
        BY <1>1, <1>5, <3>3 DEF ArchiveTruncate, Continue, Finish, TypeInv, TypeOK, Home
      <4> QED
        BY <2>3, <4>1 DEF LoneWriter
    <3>4. CASE ArchiveFill(p)
      <4>1. files[Place(k)] = Empty /\ p \in live
        BY <1>1, <2>4, <3>1, <3>4 DEF LoneWriter, ArchiveFill
      <4>2. pc'[p] = "index_truncate" /\ files'[Place(k)] = cmd[p].archive
        BY <1>1, <3>4, <4>1 DEF ArchiveFill, Overwrite, Continue, TypeInv, TypeOK, Home
      <4>3. cmd[p].op = "add" /\ cmd[p].archive \in Archives
        BY <3>4 DEF ArchiveFill, TypeInv, CmdOK, AddCommand
      <4>4. AgreesWith(mem[p], k)'
        BY <1>2, <2>3, <4>2, <4>3 DEF AgreesWith
      <4> QED
        BY <2>3, <4>2, <4>4 DEF LoneWriter
    <3>5. CASE Unlink(p)
      <4>1. pc'[p] = "prune_version" /\ files'[Place(k)] = Absent /\ cmd[p].op # "add"
        BY <1>1, <3>5 DEF Unlink, Continue, TypeInv, TypeOK, CmdOK, RemoveCommand, Home
      <4>2. AgreesWith(mem[p], k)'
        BY <1>2, <2>3, <4>1 DEF AgreesWith
      <4> QED
        BY <2>3, <4>1, <4>2 DEF LoneWriter
    <3>6. CASE PruneVersion(p) \/ PruneName(p)
      <4>1. AgreesWith(mem[p], k) /\ files' = files /\ pc'[p] \in {"prune_name", "index_truncate"}
        BY <1>1, <2>4, <3>1, <3>6 DEF LoneWriter, PruneVersion, PruneName, Continue,
           TypeInv, TypeOK
      <4>2. AgreesWith(mem[p], k)'
        BY <2>3, <4>1 DEF AgreesWith
      <4> QED
        BY <2>3, <4>1, <4>2 DEF LoneWriter
    <3>7. CASE IndexTruncate(p)
      <4>1. /\ pc[p] = "index_truncate" /\ pc'[p] = "index_fill" /\ index' = Empty
            /\ files' = files /\ result' = result
        BY <3>7 DEF IndexTruncate, Continue, TypeInv, TypeOK
      <4>2. result[p].status = "ok" \/ k \notin suspect => AgreesWith(mem[p], k)
        BY <1>1, <2>4, <3>1, <4>1 DEF LoneWriter
      <4>3. result'[p].status = "ok" \/ k \notin suspect' => AgreesWith(mem[p], k)'
        BY <1>3, <2>1, <2>3, <4>1, <4>2 DEF AgreesWith
      <4> QED
        BY <2>3, <4>1, <4>3 DEF LoneWriter
    <3> QED
      BY <3>2, <3>3, <3>4, <3>5, <3>6, <3>7
  <2> QED
    BY <1>1, <2>2, <2>3, <2>4, <2>6, <2>7, TreeKeeps
<1> QED
  BY <1>4, <1>5

LEMMA StartStep ==
    ASSUME TypeInv, DamageInv, NEW p \in Procs,
           InitTruncate(p) \/ InitFill(p) \/ AddLoad(p) \/ RemoveLoad(p),
           OnlyActs(p), Remember({}, {}, Settled(p), Answers(p))
    PROVE  DamageInv'
<1>1. pc'[p] # "idle"
  BY DEF InitTruncate, InitFill, AddLoad, RemoveLoad, Continue, TypeInv, TypeOK
<1>2. Remember({}, {}, {}, {})
  BY <1>1, GoesOn
<1> QED
  BY <1>2, StartKeeps, DecideKeeps

LEMMA FillStep ==
    ASSUME TypeInv, DamageInv, NEW p \in Procs, IndexFill(p),
           OnlyActs(p), Remember({}, {}, Settled(p), Answers(p))
    PROVE  DamageInv'
<1>1. /\ pc'[p] = "idle" /\ result'[p].status = result[p].status
      /\ cmd[p].op \in {"add", "remove"}
  BY DEF IndexFill, Finish, Result, TypeInv, TypeOK, CmdOK, AddCommand, RemoveCommand
<1>2. Answers(p) = {}
  BY <1>1 DEF Answers
<1>3. /\ Settled(p) \subseteq {Target(p)}
      /\ Settled(p) # {} => p \notin crowded /\ result[p].status = "ok"
  BY <1>1 DEF Settled
<1> HIDE DEF Settled
<1>4. Remember({}, {}, Settled(p), {})
  BY <1>2
<1> QED
  BY <1>3, <1>4, FillKeeps

LEMMA CrashStep ==
    ASSUME TypeInv, DamageInv, NEW p \in Procs, RCrash(p)
    PROVE  DamageInv'
<1> DEFINE doubtful == IF Writing(p) THEN {Target(p)} ELSE {}
<1>1. /\ OnlyActs(p) /\ pc'[p] = "idle" /\ index' \in {index, Garbage}
      /\ live' = live \ {p}
  BY DEF RCrash, Crash, OnlyActs, TypeInv, TypeOK
<1>2. Remember({}, doubtful, {}, {})
  BY DEF RCrash
<1>3. ~Busy(p) => index' = index /\ files' = files
  BY DEF RCrash, Crash, Busy, Writing
<1>4. \A q \in Places : files'[q] # files[q] => Touching(p) /\ q = Home(p)
  <2>1. ASSUME files' # files
        PROVE  /\ pc[p] = "archive_fill" /\ result[p].status = "ok"
               /\ files' = [files EXCEPT ![Home(p)] = Garbage]
    BY <2>1 DEF RCrash, Crash, DamageInv, OwnEntry
  <2> QED
    BY <2>1 DEF Touching, Writing, TypeInv, TypeOK
<1>5. Writing(p) => Target(p) \in doubtful
  OBVIOUS
<1> HIDE DEF doubtful
<1> QED
  BY <1>1, <1>2, <1>3, <1>4, <1>5, LeaveKeeps

\* A remove that could not delete is crowded from then on.
LEMMA FailedRemovalStep ==
    ASSUME TypeInv, DamageInv, NEW p \in Procs, RRemovalFails(p)
    PROVE  DamageInv'
<1>1. Remember({p}, {}, {}, {})
  BY DEF RRemovalFails
<1>2. /\ UNCHANGED <<store, cmd, mem, result>>
      /\ pc[p] \in {"unlink", "prune_version", "prune_name"}
      /\ pc'[p] \in {"prune_version", "prune_name", "index_truncate"}
      /\ \A q \in Procs \ {p} : pc'[q] = pc[q]
  BY DEF RRemovalFails, RemovalFails, Skip, TypeInv, TypeOK
<1>3. OnlyActs(p) /\ Writing(p) /\ Writing(p)' /\ ~Early(p)'
  BY <1>2 DEF OnlyActs, Writing, Early
<1>4. Target(p)' = Target(p) /\ index' = index /\ files' = files
  BY <1>2 DEF Target, store
<1>5. OwnEntry(p)'
  BY <1>2, <1>3, <1>4 DEF DamageInv, OwnEntry
<1> QED
  BY <1>1, <1>2, <1>3, <1>4, <1>5, TreeKeeps

LEMMA TamperStep ==
    ASSUME TypeInv, DamageInv, NEW r \in Places, RTamper(r)
    PROVE  DamageInv'
<1> DEFINE hit == {p \in Procs : Writing(p) /\ Home(p) = r}
           doubtful == {k \in Key : Place(k) = r}
<1>1. Remember(hit, doubtful, {}, {})
  BY DEF RTamper
<1>2. /\ CrowdInv' /\ \A e \in promised', q \in Procs : ~Changes(q, e)'
      /\ promised' \subseteq promised
      /\ \A j : j \notin suspect' => j \notin doubtful /\ j \notin suspect
      /\ \A q \in Procs : Busy(q)' /\ q \in crowded \union hit => q \in crowded'
  BY <1>1, RememberKeeps
<1>3. /\ index' = index /\ live' = live /\ pc' = pc /\ cmd' = cmd /\ mem' = mem
      /\ result' = result /\ files[r] # Absent
      /\ \A q \in Places \ {r} : files'[q] = files[q]
  BY DEF RTamper, Tamper, TypeInv, TypeOK
<1>4. \A q \in Procs :
         /\ (Writing(q)' <=> Writing(q)) /\ (Starting(q)' <=> Starting(q))
         /\ (Early(q)' <=> Early(q)) /\ Target(q)' = Target(q)
         /\ (Busy(q)' <=> Busy(q))
  BY <1>3 DEF Writing, Starting, Early, Busy, Target
<1>a. \A j \in Key \ suspect' : files'[Place(j)] = files[Place(j)] /\ j \notin suspect
  BY <1>2, <1>3, PlacesAssumption
<1>5. FreshInv'
  BY <1>2, <1>3, <1>4, <1>a DEF DamageInv, FreshInv
<1>6. ASSUME NEW q \in Procs
      PROVE  OwnEntry(q)' /\ LoneWriter(q)'
  <2>1. OwnEntry(q) /\ LoneWriter(q)
    BY DEF DamageInv
  <2>2. OwnEntry(q)'
    BY <1>3, <1>4, <2>1 DEF OwnEntry
  <2>3. ASSUME Writing(q)', q \notin crowded'
        PROVE  /\ Writing(q) /\ q \notin crowded
               /\ files'[Place(Target(q))] = files[Place(Target(q))]
    <3>1. Writing(q) /\ q \notin crowded /\ Place(Target(q)) # r
      BY <1>2, <1>4, <2>3, PhasesOf DEF Home
    <3> QED
      BY <1>3, <2>1, <3>1, WriterKey, PlacesAssumption
  <2>4. LoneWriter(q)'
    BY <1>2, <1>3, <1>4, <2>1, <2>3 DEF LoneWriter, AgreesWith
  <2> QED
    BY <2>2, <2>4
<1>7. ASSUME NEW j \in Key \ suspect'
      PROVE  KeyInv(j)'
  <2>1. KeyInv(j) /\ files'[Place(j)] = files[Place(j)]
    BY <1>a DEF DamageInv
  <2> QED
    BY <1>2, <1>3, <1>4, <2>1 DEF KeyInv, Faithful, AgreesWith, IndexReadable
<1> QED
  BY <1>2, <1>5, <1>6, <1>7 DEF DamageInv, PromiseInv

LEMMA InitDamageInv == RInit => DamageInv
<1> SUFFICES ASSUME RInit
             PROVE  DamageInv
  OBVIOUS
<1>1. \A p \in Procs : pc[p] = "idle" /\ ~Writing(p) /\ ~Busy(p) /\ ~Starting(p)
  BY DEF RInit, Init, Writing, Busy, Starting
<1>2. CrowdInv /\ PromiseInv
  BY <1>1 DEF RInit, CrowdInv, PromiseInv, Touching
<1>3. FreshInv /\ ~IndexReadable
  BY <1>1 DEF RInit, Init, FreshInv, IndexReadable, Damaged
<1> QED
  BY <1>1, <1>2, <1>3 DEF DamageInv, OwnEntry, LoneWriter, KeyInv, Early

\* The history holds back no command: without it, a step is one of Registry.
LEMMA RecoverySteps ==
    /\ RInit => Init
    /\ [RNext]_<<vars, history>> => [Next]_vars
<1>1. RInit => Init
  BY DEF RInit
<1>2. RNext => Next
  BY DEF RNext, RStep, RCrash, RRemovalFails, RTamper, Next, Fault
<1> QED
  BY <1>1, <1>2

RecoveryInv == TypeInv /\ MemSound /\ IndexSound /\ OneLookup /\ DamageInv

LEMMA NextRecoveryInv == RecoveryInv /\ [RNext]_<<vars, history>> => RecoveryInv'
<1> SUFFICES ASSUME RecoveryInv, [RNext]_<<vars, history>>
             PROVE  RecoveryInv'
  OBVIOUS
<1>1. TypeInv' /\ MemSound' /\ IndexSound' /\ OneLookup'
  BY RecoverySteps, NextTypeInv, NextSound, NextLookup DEF RecoveryInv
<1>2. ASSUME NEW p \in Procs, RStep(p)
      PROVE  DamageInv'
  <2>1. OnlyActs(p) /\ Remember({}, {}, Settled(p), Answers(p)) /\ (Open(p) \/ Advance(p))
    BY <1>2, CommandsActAlone DEF RStep, RecoveryInv
  <2> QED
    BY <2>1, ReadingStep, TreeStep, StartStep, FillStep DEF RecoveryInv, Advance
<1>3. ASSUME UNCHANGED <<vars, history>>
      PROVE  DamageInv'
  <2>1. /\ index' = index /\ files' = files /\ live' = live /\ pc' = pc /\ cmd' = cmd
        /\ mem' = mem /\ result' = result
        /\ suspect' = suspect /\ crowded' = crowded /\ promised' = promised
    BY <1>3 DEF vars, history
  <2>2. \A p \in Procs :
           /\ (Writing(p)' <=> Writing(p)) /\ (Starting(p)' <=> Starting(p))
           /\ (Early(p)' <=> Early(p)) /\ Target(p)' = Target(p)
           /\ (Busy(p)' <=> Busy(p)) /\ (Touching(p)' <=> Touching(p))
           /\ Neighbours(p)' = Neighbours(p)
    BY <2>1 DEF Writing, Starting, Early, Busy, Target, Touching, Neighbours, Home
  <2>3. CrowdInv' /\ PromiseInv' /\ FreshInv'
    BY <2>1, <2>2 DEF RecoveryInv, DamageInv, CrowdInv, PromiseInv, FreshInv, Changes
  <2>4. ASSUME NEW p \in Procs
        PROVE  OwnEntry(p)' /\ LoneWriter(p)'
    BY <2>1, <2>2 DEF RecoveryInv, DamageInv, OwnEntry, LoneWriter, AgreesWith
  <2>5. ASSUME NEW k \in Key \ suspect'
        PROVE  KeyInv(k)'
    BY <2>1, <2>2 DEF RecoveryInv, DamageInv, KeyInv, Faithful, AgreesWith, IndexReadable
  <2> QED
    BY <2>3, <2>4, <2>5 DEF DamageInv
<1>4. DamageInv'
  BY <1>2, <1>3, CrashStep, FailedRemovalStep, TamperStep DEF RNext, RecoveryInv
<1> QED
  BY <1>1, <1>4 DEF RecoveryInv

LEMMA AlwaysRecoveryInv == RSpec => []RecoveryInv
<1>1. RInit => RecoveryInv
  BY RecoverySteps, InitDamageInv, InitTypeInv, InitSound, InitLookup DEF RecoveryInv
<1> QED
  BY <1>1, NextRecoveryInv, PTL DEF RSpec

-----------------------------------------------------------------------------

LEMMA RestIsFaithful ==
    ASSUME DamageInv, AtRest, IndexReadable, NEW k \in Key \ suspect
    PROVE  Faithful(index, k)
BY PhasesOf DEF DamageInv, AtRest, KeyInv

\* Whatever files the names lead to, and however many commands overlap, fail,
\* are killed or have archives edited under them: once none is changing the
\* store, every version is exactly as the index says but for those that were
\* being changed, or whose file was edited or changed under another name, and
\* that no command alone has put in order since (registry.rs:144-148, 167-184,
\* 231-245).
THEOREM DamageIsConfined == RSpec => []DamageConfined
<1>1. RecoveryInv => DamageConfined
  <2> SUFFICES ASSUME RecoveryInv, AtRest
               PROVE  \/ index = Absent /\ \A q \in Places : files[q] = Absent
                      \/ index \in {Empty, Garbage}
                      \/ \A k \in Key \ suspect : AgreesWith(index, k)
    BY DEF DamageConfined
  <2>1. index = Absent => \A q \in Places : files[q] = Absent
    BY DEF RecoveryInv, DamageInv, FreshInv
  <2>2. IndexReadable => \A k \in Key \ suspect : AgreesWith(index, k)
    BY RestIsFaithful DEF Faithful, RecoveryInv
  <2> QED
    BY <2>1, <2>2 DEF IndexReadable, Damaged
<1> QED
  BY <1>1, AlwaysRecoveryInv, PTL

\* What list, lock or resolve has answered stays in the index and in its file
\* until a command changes that very version or damage reaches it, whatever
\* happens to the others and wherever their names lead (main.rs:490-497,
\* registry.rs:144-148, 218).
THEOREM PromisesAreKept == RSpec => []PromisesKept
<1>1. RecoveryInv => PromisesKept
  <2> SUFFICES ASSUME RecoveryInv, AtRest, IndexReadable,
                      NEW e \in promised, KeyOf(e) \notin suspect
               PROVE  /\ e \in index /\ files[Place(KeyOf(e))] \in Archives
                      /\ EntryOf(files[Place(KeyOf(e))]) = e
    BY DEF PromisesKept
  <2>1. KeyOf(e) \in Key
    BY DEF RecoveryInv, DamageInv, PromiseInv, Entry, KeyOf, Key
  <2>2. Faithful(index, KeyOf(e))
    BY <2>1, RestIsFaithful DEF RecoveryInv
  <2>3. e \in index /\ AgreesWith(index, KeyOf(e)) /\ Unique(index)
    BY <2>2 DEF Faithful, RecoveryInv, IndexSound, Sound
  <2>4. {f \in index : KeyOf(f) = KeyOf(e)} = {e}
    BY <2>3 DEF Unique
  <2> QED
    BY <2>3, <2>4 DEF AgreesWith
<1> QED
  BY <1>1, AlwaysRecoveryInv, PTL

=============================================================================
