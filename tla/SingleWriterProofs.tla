------------------------- MODULE SingleWriterProofs -------------------------
(***************************************************************************)
(* With one writer at a time and no fault, the registry is consistent      *)
(* whenever no command is writing, and implements the map of SkillStore.   *)
(***************************************************************************)
EXTENDS RegistryProofs, RegistryRefinement

Keys(entries) == {KeyOf(e) : e \in entries}

\* The places that hold an archive, and their name directories.
Held == {q \in Places : files[q] # Absent}
HeldDirs == Standing \union {Dir(q) : q \in Held}

\* The archives, but for those in the places S, are those of these entries.
AgreeBut(entries, S) ==
    /\ \A q \in Places \ S : Owned(entries, q)
    /\ \A k \in Key : Sole(k) /\ Place(k) \notin S => AgreesWith(entries, k)

FilesAgree(entries) == AgreeBut(entries, {})

\* Every archive has its directories, and there are at most these more.
DirsWithin(v, n) ==
    /\ Held \subseteq vdirs /\ vdirs \subseteq Held \union v
    /\ HeldDirs \subseteq ndirs /\ ndirs \subseteq HeldDirs \union n

Quiet == IF index = Absent THEN TreeIs({}) ELSE IndexReadable /\ TreeIs(index)

\* The index that add, or remove, decided on when it read this one.
Added(p) == mem[p] = Without(index, Target(p)) \union {EntryOf(cmd[p].archive)}
Removed(p) == Target(p) \in Keys(index) /\ mem[p] = Without(index, Target(p))

\* How far the writer p has got.
Stage(p) ==
    LET q == Home(p)  d == Dir(q) IN
    /\ pc[p] = "init_truncate" => index = Absent /\ TreeIs({})
    /\ pc[p] = "init_fill" => index = Empty /\ TreeIs({})
    /\ pc[p] = "load" => IndexReadable /\ TreeIs(index)
    /\ pc[p] = "make_dirs" => IndexReadable /\ Added(p) /\ TreeIs(index)
    /\ pc[p] = "make_version_dir" =>
          /\ IndexReadable /\ Added(p) /\ FilesAgree(index)
          /\ DirsWithin({}, {d}) /\ d \in ndirs
    /\ pc[p] = "archive_truncate" =>
          /\ IndexReadable /\ Added(p) /\ FilesAgree(index)
          /\ DirsWithin({q}, {d}) /\ d \in ndirs /\ q \in vdirs
    /\ pc[p] = "archive_fill" =>
          /\ IndexReadable /\ Added(p) /\ AgreeBut(index, {q})
          /\ DirsWithin({}, {})
          /\ files[q] = Empty /\ p \in live
    /\ pc[p] = "unlink" => IndexReadable /\ Removed(p) /\ TreeIs(index)
    /\ pc[p] = "prune_version" =>
          /\ IndexReadable /\ Removed(p) /\ FilesAgree(mem[p])
          /\ DirsWithin({q}, {d}) /\ files[q] = Absent
    /\ pc[p] = "prune_name" =>
          /\ IndexReadable /\ Removed(p) /\ FilesAgree(mem[p])
          /\ DirsWithin({}, {d})
    /\ pc[p] = "index_truncate" => IndexReadable /\ TreeIs(mem[p])
    /\ pc[p] = "index_fill" => index = Empty /\ TreeIs(mem[p])

WriterInv ==
    /\ faults = 0
    /\ OneWriter
    /\ \A p \in Procs : pc[p] \notin {"idle", "init_truncate"} => index # Absent
    /\ \A p \in Procs : Writer(p) => Stage(p)
    /\ (\A p \in Procs : ~Writer(p)) => Quiet

-----------------------------------------------------------------------------
(* Operators.                                                              *)

\* What add's new index lists, key by key.
LEMMA AddedEntries ==
    ASSUME NEW entries \in SUBSET Entry, NEW a \in Archives, Acceptable(a),
           NEW added, added = Without(entries, KeyOf(a)) \union {EntryOf(a)}
    PROVE  /\ {e \in added : KeyOf(e) = KeyOf(a)} = {EntryOf(a)}
           /\ \A j \in Key \ {KeyOf(a)} :
                 {e \in added : KeyOf(e) = j} = {e \in entries : KeyOf(e) = j}
           /\ EntryOf(a) \in added
           /\ \A e \in entries : KeyOf(e) # KeyOf(a) => e \in added
<1>1. KeyOf(EntryOf(a)) = KeyOf(a)
  BY DEF KeyOf, EntryOf
<1> QED
  BY <1>1 DEF Without

\* What remove's new index lists.
LEMMA RemovedEntries ==
    ASSUME NEW entries, NEW k
    PROVE  /\ {e \in Without(entries, k) : KeyOf(e) = k} = {}
           /\ \A j \in Key \ {k} :
                 {e \in Without(entries, k) : KeyOf(e) = j} = {e \in entries : KeyOf(e) = j}
           /\ \A e \in entries : KeyOf(e) # k => e \in Without(entries, k)
BY DEF Without

\* Whether a file agrees depends on the entries of its key only.
LEMMA AgreesLocal ==
    ASSUME NEW a, NEW b, NEW k,
           {e \in a : KeyOf(e) = k} = {e \in b : KeyOf(e) = k}
    PROVE  AgreesWith(a, k) <=> AgreesWith(b, k)
BY DEF AgreesWith

\* Entries that differ in one key agree with the same files elsewhere.
LEMMA AgreeButLocal ==
    ASSUME NEW a, NEW b, NEW k \in Key, AgreeBut(a, {Place(k)}),
           \A j \in Key \ {k} : {e \in b : KeyOf(e) = j} = {e \in a : KeyOf(e) = j},
           \A e \in a : KeyOf(e) # k => e \in b
    PROVE  AgreeBut(b, {Place(k)})
<1>1. ASSUME NEW q \in Places \ {Place(k)}
      PROVE  Owned(b, q)
  <2>1. Owned(a, q)
    BY DEF AgreeBut
  <2>2. CASE files[q] # Absent
    <3>1. KeyOf(EntryOf(files[q])) = KeyOf(files[q]) /\ KeyOf(files[q]) # k
      BY <2>1, <2>2 DEF Owned, KeyOf, EntryOf
    <3> QED
      BY <2>1, <2>2, <3>1 DEF Owned
  <2> QED
    BY <2>2 DEF Owned
<1>2. ASSUME NEW j \in Key, Sole(j), Place(j) \notin {Place(k)}
      PROVE  AgreesWith(b, j)
  <2>1. AgreesWith(a, j) /\ j # k
    BY <1>2 DEF AgreeBut
  <2>2. {e \in b : KeyOf(e) = j} = {e \in a : KeyOf(e) = j}
    BY <2>1
  <2> QED
    BY <2>1, <2>2, AgreesLocal
<1> QED
  BY <1>1, <1>2 DEF AgreeBut

LEMMA TreeParts ==
    ASSUME NEW entries
    PROVE  TreeIs(entries) <=> FilesAgree(entries) /\ DirsWithin({}, {})
BY DEF TreeIs, FilesAgree, AgreeBut, DirsWithin, Held, HeldDirs

-----------------------------------------------------------------------------
(* Frames.                                                                 *)

\* Steps that leave the files alone leave every other process where it is.
LEMMA StoreFrame ==
    ASSUME UNCHANGED store
    PROVE  /\ Quiet' <=> Quiet
           /\ IndexReadable' <=> IndexReadable
           /\ \A entries : TreeIs(entries)' <=> TreeIs(entries)
BY DEF store, Quiet, IndexReadable, TreeIs, Owned, AgreesWith

LEMMA StageFrame ==
    ASSUME UNCHANGED store, NEW q \in Procs,
           pc'[q] = pc[q], cmd'[q] = cmd[q], mem'[q] = mem[q]
    PROVE  Stage(q)' <=> Stage(q)
<1>1. \A entries, S : AgreeBut(entries, S)' <=> AgreeBut(entries, S)
  BY DEF store, AgreeBut, Owned, AgreesWith
<1>2. \A v, n : DirsWithin(v, n)' <=> DirsWithin(v, n)
  BY DEF store, DirsWithin, Held, HeldDirs
<1>3. \A entries : TreeIs(entries)' <=> TreeIs(entries)
  BY DEF store, TreeIs, Owned, AgreesWith
<1>4. /\ Home(q)' = Home(q)
      /\ Added(q)' <=> Added(q)
      /\ Removed(q)' <=> Removed(q)
      /\ IndexReadable' <=> IndexReadable
  BY DEF store, Home, Target, Added, Removed, IndexReadable
<1> QED
  BY <1>1, <1>2, <1>3, <1>4 DEF store, Stage, FilesAgree

\* A step that changes no file leaves the archives as they agree.
LEMMA FilesFrame ==
    ASSUME files' = files
    PROVE  /\ \A entries, S : AgreeBut(entries, S)' <=> AgreeBut(entries, S)
           /\ \A entries : FilesAgree(entries)' <=> FilesAgree(entries)
           /\ Held' = Held /\ HeldDirs' = HeldDirs
BY DEF AgreeBut, FilesAgree, Owned, AgreesWith, Held, HeldDirs

LEMMA TreeFrame ==
    ASSUME files' = files, vdirs' = vdirs, ndirs' = ndirs
    PROVE  \A entries : TreeIs(entries)' <=> TreeIs(entries)
BY DEF TreeIs, Owned, AgreesWith

\* A step of the writer p need only be looked at from p.
LEMMA WriterStep ==
    ASSUME WriterInv, OneWriter', NEW p \in Procs, Writer(p),
           \A q \in Procs \ {p} : pc'[q] = pc[q] /\ cmd'[q] = cmd[q],
           faults' = faults, index' # Absent,
           Writer(p)' => Stage(p)',
           ~Writer(p)' => Quiet'
    PROVE  WriterInv'
<1>1. \A q \in Procs \ {p} : ~Writer(q)'
  BY DEF WriterInv, OneWriter, Writer
<1> QED
  BY <1>1 DEF WriterInv

\* A step of another process that changes no file.
LEMMA ReaderStep ==
    ASSUME WriterInv, OneWriter', NEW p \in Procs, ~Writer(p), ~Writer(p)',
           \A q \in Procs \ {p} :
              pc'[q] = pc[q] /\ cmd'[q] = cmd[q] /\ mem'[q] = mem[q],
           faults' = faults, UNCHANGED store,
           pc'[p] \notin {"idle", "init_truncate"} => index # Absent
    PROVE  WriterInv'
<1>1. \A q \in Procs : Writer(q)' <=> Writer(q)
  BY DEF Writer
<1>2. \A q \in Procs : Writer(q)' => Stage(q)'
  BY <1>1, StageFrame DEF WriterInv
<1> QED
  BY <1>1, <1>2, StoreFrame DEF WriterInv, store

\* Only the acting process changes its control state.
LEMMA OnlyActor ==
    ASSUME TypeInv, NEW p \in Procs, Open(p) \/ Advance(p)
    PROVE  /\ \A q \in Procs \ {p} : pc'[q] = pc[q] /\ cmd'[q] = cmd[q] /\ mem'[q] = mem[q]
           /\ faults' = faults
BY DEF TypeInv, TypeOK, Open, Advance, InitTruncate, InitFill, AddRejected, LoadFails,
   AddConflict, AddLoad, RemoveLoad, ResolveNoMatch, ResolveLoad, ListLoad, MakeDirs,
   MakeVersionDir, ArchiveTruncate, ArchiveFill, Unlink, PruneVersion, PruneName,
   IndexTruncate, IndexFill, ResolveRead, Continue, Finish

-----------------------------------------------------------------------------
(* Every step of the writer takes it to its next stage.                    *)

LEMMA OpenStep ==
    ASSUME TypeInv, WriterInv, OneWriter', NEW p \in Procs, Open(p)
    PROVE  WriterInv'
<1>1. /\ \A q \in Procs \ {p} : pc'[q] = pc[q] /\ cmd'[q] = cmd[q] /\ mem'[q] = mem[q]
      /\ faults' = faults /\ UNCHANGED store
      /\ pc'[p] = IF index = Absent THEN "init_truncate" ELSE "load"
      /\ ~Writer(p)
  BY OnlyActor DEF Open, Writer, TypeInv, TypeOK
<1>2. CASE ~Writer(p)'
  BY <1>1, <1>2, ReaderStep
<1>3. CASE Writer(p)'
  <2>1. \A q \in Procs : ~Writer(q)
    BY <1>1, <1>3 DEF OneWriter, Writer
  <2>2. Quiet
    BY <2>1 DEF WriterInv
  <2>3. Stage(p)'
    BY <1>1, <2>2, StoreFrame DEF Quiet, Stage, store
  <2>4. \A q \in Procs : Writer(q)' => q = p
    BY <1>3 DEF OneWriter
  <2> QED
    BY <1>1, <1>3, <2>3, <2>4 DEF WriterInv, store
<1> QED
  BY <1>2, <1>3

LEMMA InitIndexStep ==
    ASSUME TypeInv, WriterInv, OneWriter', NEW p \in Procs, InitTruncate(p) \/ InitFill(p)
    PROVE  WriterInv'
<1>1. Writer(p) /\ Stage(p)
  BY DEF InitTruncate, InitFill, Writer, WriterInv
<1>2. \A q \in Procs \ {p} : pc'[q] = pc[q] /\ cmd'[q] = cmd[q]
  BY OnlyActor DEF Advance
<1>3. TreeIs({}) /\ TreeIs({})'
  BY <1>1, TreeFrame DEF InitTruncate, InitFill, Stage
<1>4. CASE InitTruncate(p)
  <2>1. pc'[p] = "init_fill" /\ index' = Empty /\ faults' = faults
    BY <1>4 DEF InitTruncate, Continue, TypeInv, TypeOK
  <2>2. Stage(p)' /\ Writer(p)'
    BY <1>3, <2>1 DEF Stage, Writer
  <2> QED
    BY <1>1, <1>2, <2>1, <2>2, ContentAssumption, WriterStep
<1>5. CASE InitFill(p)
  <2>1. index = Empty
    BY <1>1, <1>5 DEF InitFill, Stage
  <2>2. pc'[p] = "load" /\ index' = {} /\ faults' = faults
    BY <1>5, <2>1 DEF InitFill, Overwrite, Continue, TypeInv, TypeOK
  <2>3. {} \notin Damaged
    BY ContentAssumption
  <2>4. index' # Absent /\ IndexReadable' /\ TreeIs(index)'
    BY <1>3, <2>2, <2>3 DEF IndexReadable, Damaged, TreeIs, Owned, AgreesWith
  <2>5. Quiet' /\ Stage(p)'
    BY <2>2, <2>4 DEF Quiet, Stage
  <2> QED
    BY <1>1, <1>2, <2>2, <2>4, <2>5, WriterStep
<1> QED
  BY <1>4, <1>5

\* Reading the index, and what a reader does after it.
LEMMA ReturnStep ==
    ASSUME TypeInv, WriterInv, OneWriter', NEW p \in Procs,
           \/ AddRejected(p) \/ LoadFails(p) \/ AddConflict(p) \/ ResolveNoMatch(p)
           \/ ResolveLoad(p) \/ ListLoad(p) \/ ResolveRead(p)
    PROVE  WriterInv'
<1>1. \A q \in Procs \ {p} : pc'[q] = pc[q] /\ cmd'[q] = cmd[q] /\ mem'[q] = mem[q]
  BY OnlyActor DEF Advance
<1>2. UNCHANGED store /\ faults' = faults
  BY OnlyActor DEF Advance, AddRejected, LoadFails, AddConflict, ResolveNoMatch,
     ResolveLoad, ListLoad, ResolveRead
<1>3. pc[p] \in {"load", "read_archive"} /\ index # Absent
  BY DEF AddRejected, LoadFails, AddConflict, ResolveNoMatch, ResolveLoad, ListLoad,
     ResolveRead, WriterInv
<1>4. ~Writer(p)'
  BY CommandKind DEF Writer, AddRejected, LoadFails, AddConflict, ResolveNoMatch,
     ResolveLoad, ListLoad, ResolveRead, Finish, Continue, TypeInv, TypeOK, CmdOK,
     ResolveCommand
<1>5. CASE Writer(p)
  <2>1. pc[p] = "load"
    BY <1>3, <1>5 DEF Writer, TypeInv, CmdOK, ResolveCommand
  <2>2. IndexReadable /\ TreeIs(index)
    BY <1>5, <2>1 DEF WriterInv, Stage
  <2>3. Quiet'
    BY <1>2, <1>3, <2>2, StoreFrame DEF Quiet, store
  <2> QED
    BY <1>1, <1>2, <1>3, <1>4, <1>5, <2>3, WriterStep DEF store
<1>6. CASE ~Writer(p)
  BY <1>1, <1>2, <1>3, <1>4, <1>6, ReaderStep
<1> QED
  BY <1>5, <1>6

LEMMA DecideStep ==
    ASSUME TypeInv, WriterInv, OneWriter', NEW p \in Procs, AddLoad(p) \/ RemoveLoad(p)
    PROVE  WriterInv'
<1>1. Writer(p) /\ pc[p] = "load"
  BY DEF AddLoad, RemoveLoad, Writer
<1>2. IndexReadable /\ TreeIs(index) /\ index # Absent
  BY <1>1 DEF WriterInv, Stage
<1>3. UNCHANGED store /\ faults' = faults /\ cmd' = cmd
  BY DEF AddLoad, RemoveLoad, Continue
<1>4. \A q \in Procs \ {p} : pc'[q] = pc[q] /\ cmd'[q] = cmd[q]
  BY OnlyActor DEF Advance
<1>5. IndexReadable' /\ TreeIs(index)' /\ index' = index
  BY <1>2, <1>3, StoreFrame DEF store, IndexReadable, TreeIs, Owned, AgreesWith
<1>6. CASE AddLoad(p)
  <2>1. pc'[p] = "make_dirs" /\ Added(p)' /\ Writer(p)'
    BY <1>3, <1>6 DEF AddLoad, Continue, Added, Target, Writer, store, TypeInv, TypeOK
  <2>2. Stage(p)'
    BY <1>5, <2>1 DEF Stage
  <2> QED
    BY <1>1, <1>2, <1>3, <1>4, <1>5, <2>1, <2>2, WriterStep
<1>7. CASE RemoveLoad(p)
  <2>1. /\ pc'[p] = IF Without(index, Target(p)) = index THEN "index_truncate" ELSE "unlink"
        /\ mem'[p] = Without(index, Target(p)) /\ Writer(p)' /\ Target(p)' = Target(p)
    BY <1>3, <1>7 DEF RemoveLoad, Continue, Target, Writer, store, TypeInv, TypeOK
  <2>2. pc'[p] = "index_truncate" => TreeIs(mem[p])'
    BY <1>2, <1>3, <2>1, TreeFrame DEF store, TreeIs, Owned, AgreesWith
  <2>3. pc'[p] = "unlink" => Removed(p)'
    BY <1>5, <2>1 DEF Removed, Without, Keys
  <2>4. Stage(p)'
    BY <1>5, <2>1, <2>2, <2>3 DEF Stage
  <2> QED
    BY <1>1, <1>2, <1>3, <1>4, <1>5, <2>1, <2>4, WriterStep
<1> QED
  BY <1>6, <1>7

LEMMA MakeDirsStep ==
    ASSUME TypeInv, WriterInv, OneWriter', NEW p \in Procs, MakeDirs(p) \/ MakeVersionDir(p)
    PROVE  WriterInv'
<1>1. /\ Writer(p) /\ Stage(p) /\ cmd[p] \in AddCommand
      /\ index' = index /\ files' = files /\ live' = live /\ cmd[p].op = "add"
  BY DEF MakeDirs, MakeVersionDir, Writer, WriterInv, TypeInv, CmdOK, AddCommand
<1>2. \A q \in Procs \ {p} : pc'[q] = pc[q] /\ cmd'[q] = cmd[q]
  BY OnlyActor DEF Advance
<1>3. /\ IndexReadable /\ Added(p) /\ FilesAgree(index) /\ index # Absent
      /\ DirsWithin({}, {Dir(Home(p))})
      /\ pc[p] = "make_dirs" => DirsWithin({}, {})
      /\ pc[p] = "make_version_dir" => Dir(Home(p)) \in ndirs
  <2>1. DirsWithin({}, {}) => DirsWithin({}, {Dir(Home(p))})
    BY DEF DirsWithin
  <2> QED
    BY <1>1, <2>1, TreeParts DEF MakeDirs, MakeVersionDir, Stage, IndexReadable, Damaged
<1>4. CASE Dir(Home(p)) \in ndirs
  <2>1. /\ pc'[p] = "archive_truncate" /\ mem'[p] = mem[p] /\ cmd' = cmd
        /\ faults' = faults /\ vdirs' = vdirs \union {Home(p)} /\ ndirs' = ndirs
    BY <1>4 DEF MakeDirs, MakeVersionDir, Continue, TypeInv, TypeOK
  <2>2. Home(p)' = Home(p)
    BY <2>1 DEF Home, Target
  <2>3. DirsWithin({Home(p)}, {Dir(Home(p))})'
    BY <1>1, <1>3, <2>1, <2>2, FilesFrame DEF DirsWithin
  <2>4. Added(p)' /\ IndexReadable' /\ FilesAgree(index)'
    BY <1>1, <1>3, <2>1, FilesFrame DEF Added, Target, IndexReadable
  <2>5. Stage(p)' /\ Writer(p)'
    BY <1>1, <1>4, <2>1, <2>2, <2>3, <2>4 DEF Stage, Writer
  <2> QED
    BY <1>1, <1>2, <1>3, <2>1, <2>5, WriterStep
<1>5. CASE Dir(Home(p)) \notin ndirs
  <2>1. MakeDirs(p) /\ DirsWithin({}, {})
    BY <1>3, <1>5 DEF MakeVersionDir, MakeDirs
  <2>2. /\ pc'[p] = "make_version_dir" /\ mem'[p] = mem[p] /\ cmd' = cmd
        /\ faults' = faults /\ ndirs' = ndirs \union {Dir(Home(p))} /\ vdirs' = vdirs
    BY <1>5, <2>1 DEF MakeDirs, Continue, TypeInv, TypeOK
  <2>3. Home(p)' = Home(p)
    BY <2>2 DEF Home, Target
  <2>4. DirsWithin({}, {Dir(Home(p))})' /\ Dir(Home(p))' \in ndirs'
    BY <1>1, <2>1, <2>2, <2>3, FilesFrame DEF DirsWithin
  <2>5. Added(p)' /\ IndexReadable' /\ FilesAgree(index)'
    BY <1>1, <1>3, <2>2, FilesFrame DEF Added, Target, IndexReadable
  <2>6. Stage(p)' /\ Writer(p)'
    BY <1>1, <2>2, <2>3, <2>4, <2>5 DEF Stage, Writer
  <2> QED
    BY <1>1, <1>2, <1>3, <2>2, <2>6, WriterStep
<1> QED
  BY <1>4, <1>5

\* A file written in q is left out, and has its directories.
LEMMA FileWritten ==
    ASSUME NEW q \in Places, NEW c, c # Absent, NEW entries, NEW v, NEW n,
           files \in [Places -> Content], files' = [files EXCEPT ![q] = c],
           vdirs' = vdirs, ndirs' = ndirs,
           AgreeBut(entries, {q}), DirsWithin(v, n),
           v \subseteq {q}, n \subseteq {Dir(q)}, q \in vdirs, Dir(q) \in ndirs
    PROVE  AgreeBut(entries, {q})' /\ DirsWithin({}, {})'
<1>1. files'[q] = c /\ \A r \in Places \ {q} : files'[r] = files[r]
  OBVIOUS
<1>2. AgreeBut(entries, {q})'
  BY <1>1, PlacesAssumption DEF AgreeBut, Owned, AgreesWith
<1>3. Held' = Held \union {q}
  BY <1>1 DEF Held
<1>4. HeldDirs' = HeldDirs \union {Dir(q)}
  BY <1>3 DEF HeldDirs
<1> QED
  BY <1>2, <1>3, <1>4 DEF DirsWithin

LEMMA ArchiveTruncateStep ==
    ASSUME TypeInv, WriterInv, OneWriter', NEW p \in Procs, ArchiveTruncate(p)
    PROVE  WriterInv'
<1> DEFINE q == Home(p)
<1>1. Writer(p) /\ Stage(p) /\ cmd[p] \in AddCommand /\ cmd[p].op = "add"
  BY DEF ArchiveTruncate, Writer, WriterInv, TypeInv, CmdOK, AddCommand
<1>2. \A r \in Procs \ {p} : pc'[r] = pc[r] /\ cmd'[r] = cmd[r]
  BY OnlyActor DEF Advance
<1>3. /\ IndexReadable /\ Added(p) /\ FilesAgree(index) /\ index # Absent
      /\ DirsWithin({q}, {Dir(q)}) /\ q \in vdirs /\ Dir(q) \in ndirs
  BY <1>1 DEF ArchiveTruncate, Stage, IndexReadable, Damaged
<1>4. q \in Places /\ files \in [Places -> Content] /\ Empty # Absent
  BY TargetIsKey, ContentAssumption DEF ArchiveTruncate, TypeInv, TypeOK
<1>5. /\ files' = [files EXCEPT ![q] = Empty] /\ live' = live \union {p}
      /\ pc'[p] = "archive_fill" /\ mem'[p] = mem[p] /\ cmd' = cmd /\ faults' = faults
      /\ index' = index /\ vdirs' = vdirs /\ ndirs' = ndirs
  BY <1>3 DEF ArchiveTruncate, Continue, TypeInv, TypeOK
<1>6. Added(p)' /\ IndexReadable' /\ q' = q
  BY <1>3, <1>5 DEF Added, Home, Target, IndexReadable
<1>7. AgreeBut(index, {q})
  BY <1>3 DEF FilesAgree, AgreeBut
<1>8. AgreeBut(index, {q})' /\ DirsWithin({}, {})'
  <2> HIDE DEF q
  <2>1. \A entries : AgreeBut(entries, {q}) => AgreeBut(entries, {q})' /\ DirsWithin({}, {})'
    BY <1>3, <1>4, <1>5, <1>6, FileWritten
  <2>2. index' = index
    BY <1>5
  <2> QED
    BY <1>7, <2>1, <2>2 DEF AgreeBut, Owned, AgreesWith
<1>9. files'[q] = Empty /\ p \in live'
  BY <1>4, <1>5
<1>10. Stage(p)' /\ Writer(p)'
  BY <1>1, <1>5, <1>6, <1>8, <1>9 DEF Stage, Writer
<1> QED
  BY <1>1, <1>2, <1>3, <1>5, <1>10, WriterStep

LEMMA ArchiveFillStep ==
    ASSUME TypeInv, WriterInv, OneWriter', NEW p \in Procs, ArchiveFill(p)
    PROVE  WriterInv'
<1> DEFINE a == cmd[p].archive
           k == Target(p)
           q == Home(p)
<1>1. /\ Writer(p) /\ Stage(p) /\ cmd[p].op = "add"
      /\ a \in Archives /\ Acceptable(a) /\ k = KeyOf(a) /\ k \in Key
      /\ q \in Places /\ q = Place(k)
  BY TargetIsKey DEF ArchiveFill, Writer, WriterInv, TypeInv, CmdOK, AddCommand, Target, Home
<1>2. \A r \in Procs \ {p} : pc'[r] = pc[r] /\ cmd'[r] = cmd[r]
  BY OnlyActor DEF Advance
<1>3. /\ IndexReadable /\ Added(p) /\ index # Absent
      /\ AgreeBut(index, {q}) /\ DirsWithin({}, {})
      /\ files[q] = Empty /\ p \in live
  BY <1>1 DEF ArchiveFill, Stage, IndexReadable, Damaged
<1>4. /\ files' = [files EXCEPT ![q] = a]
      /\ pc'[p] = "index_truncate" /\ mem'[p] = mem[p] /\ cmd' = cmd /\ faults' = faults
      /\ index' = index /\ vdirs' = vdirs /\ ndirs' = ndirs
  BY <1>3 DEF ArchiveFill, Overwrite, Continue, TypeInv, TypeOK
<1>5. index \in SUBSET Entry /\ a # Absent /\ files \in [Places -> Content] /\ Empty # Absent
  BY <1>1, <1>3, ContentAssumption DEF IndexReadable, TypeInv, TypeOK, Damaged
<1>6. /\ {e \in mem[p] : KeyOf(e) = k} = {EntryOf(a)} /\ EntryOf(a) \in mem[p]
      /\ AgreeBut(mem[p], {q})
  <2>1. /\ {e \in mem[p] : KeyOf(e) = k} = {EntryOf(a)}
        /\ \A j \in Key \ {k} :
              {e \in mem[p] : KeyOf(e) = j} = {e \in index : KeyOf(e) = j}
        /\ EntryOf(a) \in mem[p]
        /\ \A e \in index : KeyOf(e) # k => e \in mem[p]
    BY <1>1, <1>3, <1>5, AddedEntries DEF Added
  <2> HIDE DEF a, k, q
  <2> QED
    BY <1>1, <1>3, <2>1, AgreeButLocal
<1>7. q \in vdirs /\ Dir(q) \in ndirs
  BY <1>1, <1>3, <1>5 DEF DirsWithin, Held, HeldDirs
<1>8. \A entries : AgreeBut(entries, {q}) => AgreeBut(entries, {q})' /\ DirsWithin({}, {})'
  <2>1. q' = q
    BY <1>4 DEF Target, Home
  <2> HIDE DEF a, k, q
  <2> QED BY <1>1, <1>3, <1>4, <1>5, <1>7, <2>1, FileWritten
<1>9. AgreeBut(mem[p], {q})' /\ DirsWithin({}, {})'
  BY <1>4, <1>6, <1>8 DEF AgreeBut, Owned, AgreesWith
<1>10. AgreesWith(mem[p], k)' /\ Owned(mem[p], q)'
  <2>1. files'[q] = a
    BY <1>1, <1>4, <1>5
  <2>2. {e \in mem'[p] : KeyOf(e) = k} = {EntryOf(a)} /\ EntryOf(a) \in mem'[p]
    BY <1>4, <1>6
  <2>3. AgreesWith(mem[p], k)'
    BY <1>1, <1>4, <2>1, <2>2 DEF AgreesWith, Target
  <2>4. Owned(mem[p], q)'
    BY <1>1, <1>4, <2>1, <2>2 DEF Owned, Target, Home
  <2> QED
    BY <2>3, <2>4
<1>11. TreeIs(mem[p])'
  <2>1. k' = k /\ q' = q
    BY <1>4 DEF Target, Home
  <2>2. FilesAgree(mem[p])'
    BY <1>1, <1>9, <1>10, <2>1 DEF AgreeBut, FilesAgree, Sole
  <2> QED
    BY <1>9, <2>2 DEF TreeIs, FilesAgree, AgreeBut, DirsWithin, Held, HeldDirs
<1>12. Stage(p)' /\ Writer(p)'
  BY <1>1, <1>3, <1>4, <1>11 DEF Stage, Writer, IndexReadable
<1> QED
  BY <1>1, <1>2, <1>3, <1>4, <1>12, WriterStep

LEMMA UnlinkStep ==
    ASSUME TypeInv, WriterInv, OneWriter', NEW p \in Procs, Unlink(p)
    PROVE  WriterInv'
<1> DEFINE k == Target(p)
           q == Home(p)
<1>1. /\ Writer(p) /\ Stage(p) /\ k \in Key /\ q \in Places /\ q = Place(k)
      /\ cmd[p].op = "remove" /\ files \in [Places -> Content]
      /\ index' = index /\ cmd' = cmd /\ faults' = faults /\ mem'[p] = mem[p]
      /\ files' = [files EXCEPT ![q] = Absent] /\ vdirs' = vdirs /\ ndirs' = ndirs
      /\ pc'[p] = "prune_version"
  BY TargetIsKey DEF Unlink, Continue, Writer, WriterInv, TypeInv, TypeOK, CmdOK,
     RemoveCommand, Home
<1>2. \A r \in Procs \ {p} : pc'[r] = pc[r] /\ cmd'[r] = cmd[r]
  BY OnlyActor DEF Advance
<1>3. /\ IndexReadable /\ Removed(p) /\ index # Absent
      /\ FilesAgree(index) /\ DirsWithin({}, {})
  BY <1>1, TreeParts DEF Unlink, Stage, IndexReadable, Damaged
<1>4. Removed(p)' /\ IndexReadable' /\ Writer(p)' /\ k' = k /\ q' = q
  BY <1>1, <1>3 DEF Removed, Home, Target, IndexReadable, Writer
<1>5. AgreeBut(mem[p], {q}) /\ {e \in mem[p] : KeyOf(e) = k} = {}
  <2>1. /\ {e \in mem[p] : KeyOf(e) = k} = {}
        /\ \A j \in Key \ {k} :
              {e \in mem[p] : KeyOf(e) = j} = {e \in index : KeyOf(e) = j}
        /\ \A e \in index : KeyOf(e) # k => e \in mem[p]
    BY <1>3, RemovedEntries DEF Removed
  <2>2. AgreeBut(index, {q})
    BY <1>3 DEF FilesAgree, AgreeBut
  <2> HIDE DEF k, q
  <2> QED
    BY <1>1, <2>1, <2>2, AgreeButLocal
<1>6. files'[q] = Absent /\ \A r \in Places \ {q} : files'[r] = files[r]
  BY <1>1
<1>7. AgreeBut(mem[p], {q})'
  BY <1>1, <1>4, <1>5, <1>6, PlacesAssumption DEF AgreeBut, Owned, AgreesWith
<1>8. AgreesWith(mem[p], k)' /\ Owned(mem[p], q)'
  BY <1>1, <1>4, <1>5, <1>6 DEF AgreesWith, Owned
<1>9. FilesAgree(mem[p])'
  BY <1>1, <1>4, <1>7, <1>8 DEF AgreeBut, FilesAgree, Sole
<1>10. DirsWithin({q}, {Dir(q)})'
  <2>1. Held' \subseteq Held /\ Held \subseteq Held' \union {q}
    BY <1>6 DEF Held
  <2>2. HeldDirs' \subseteq HeldDirs /\ HeldDirs \subseteq HeldDirs' \union {Dir(q)}
    BY <2>1 DEF HeldDirs
  <2> QED
    BY <1>1, <1>3, <1>4, <2>1, <2>2 DEF DirsWithin
<1>11. Stage(p)'
  BY <1>1, <1>4, <1>6, <1>9, <1>10 DEF Stage
<1> QED
  BY <1>1, <1>2, <1>3, <1>4, <1>11, WriterStep

LEMMA PruneStep ==
    ASSUME TypeInv, WriterInv, OneWriter', NEW p \in Procs,
           PruneVersion(p) \/ PruneName(p)
    PROVE  WriterInv'
<1> DEFINE q == Home(p)
<1>1. /\ Writer(p) /\ Stage(p) /\ q \in Places /\ cmd[p].op = "remove"
      /\ index' = index /\ cmd' = cmd /\ faults' = faults /\ mem'[p] = mem[p]
      /\ files' = files
  BY TargetIsKey DEF PruneVersion, PruneName, Continue, Writer, WriterInv,
     TypeInv, TypeOK, CmdOK, RemoveCommand
<1>2. \A r \in Procs \ {p} : pc'[r] = pc[r] /\ cmd'[r] = cmd[r]
  BY OnlyActor DEF Advance
<1>3. /\ IndexReadable /\ Removed(p) /\ index # Absent /\ FilesAgree(mem[p])
  BY <1>1 DEF PruneVersion, PruneName, Stage, IndexReadable, Damaged
<1>4. /\ Removed(p)' /\ IndexReadable' /\ Writer(p)' /\ q' = q
      /\ FilesAgree(mem[p])' /\ Held' = Held /\ HeldDirs' = HeldDirs
  <2>1. Removed(p)' /\ IndexReadable' /\ Writer(p)' /\ q' = q
    BY <1>1, <1>3 DEF Removed, Home, Target, IndexReadable, Writer, PruneVersion,
       PruneName, Continue, TypeInv, TypeOK
  <2> QED
    BY <1>1, <1>3, <2>1, FilesFrame DEF FilesAgree, AgreeBut, Owned, AgreesWith
<1>5. CASE PruneVersion(p)
  <2>1. /\ DirsWithin({q}, {Dir(q)}) /\ files[q] = Absent
        /\ ndirs' = ndirs /\ pc'[p] = "prune_name" /\ vdirs' = vdirs \ {q}
    BY <1>1, <1>5 DEF PruneVersion, Continue, Stage, TypeInv, TypeOK
  <2>2. q \notin Held
    BY <2>1 DEF Held
  <2>3. DirsWithin({}, {Dir(q)})'
    BY <1>4, <2>1, <2>2 DEF DirsWithin
  <2>4. Stage(p)'
    BY <1>4, <2>1, <2>3 DEF Stage
  <2> QED
    BY <1>1, <1>2, <1>3, <1>4, <2>4, WriterStep
<1>6. CASE PruneName(p)
  <2>1. DirsWithin({}, {Dir(q)}) /\ vdirs' = vdirs /\ pc'[p] = "index_truncate"
    BY <1>1, <1>6 DEF PruneName, Continue, Stage, TypeInv, TypeOK
  <2>2. vdirs = Held
    BY <2>1 DEF DirsWithin
  <2>3. ndirs' = HeldDirs
    BY <1>6, <2>1, <2>2 DEF PruneName, DirsWithin, HeldDirs
  <2>4. TreeIs(mem[p])'
    BY <1>4, <2>1, <2>2, <2>3 DEF TreeIs, FilesAgree, AgreeBut, Held, HeldDirs
  <2>5. Stage(p)'
    BY <1>4, <2>1, <2>4 DEF Stage
  <2> QED
    BY <1>1, <1>2, <1>3, <1>4, <2>5, WriterStep
<1> QED
  BY <1>5, <1>6

LEMMA WriteIndexStep ==
    ASSUME TypeInv, WriterInv, OneWriter', NEW p \in Procs, IndexTruncate(p) \/ IndexFill(p)
    PROVE  WriterInv'
<1>1. Writer(p) /\ Stage(p) /\ TreeIs(mem[p])
  BY DEF IndexTruncate, IndexFill, Writer, WriterInv, TypeInv, CmdOK, AddCommand,
     RemoveCommand, Stage
<1>2. \A q \in Procs \ {p} : pc'[q] = pc[q] /\ cmd'[q] = cmd[q]
  BY OnlyActor DEF Advance
<1>3. CASE IndexTruncate(p)
  <2>1. /\ pc'[p] = "index_fill" /\ index' = Empty /\ faults' = faults /\ cmd' = cmd
        /\ mem'[p] = mem[p] /\ files' = files /\ vdirs' = vdirs /\ ndirs' = ndirs
    BY <1>3 DEF IndexTruncate, Continue, TypeInv, TypeOK
  <2>2. TreeIs(mem[p])'
    BY <1>1, <2>1, TreeFrame DEF TreeIs, Owned, AgreesWith
  <2>3. Stage(p)' /\ Writer(p)'
    BY <1>1, <1>3, <2>1, <2>2 DEF IndexTruncate, Stage, Writer
  <2> QED
    BY <1>1, <1>2, <2>1, <2>3, ContentAssumption, WriterStep
<1>4. CASE IndexFill(p)
  <2>1. index = Empty
    BY <1>1, <1>4 DEF IndexFill, Stage
  <2>2. /\ index' = mem[p] /\ faults' = faults /\ ~Writer(p)'
        /\ files' = files /\ vdirs' = vdirs /\ ndirs' = ndirs
    BY <1>4, <2>1 DEF IndexFill, Overwrite, Finish, Writer, TypeInv, TypeOK
  <2>3. index' \notin Damaged
    BY <2>2, ContentAssumption DEF TypeInv, TypeOK
  <2>4. TreeIs(index)'
    BY <1>1, <2>2, TreeFrame DEF TreeIs, Owned, AgreesWith
  <2>5. Quiet' /\ index' # Absent
    BY <2>3, <2>4 DEF Quiet, IndexReadable, Damaged
  <2> QED
    BY <1>1, <1>2, <2>2, <2>5, WriterStep
<1> QED
  BY <1>3, <1>4

-----------------------------------------------------------------------------

LEMMA InitWriterInv == Init => WriterInv
BY PlacesAssumption DEF Init, WriterInv, OneWriter, Writer, Quiet, TreeIs, Owned, AgreesWith

LEMMA NextWriterInv ==
    ASSUME MaxFaults = 0
    PROVE  TypeInv /\ WriterInv /\ [Next /\ OneWriter']_vars => WriterInv'
<1> SUFFICES ASSUME TypeInv, WriterInv, [Next /\ OneWriter']_vars
             PROVE  WriterInv'
  OBVIOUS
<1>1. ASSUME NEW p \in Procs, Open(p) \/ Advance(p), OneWriter'
      PROVE  WriterInv'
  BY <1>1, OpenStep, InitIndexStep, ReturnStep, DecideStep, MakeDirsStep,
     ArchiveTruncateStep, ArchiveFillStep, UnlinkStep, PruneStep, WriteIndexStep DEF Advance
<1>2. ~Fault
  BY DEF Fault, Crash, RemovalFails, Tamper, WriterInv
<1>3. CASE UNCHANGED vars
  <2>1. /\ index' = index /\ files' = files /\ vdirs' = vdirs /\ ndirs' = ndirs
        /\ live' = live /\ pc' = pc /\ cmd' = cmd /\ mem' = mem /\ faults' = faults
    BY <1>3 DEF vars
  <2>2. UNCHANGED store
    BY <2>1 DEF store
  <2>3. \A p \in Procs : (Stage(p)' <=> Stage(p)) /\ (Writer(p)' <=> Writer(p))
    BY <2>1, <2>2, StageFrame DEF Writer
  <2>4. Quiet' <=> Quiet
    BY <2>2, StoreFrame
  <2> QED
    BY <2>1, <2>3, <2>4 DEF WriterInv, OneWriter
<1> QED
  BY <1>1, <1>2, <1>3 DEF Next

\* If no two commands write at once, no access fails and none is killed, then
\* whenever none is writing, every archive is that of an entry and every
\* directory that of an archive, whatever names share a directory; and every
\* entry has its archive whose file no other name leads to (registry.rs:
\* 144-184, 231-245).
THEOREM SingleWriterConsistent ==
    ASSUME MaxFaults = 0
    PROVE  SingleWriterSpec => []StoreConsistent
<1>1. Init /\ [][Next /\ OneWriter']_vars => [](TypeInv /\ WriterInv)
  <2>1. Init => TypeInv /\ WriterInv
    BY InitTypeInv, InitWriterInv
  <2>2. TypeInv /\ WriterInv /\ [Next /\ OneWriter']_vars => (TypeInv /\ WriterInv)'
    BY NextTypeInv, NextWriterInv
  <2> QED
    BY <2>1, <2>2, PTL
<1>2. WriterInv => StoreConsistent
  BY DEF WriterInv, StoreConsistent, Quiet
<1> QED
  BY <1>1, <1>2, PTL DEF SingleWriterSpec

-----------------------------------------------------------------------------
(* With one writer at a time the registry implements SkillStore.  Beyond   *)
(* WriterInv, the refinement rests on what a writer has decided: the index *)
(* it read is still the one on disk, and its outcome follows from it.      *)

Decided(p) ==
    LET k == Target(p) IN
    /\ pc[p] \in {"make_dirs", "make_version_dir", "archive_truncate", "archive_fill",
                  "unlink", "prune_version", "prune_name", "index_truncate"} =>
          /\ IndexReadable
          /\ cmd[p].op = "add" =>
                Added(p) /\ ~Conflicts(p) /\ Acceptable(cmd[p].archive)
                /\ result[p] = Result("ok", Absent)
          /\ cmd[p].op = "remove" =>
                /\ mem[p] = Without(index, k)
                /\ result[p] = Result(IF k \in Keys(index) THEN "ok" ELSE "no_entry", Absent)
    /\ pc[p] = "index_fill" =>
          result[p] \in {Result("ok", Absent), Result("no_entry", Absent)}
    /\ pc[p] = "init_fill" => mem[p] = {}
    /\ pc[p] = "idle" => cmd[p] = NoCommand

DecidedInv == \A p \in Procs : Decided(p)

StoreInv ==
    TypeInv /\ WriterInv /\ MemSound /\ IndexSound /\ OneLookup /\ DecidedInv

\* A step of p alone.
OnlyActs(p) ==
    \A q \in Procs \ {p} :
       pc'[q] = pc[q] /\ cmd'[q] = cmd[q] /\ mem'[q] = mem[q] /\ result'[q] = result[q]

LEMMA CommandsActAlone ==
    ASSUME TypeInv, NEW p \in Procs, Open(p) \/ Advance(p)
    PROVE  OnlyActs(p)
<1>1. \A q \in Procs \ {p} : pc'[q] = pc[q] /\ cmd'[q] = cmd[q] /\ mem'[q] = mem[q]
  BY OnlyActor
<1>2. \A q \in Procs \ {p} : result'[q] = result[q]
  BY DEF TypeInv, TypeOK, Open, Advance, InitTruncate, InitFill, AddRejected, LoadFails,
     AddConflict, AddLoad, RemoveLoad, ResolveNoMatch, ResolveLoad, ListLoad, MakeDirs,
     MakeVersionDir, ArchiveTruncate, ArchiveFill, Unlink, PruneVersion, PruneName,
     IndexTruncate, IndexFill, ResolveRead, Continue, Finish
<1> QED
  BY <1>1, <1>2 DEF OnlyActs

\* A process that writes the index is the only writer, so what the others have
\* decided does not depend on it.
LEMMA OthersDecided ==
    ASSUME TypeInv, WriterInv, DecidedInv, NEW p \in Procs,
           Writer(p) \/ index' = index, NEW q \in Procs \ {p},
           pc'[q] = pc[q], cmd'[q] = cmd[q], mem'[q] = mem[q], result'[q] = result[q]
    PROVE  Decided(q)'
<1>1. Decided(q)
  BY DEF DecidedInv
<1>2. CASE index' = index
  BY <1>1, <1>2 DEF Decided, Target, IndexReadable, Added, Conflicts
<1>3. CASE Writer(p)
  <2>1. ~Writer(q)
    BY <1>3 DEF WriterInv, OneWriter
  <2>2. \/ pc[q] \in {"idle", "load", "read_archive"}
    BY <2>1 DEF Writer, TypeInv, TypeOK, CmdOK, Labels, AddCommand, RemoveCommand
  <2> QED
    BY <1>1, <2>2 DEF Decided
<1> QED
  BY <1>2, <1>3

LEMMA ActorDecided ==
    ASSUME TypeInv, WriterInv, DecidedInv, NEW p \in Procs, Open(p) \/ Advance(p)
    PROVE  Decided(p)'
<1>1. Decided(p) /\ (Writer(p) => Stage(p))
  BY DEF DecidedInv, WriterInv
<1>2. cmd[p] \in Command \union {NoCommand} /\ Target(p)' = IF cmd'[p].op = "add" THEN KeyOf(cmd'[p].archive) ELSE KeyOf(cmd'[p])
  BY DEF TypeInv, TypeOK, Target
<1>3. CASE Open(p) \/ InitTruncate(p) \/ InitFill(p) \/ ResolveLoad(p)
  BY <1>3 DEF Open, InitTruncate, InitFill, ResolveLoad, Continue, Decided, TypeInv, TypeOK
<1>4. CASE \/ AddRejected(p) \/ LoadFails(p) \/ AddConflict(p) \/ ResolveNoMatch(p)
           \/ ListLoad(p) \/ ResolveRead(p) \/ IndexFill(p)
  BY <1>4 DEF AddRejected, LoadFails, AddConflict, ResolveNoMatch, ListLoad, ResolveRead,
     IndexFill, Finish, Decided, TypeInv, TypeOK
<1>5. CASE AddLoad(p)
  BY <1>5 DEF AddLoad, Continue, Decided, IndexReadable, Added, Conflicts, Target, store,
     TypeInv, TypeOK
<1>6. CASE RemoveLoad(p)
  <2>1. /\ cmd'[p] = cmd[p] /\ cmd[p].op = "remove" /\ index' = index /\ IndexReadable
        /\ mem'[p] = Without(index, Target(p)) /\ pc'[p] \in {"index_truncate", "unlink"}
        /\ result'[p] = Result(IF Without(index, Target(p)) = index
                               THEN "no_entry" ELSE "ok", Absent)
    BY <1>6 DEF RemoveLoad, Continue, store, TypeInv, TypeOK
  <2>2. Without(index, Target(p)) = index <=> Target(p) \notin Keys(index)
    BY DEF Without, Keys
  <2> QED
    BY <2>1, <2>2 DEF Decided, IndexReadable, Target
<1>7. CASE \/ MakeDirs(p) \/ MakeVersionDir(p) \/ ArchiveTruncate(p) \/ ArchiveFill(p)
           \/ Unlink(p) \/ PruneVersion(p) \/ PruneName(p)
  <2>1. CASE pc'[p] = "idle"
    BY <1>7, <2>1 DEF MakeDirs, MakeVersionDir, ArchiveTruncate, ArchiveFill, Unlink,
       PruneVersion, PruneName, Continue, Finish, Decided, TypeInv, TypeOK
  <2>2. CASE pc'[p] # "idle"
    <3>1. /\ index' = index /\ cmd'[p] = cmd[p] /\ mem'[p] = mem[p] /\ result'[p] = result[p]
          /\ pc'[p] \in {"make_version_dir", "archive_truncate", "archive_fill",
                         "prune_version", "prune_name", "index_truncate"}
          /\ pc[p] \in {"make_dirs", "make_version_dir", "archive_truncate", "archive_fill",
                        "unlink", "prune_version", "prune_name"}
      BY <1>7, <2>2 DEF MakeDirs, MakeVersionDir, ArchiveTruncate, ArchiveFill, Unlink,
         PruneVersion, PruneName, Continue, Finish, TypeInv, TypeOK
    <3> QED
      BY <1>1, <3>1 DEF Decided, IndexReadable, Added, Conflicts, Target
  <2> QED
    BY <2>1, <2>2
<1>8. CASE IndexTruncate(p)
  <2>1. /\ pc[p] = "index_truncate" /\ pc'[p] = "index_fill" /\ result'[p] = result[p]
        /\ cmd[p].op \in {"add", "remove"}
    BY <1>8 DEF IndexTruncate, Continue, TypeInv, TypeOK, CmdOK, AddCommand, RemoveCommand
  <2> QED
    BY <1>1, <2>1 DEF Decided
<1> QED
  BY <1>3, <1>4, <1>5, <1>6, <1>7, <1>8 DEF Advance

LEMMA NextStoreInv ==
    ASSUME MaxFaults = 0
    PROVE  StoreInv /\ [Next /\ OneWriter']_vars => StoreInv'
<1> SUFFICES ASSUME StoreInv, [Next /\ OneWriter']_vars
             PROVE  StoreInv'
  OBVIOUS
<1>1. TypeInv' /\ MemSound' /\ IndexSound' /\ OneLookup' /\ WriterInv'
  BY NextTypeInv, NextSound, NextLookup, NextWriterInv DEF StoreInv
<1>2. ASSUME NEW p \in Procs, Open(p) \/ Advance(p)
      PROVE  DecidedInv'
  <2>1. Writer(p) \/ index' = index
    BY <1>2 DEF Writer, Open, Advance, InitTruncate, InitFill, AddRejected, LoadFails,
       AddConflict, AddLoad, RemoveLoad, ResolveNoMatch, ResolveLoad, ListLoad, MakeDirs,
       MakeVersionDir, ArchiveTruncate, ArchiveFill, Unlink, PruneVersion, PruneName,
       IndexTruncate, IndexFill, ResolveRead, store, StoreInv, TypeInv, CmdOK,
       AddCommand, RemoveCommand
  <2>2. \A q \in Procs \ {p} :
           pc'[q] = pc[q] /\ cmd'[q] = cmd[q] /\ mem'[q] = mem[q] /\ result'[q] = result[q]
    BY <1>2, CommandsActAlone DEF StoreInv, OnlyActs
  <2>3. \A q \in Procs \ {p} : Decided(q)'
    BY <2>1, <2>2, OthersDecided DEF StoreInv
  <2> QED
    BY <1>2, <2>3, ActorDecided DEF StoreInv, DecidedInv
<1>3. ~Fault
  BY DEF Fault, Crash, RemovalFails, Tamper, StoreInv, WriterInv
<1>4. ASSUME UNCHANGED vars
      PROVE  DecidedInv'
  BY <1>4 DEF vars, StoreInv, DecidedInv, Decided, IndexReadable, Added, Conflicts, Target
<1> QED
  BY <1>1, <1>2, <1>3, <1>4 DEF Next, StoreInv

LEMMA InitStoreInv == Init => StoreInv
BY InitTypeInv, InitSound, InitLookup, InitWriterInv
   DEF StoreInv, DecidedInv, Decided, Init

-----------------------------------------------------------------------------
(* The refinement mapping.                                                 *)

\* An entry of a sound index is that of one archive.
LEMMA EntryIsOne ==
    ASSUME NEW entries, Sound(entries), NEW e \in entries
    PROVE  \E a \in Archives :
              /\ Acceptable(a) /\ EntryOf(a) = e /\ KeyOf(a) = KeyOf(e) /\ KeyOf(a) \in Key
              /\ \A b \in Archives : EntryOf(b) = e => b = a
<1>1. PICK a \in Archives : Acceptable(a) /\ e = EntryOf(a)
  BY DEF Sound, Verified
<1>2. \A b \in Archives : EntryOf(b) = e => b = a
  BY <1>1, DigestAssumption DEF EntryOf
<1> QED
  BY <1>1, <1>2, EntryOfAccepted

\* What the map holds for k, when the entries are sound.
LEMMA RecordedIs ==
    ASSUME NEW entries, Sound(entries), NEW k \in Key
    PROVE  /\ k \notin Keys(entries) => Pick(Recorded(entries, k)) = Absent
           /\ \A a \in Archives : KeyOf(a) = k /\ EntryOf(a) \in entries
                                  => Pick(Recorded(entries, k)) = a /\ a # Absent
           /\ k \in Keys(entries) <=> Pick(Recorded(entries, k)) # Absent
<1>1. ASSUME k \notin Keys(entries)
      PROVE  Recorded(entries, k) = {}
  <2>1. ASSUME NEW a \in Recorded(entries, k)
        PROVE  KeyOf(EntryOf(a)) = k /\ EntryOf(a) \in entries
    BY <2>1 DEF Recorded, KeyOf, EntryOf
  <2> QED
    BY <1>1, <2>1 DEF Keys
<1>2. ASSUME NEW a \in Archives, KeyOf(a) = k, EntryOf(a) \in entries
      PROVE  Recorded(entries, k) = {a} /\ a # Absent
  <2>1. ASSUME NEW b \in Recorded(entries, k)
        PROVE  b = a
    <3>1. b \in Archives /\ EntryOf(b) \in entries /\ KeyOf(b) = k
      BY DEF Recorded
    <3>2. KeyOf(EntryOf(b)) = KeyOf(EntryOf(a))
      BY <1>2, <3>1 DEF KeyOf, EntryOf
    <3>3. EntryOf(b) = EntryOf(a)
      BY <1>2, <3>1, <3>2 DEF Sound, Unique
    <3> QED
      BY <3>1, <3>3, DigestAssumption DEF EntryOf
  <2>2. a \in Recorded(entries, k)
    BY <1>2 DEF Recorded
  <2>3. a # Absent
    BY ContentAssumption DEF Damaged
  <2> QED
    BY <2>1, <2>2, <2>3
<1>3. ASSUME k \in Keys(entries)
      PROVE  \E a \in Archives : KeyOf(a) = k /\ EntryOf(a) \in entries
  BY <1>3, EntryIsOne DEF Keys
<1>4. \A a : Pick({a}) = a
  BY DEF Pick
<1>5. Pick({}) = Absent
  BY DEF Pick
<1> QED
  BY <1>1, <1>2, <1>3, <1>4, <1>5

LEMMA RecordedLocal ==
    ASSUME NEW a, NEW b, NEW k,
           {e \in a : KeyOf(e) = k} = {e \in b : KeyOf(e) = k}
    PROVE  Recorded(a, k) = Recorded(b, k)
<1>1. \A x : KeyOf(EntryOf(x)) = KeyOf(x)
  BY DEF KeyOf, EntryOf
<1>2. \A x : KeyOf(x) = k => (EntryOf(x) \in a <=> EntryOf(x) \in b)
  BY <1>1
<1> QED
  BY <1>2 DEF Recorded

\* In the middle of write_index the entries are the writer's.
LEMMA CommittedIsWritten ==
    ASSUME TypeInv, WriterInv, NEW p \in Procs, pc[p] \in {"init_fill", "index_fill"}
    PROVE  Committed = mem[p]
<1>1. Writer(p) /\ Stage(p)
  BY DEF Writer, WriterInv, TypeInv, CmdOK, AddCommand, RemoveCommand
<1>2. index = Empty
  BY <1>1 DEF Stage
<1>3. {q \in Procs : pc[q] \in {"init_fill", "index_fill"}} = {p}
  <2>1. \A q \in Procs : pc[q] \in {"init_fill", "index_fill"} => Writer(q)
    BY DEF Writer, TypeInv, CmdOK, AddCommand, RemoveCommand
  <2> QED
    BY <1>1, <2>1 DEF WriterInv, OneWriter
<1>4. Committed = UNION {mem[q] : q \in {p}}
  BY <1>2, <1>3, ContentAssumption DEF Committed, IndexReadable, Damaged
<1> QED
  BY <1>4

\* Who sees a damaged index sees a writer in the middle of write_index.
LEMMA SomeoneWrites ==
    ASSUME TypeInv, WriterInv, index # Absent, ~IndexReadable
    PROVE  \E p \in Procs : pc[p] \in {"init_fill", "index_fill"}
<1>1. PICK p \in Procs : Writer(p)
  BY DEF WriterInv, Quiet
<1>2. Stage(p)
  BY <1>1 DEF WriterInv
<1> QED
  BY <1>1, <1>2 DEF Stage, Writer, TypeInv, TypeOK, CmdOK, Labels, ResolveCommand

\* The actions that leave the index as it is, and its writer where it is.
LEMMA CommittedStays ==
    ASSUME TypeInv, WriterInv, NEW p \in Procs, index' = index,
           \A q \in Procs \ {p} : pc'[q] = pc[q] /\ mem'[q] = mem[q],
           pc[p] \notin {"init_fill", "index_fill"}, pc'[p] \notin {"init_fill", "index_fill"}
    PROVE  Committed' = Committed
<1> DEFINE fill == {q \in Procs : pc[q] \in {"init_fill", "index_fill"}}
<1>1. /\ {q \in Procs : pc'[q] \in {"init_fill", "index_fill"}} = fill
      /\ p \notin fill
  OBVIOUS
<1>2. {mem'[q] : q \in fill} = {mem[q] : q \in fill}
  BY <1>1
<1> HIDE DEF fill
<1> QED
  BY <1>1, <1>2 DEF Committed, IndexReadable, fill

\* decided and result of the map, process by process.
ArchiveIn(entries) == CHOOSE a \in Archives : EntryOf(a) \in entries

DecidedOf(p) ==
    IF pc[p] = "index_fill" THEN result[p]
    ELSE IF pc[p] = "read_archive"
         THEN Result("ok", ArchiveIn(mem[p]))
         ELSE Result("none", Absent)

ResultOf(p) == IF pc[p] = "idle" THEN result[p] ELSE Result("none", Absent)

LEMMA BarsOf ==
    /\ decidedBar = [p \in Procs |-> DecidedOf(p)]
    /\ resultBar = [p \in Procs |-> ResultOf(p)]
    /\ installedBar = [k \in Key |-> Pick(Recorded(Committed, k))]
    /\ decidedBar' = [p \in Procs |-> DecidedOf(p)']
    /\ resultBar' = [p \in Procs |-> ResultOf(p)']
    /\ installedBar' = [k \in Key |-> Pick(Recorded(Committed', k))]
BY DEF decidedBar, resultBar, installedBar, DecidedOf, ResultOf, ArchiveIn, Recorded, Pick

LEMMA BarsStep ==
    ASSUME NEW p \in Procs, OnlyActs(p)
    PROVE  /\ decidedBar' = [decidedBar EXCEPT ![p] = DecidedOf(p)']
           /\ resultBar' = [resultBar EXCEPT ![p] = ResultOf(p)']
           /\ Committed' = Committed => installedBar' = installedBar
<1>1. \A q \in Procs \ {p} : DecidedOf(q)' = DecidedOf(q) /\ ResultOf(q)' = ResultOf(q)
  BY DEF OnlyActs, DecidedOf, ResultOf
<1>2. /\ decidedBar' = [q \in Procs |-> DecidedOf(q)']
      /\ resultBar' = [q \in Procs |-> ResultOf(q)']
  BY BarsOf
<1>3. Committed' = Committed => installedBar' = installedBar
  BY BarsOf
<1> QED
  BY <1>1, <1>2, <1>3, BarsOf

\* A step that the map does not see.
LEMMA Unseen ==
    ASSUME NEW p \in Procs, OnlyActs(p), cmd' = cmd, Committed' = Committed,
           pc[p] \notin {"idle", "index_fill", "read_archive"},
           pc'[p] \notin {"idle", "index_fill", "read_archive"}
    PROVE  UNCHANGED Store!vars
<1>1. DecidedOf(p)' = DecidedOf(p) /\ ResultOf(p)' = ResultOf(p)
  BY DEF DecidedOf, ResultOf
<1>2. decidedBar' = decidedBar /\ resultBar' = resultBar /\ installedBar' = installedBar
  BY <1>1, BarsStep, BarsOf
<1> QED
  BY <1>2 DEF Store!vars

\* A command that returns.
LEMMA ReturnIsReturn ==
    ASSUME TypeInv, NEW p \in Procs, OnlyActs(p), Committed' = Committed,
           NEW status, NEW found, Finish(p, status, found)
    PROVE  Store!Return(p, Store!Outcome(status, found))
<1>1. /\ cmd' = [cmd EXCEPT ![p] = NoCommand] /\ pc'[p] = "idle"
      /\ result'[p] = Result(status, found)
  BY DEF Finish, TypeInv, TypeOK
<1>2. DecidedOf(p)' = Result("none", Absent) /\ ResultOf(p)' = Result(status, found)
  BY <1>1 DEF DecidedOf, ResultOf
<1> QED
  BY <1>1, <1>2, BarsStep DEF Store!Return, Store!Outcome, Store!Undecided, Store!NoCommand,
     NoCommand, Result

\* A command that takes effect.
LEMMA DecideIsDecide ==
    ASSUME TypeInv, NEW p \in Procs, OnlyActs(p), cmd' = cmd,
           pc[p] \notin {"idle", "index_fill", "read_archive"}, pc'[p] # "idle",
           NEW status, NEW found, DecidedOf(p)' = Result(status, found)
    PROVE  Store!Decide(p, status, found)
<1>1. DecidedOf(p) = Result("none", Absent) /\ ResultOf(p)' = ResultOf(p)
  BY DEF DecidedOf, ResultOf
<1>2. decidedBar[p] = Store!Undecided /\ resultBar' = resultBar
  BY <1>1, BarsStep, BarsOf DEF Store!Undecided, Store!Outcome, Result
<1> QED
  BY <1>2, BarsStep DEF Store!Decide, Store!Outcome, Result

\* A command that is loading the index has not taken effect, and the entries
\* it reads are those of the map.
LEMMA LoadingReads ==
    ASSUME StoreInv, NEW p \in Procs, pc[p] = "load"
    PROVE  /\ decidedBar[p] = Store!Undecided
           /\ IndexReadable => Committed = index /\ Sound(index)
           /\ ~IndexReadable => cmd[p].op \in {"resolve", "list"}
<1>1. decidedBar[p] = Store!Undecided
  BY BarsOf DEF DecidedOf, Store!Undecided, Store!Outcome, Result
<1>2. IndexReadable => Committed = index /\ Sound(index)
  BY DEF Committed, IndexReadable, Damaged, StoreInv, IndexSound
<1>3. cmd[p].op \in {"add", "remove"} => IndexReadable
  BY DEF StoreInv, WriterInv, Writer, Stage
<1>4. cmd[p].op \in {"add", "remove", "resolve", "list"}
  BY CommandKind DEF StoreInv, TypeInv, CmdOK, Command
<1> QED
  BY <1>1, <1>2, <1>3, <1>4

\* A step that begins and ends outside write_index and leaves the index alone.
LEMMA QuietStep ==
    ASSUME StoreInv, NEW p \in Procs, Open(p) \/ Advance(p), index' = index,
           pc[p] \notin {"init_fill", "index_fill"}, pc'[p] \notin {"init_fill", "index_fill"}
    PROVE  OnlyActs(p) /\ Committed' = Committed
BY CommandsActAlone, CommittedStays DEF StoreInv, OnlyActs

-----------------------------------------------------------------------------
(* Every step is a step of the map, or one it does not see.                *)

LEMMA OpenIsRequest ==
    ASSUME StoreInv, NEW p \in Procs, Open(p)
    PROVE  Store!Request(p)
<1>1. /\ cmd[p] = NoCommand /\ pc[p] = "idle" /\ pc'[p] \in {"load", "init_truncate"}
      /\ \E c \in Command : cmd' = [cmd EXCEPT ![p] = c]
  BY DEF Open, StoreInv, DecidedInv, Decided, TypeInv, TypeOK
<1>2. OnlyActs(p) /\ Committed' = Committed
  BY <1>1, QuietStep DEF Open, store
<1>3. /\ DecidedOf(p)' = DecidedOf(p) /\ ResultOf(p)' = Result("none", Absent)
  BY <1>1 DEF DecidedOf, ResultOf
<1>4. decidedBar' = decidedBar /\ installedBar' = installedBar
  BY <1>2, <1>3, BarsStep, BarsOf
<1>5. resultBar' = [resultBar EXCEPT ![p] = Store!Undecided]
  BY <1>2, <1>3, BarsStep DEF Store!Undecided, Store!Outcome, Result
<1>6. Store!NoCommand = NoCommand /\ Store!Command = Command
  BY DEF Store!NoCommand, NoCommand, Store!Command, Command, AddCommand, RemoveCommand,
     ResolveCommand, ListCommand
<1> QED
  BY <1>1, <1>4, <1>5, <1>6 DEF Store!Request

\* A command that ends as soon as it has read the index.
LEMMA RefusalsMap ==
    ASSUME StoreInv, NEW p \in Procs, AddRejected(p) \/ LoadFails(p) \/ AddConflict(p)
    PROVE  Store!Refuse(p) \/ Store!ReadFails(p)
<1> DEFINE a == cmd[p].archive
<1>1. /\ pc[p] = "load" /\ pc'[p] = "idle" /\ index' = index
      /\ decidedBar[p] = Store!Undecided /\ cmd[p] \in Command
      /\ IndexReadable => Committed = index /\ Sound(index)
      /\ ~IndexReadable => cmd[p].op \in {"resolve", "list"}
  BY LoadingReads DEF AddRejected, LoadFails, AddConflict, Finish, store, StoreInv, TypeInv,
     TypeOK, CmdOK
<1>2. OnlyActs(p) /\ Committed' = Committed /\ TypeInv
  BY <1>1, QuietStep DEF Advance, StoreInv
<1>3. Store!Acceptable(a) <=> Acceptable(a)
  BY DEF Store!Acceptable, Acceptable
<1>4. CASE AddRejected(p)
  <2>1. Store!Return(p, Store!Outcome("rejected", Absent))
    BY <1>2, <1>4, ReturnIsReturn DEF AddRejected
  <2> QED
    BY <1>1, <1>3, <1>4, <2>1 DEF AddRejected, Store!Refuse
<1>5. CASE LoadFails(p)
  <2>1. Store!Return(p, Store!Outcome("unreadable", Absent))
    BY <1>2, <1>5, ReturnIsReturn DEF LoadFails
  <2> QED
    BY <1>1, <1>5, <2>1 DEF LoadFails, Store!ReadFails
<1>6. CASE AddConflict(p)
  <2>1. Store!Return(p, Store!Outcome("conflict", Absent))
    BY <1>2, <1>6, ReturnIsReturn DEF AddConflict
  <2>2. /\ cmd[p].op = "add" /\ a \in Archives /\ Acceptable(a) /\ ~cmd[p].force
        /\ Target(p) = KeyOf(a) /\ IndexReadable
    BY <1>1, <1>6, CommandKind DEF AddConflict, Conflicts, AddCommand, Target
  <2>3. PICK e \in index : KeyOf(e) = KeyOf(a) /\ e.sha256 # Digest(a)
    BY <1>6, <2>2 DEF AddConflict, Conflicts
  <2>4. PICK b \in Archives : EntryOf(b) = e /\ KeyOf(b) = KeyOf(e)
    BY <1>1, <2>2, EntryIsOne
  <2>5. b # a /\ KeyOf(a) \in Key
    BY <2>2, <2>3, <2>4, EntryOfAccepted DEF EntryOf
  <2>6. installedBar[KeyOf(a)] = b /\ b # Absent
    BY <1>1, <2>2, <2>3, <2>4, <2>5, RecordedIs, BarsOf
  <2>7. Store!KeyOf(a) = KeyOf(a)
    BY DEF Store!KeyOf, KeyOf
  <2> QED
    BY <1>1, <1>3, <2>1, <2>2, <2>5, <2>6, <2>7 DEF Store!Refuse
<1> QED
  BY <1>4, <1>5, <1>6

\* The candidates of a resolve are the versions it matches.
LEMMA CandidatesAreMatches ==
    ASSUME StoreInv, NEW p \in Procs, pc[p] = "load", IndexReadable, cmd[p].op = "resolve"
    PROVE  /\ \A e \in Matches(p) :
                 /\ KeyOf(e) \in Store!Candidates(p)
                 /\ ArchiveIn({e}) = installedBar[KeyOf(e)]
           /\ \A k \in Store!Candidates(p) : \E e \in Matches(p) : KeyOf(e) = k
<1>1. Committed = index /\ Sound(index) /\ index \in SUBSET Entry
  BY LoadingReads DEF StoreInv, TypeInv, TypeOK, IndexReadable
<1>2. Store!Key = Key
  BY DEF Store!Key, Key
<1>3. ASSUME NEW e \in Matches(p)
      PROVE  /\ KeyOf(e) \in Store!Candidates(p)
             /\ ArchiveIn({e}) = installedBar[KeyOf(e)]
  <2>1. e \in index /\ KeyOf(e)[1] = cmd[p].name /\ KeyOf(e)[2] \in cmd[p].req
    BY DEF Matches, KeyOf
  <2>2. PICK a \in Archives : /\ EntryOf(a) = e /\ KeyOf(a) = KeyOf(e) /\ KeyOf(a) \in Key
                              /\ \A b \in Archives : EntryOf(b) = e => b = a
    BY <1>1, <2>1, EntryIsOne
  <2>3. installedBar[KeyOf(e)] = a /\ a # Absent
    BY <1>1, <2>1, <2>2, RecordedIs, BarsOf
  <2>4. ArchiveIn({e}) = a
    BY <2>2 DEF ArchiveIn
  <2> QED
    BY <1>2, <2>1, <2>2, <2>3, <2>4 DEF Store!Candidates
<1>4. ASSUME NEW k \in Store!Candidates(p)
      PROVE  \E e \in Matches(p) : KeyOf(e) = k
  <2>1. k \in Key /\ k[1] = cmd[p].name /\ k[2] \in cmd[p].req /\ installedBar[k] # Absent
    BY <1>2 DEF Store!Candidates
  <2>2. k \in Keys(index)
    BY <1>1, <2>1, RecordedIs, BarsOf
  <2> QED
    BY <2>1, <2>2 DEF Keys, Matches, KeyOf
<1> QED
  BY <1>3, <1>4

LEMMA ReadersMap ==
    ASSUME StoreInv, NEW p \in Procs, ResolveNoMatch(p) \/ ResolveLoad(p) \/ ListLoad(p)
    PROVE  Store!NoMatch(p) \/ Store!Lookup(p) \/ Store!List(p)
<1>1. /\ pc[p] = "load" /\ pc'[p] \in {"idle", "read_archive"} /\ index' = index
      /\ decidedBar[p] = Store!Undecided /\ IndexReadable
  BY LoadingReads DEF ResolveNoMatch, ResolveLoad, ListLoad, Finish, Continue, store,
     StoreInv, TypeInv, TypeOK
<1>2. OnlyActs(p) /\ Committed' = Committed /\ TypeInv
  BY <1>1, QuietStep DEF Advance, StoreInv
<1>3. CASE ResolveNoMatch(p)
  <2>1. Store!Return(p, Store!Outcome("no_match", Absent))
    BY <1>2, <1>3, ReturnIsReturn DEF ResolveNoMatch
  <2>2. Store!Candidates(p) = {}
    BY <1>1, <1>3, CandidatesAreMatches DEF ResolveNoMatch
  <2> QED
    BY <1>1, <1>3, <2>1, <2>2 DEF ResolveNoMatch, Store!NoMatch
<1>4. CASE ListLoad(p)
  <2>1. Store!Return(p, Store!Outcome("ok", Absent))
    BY <1>2, <1>4, ReturnIsReturn DEF ListLoad
  <2> QED
    BY <1>4, <2>1 DEF ListLoad, Store!List
<1>5. CASE ResolveLoad(p)
  <2>1. PICK e \in Matches(p) : /\ \A f \in Matches(p) : f.version <= e.version
                                /\ Continue(p, "read_archive", {e})
    BY <1>5 DEF ResolveLoad
  <2>2. /\ cmd' = cmd /\ pc'[p] = "read_archive" /\ mem'[p] = {e}
        /\ cmd[p].op = "resolve"
    BY <1>2, <1>5, <2>1 DEF ResolveLoad, Continue, TypeInv, TypeOK
  <2>3. DecidedOf(p)' = Result("ok", ArchiveIn({e}))
    BY <2>2 DEF DecidedOf
  <2>4. /\ KeyOf(e) \in Store!Candidates(p)
        /\ ArchiveIn({e}) = installedBar[KeyOf(e)]
        /\ \A c \in Store!Candidates(p) : \E f \in Matches(p) : KeyOf(f) = c
    BY <1>1, <2>2, CandidatesAreMatches
  <2>5. Store!Decide(p, "ok", installedBar[KeyOf(e)])
    BY <1>1, <1>2, <2>2, <2>3, <2>4, DecideIsDecide
  <2>6. \A c \in Store!Candidates(p) : c[2] <= KeyOf(e)[2]
    BY <2>1, <2>4 DEF KeyOf
  <2>7. installedBar' = installedBar
    BY <1>2, BarsStep
  <2> QED
    BY <2>2, <2>4, <2>5, <2>6, <2>7 DEF Store!Lookup
<1> QED
  BY <1>3, <1>4, <1>5

\* Creating the index, deciding and changing the archive tree are not seen; a
\* lone writer finds the directories it has made.
LEMMA UnseenSteps ==
    ASSUME StoreInv, NEW p \in Procs,
           \/ InitTruncate(p) \/ InitFill(p) \/ AddLoad(p) \/ RemoveLoad(p) \/ MakeDirs(p)
           \/ MakeVersionDir(p) \/ ArchiveTruncate(p) \/ ArchiveFill(p)
           \/ Unlink(p) \/ PruneVersion(p) \/ PruneName(p)
    PROVE  UNCHANGED Store!vars
<1>1. OnlyActs(p) /\ TypeInv /\ WriterInv /\ Decided(p)
  BY CommandsActAlone DEF StoreInv, DecidedInv, Advance
<1>2. CASE InitTruncate(p)
  <2>1. Stage(p)
    BY <1>1, <1>2 DEF InitTruncate, WriterInv, Writer
  <2>2. Committed = {}
    BY <1>2, <2>1 DEF InitTruncate, Stage, Committed
  <2>3. /\ index' = Empty /\ pc'[p] = "init_fill" /\ mem'[p] = {} /\ cmd' = cmd
        /\ pc[p] = "init_truncate"
    BY <1>1, <1>2 DEF InitTruncate, Continue, TypeInv, TypeOK
  <2>4. Committed' = {}
    <3>1. \A q \in Procs \ {p} : pc[q] \notin {"init_fill", "index_fill"}
      BY <1>1, <1>2 DEF InitTruncate, WriterInv, OneWriter, Writer, TypeInv, CmdOK,
         AddCommand, RemoveCommand
    <3>2. {q \in Procs : pc'[q] \in {"init_fill", "index_fill"}} = {p}
      BY <1>1, <2>3, <3>1 DEF OnlyActs
    <3>3. Committed' = UNION {mem'[q] : q \in {p}}
      BY <2>3, <3>2, ContentAssumption DEF Committed, IndexReadable, Damaged
    <3> QED
      BY <2>3, <3>3
  <2> QED
    BY <1>1, <2>2, <2>3, <2>4, Unseen
<1>3. CASE InitFill(p)
  <2>1. Stage(p) /\ mem[p] = {}
    BY <1>1, <1>3 DEF InitFill, WriterInv, Writer, Decided
  <2>2. Committed = {}
    BY <1>1, <1>3, <2>1, CommittedIsWritten DEF InitFill
  <2>3. index = Empty
    BY <1>3, <2>1 DEF InitFill, Stage
  <2>4. index' = {} /\ pc'[p] = "load" /\ cmd' = cmd /\ pc[p] = "init_fill"
    BY <1>1, <1>3, <2>3 DEF InitFill, Overwrite, Continue, TypeInv, TypeOK
  <2>5. {} \notin Damaged
    BY ContentAssumption
  <2>6. Committed' = {}
    BY <2>4, <2>5 DEF Committed, IndexReadable, Damaged
  <2> QED
    BY <1>1, <2>2, <2>4, <2>6, Unseen
<1>4. CASE \/ AddLoad(p) \/ RemoveLoad(p) \/ MakeDirs(p) \/ MakeVersionDir(p)
           \/ ArchiveTruncate(p) \/ ArchiveFill(p)
           \/ Unlink(p) \/ PruneVersion(p) \/ PruneName(p)
  <2>1. Writer(p) /\ Stage(p)
    BY <1>1, <1>4 DEF AddLoad, RemoveLoad, MakeDirs, MakeVersionDir, ArchiveTruncate,
       ArchiveFill, Unlink, PruneVersion, PruneName, Writer, WriterInv, TypeInv, CmdOK,
       AddCommand, RemoveCommand
  <2>2. /\ MakeVersionDir(p) => Dir(Home(p)) \in ndirs
        /\ ArchiveTruncate(p) => Home(p) \in vdirs
    BY <2>1 DEF MakeVersionDir, ArchiveTruncate, Stage
  <2>3. /\ index' = index /\ cmd' = cmd
        /\ pc[p] \notin {"idle", "init_fill", "index_fill", "read_archive"}
        /\ pc'[p] \notin {"idle", "init_fill", "index_fill", "read_archive"}
    BY <1>1, <1>4, <2>2 DEF AddLoad, RemoveLoad, MakeDirs, MakeVersionDir, ArchiveTruncate,
       ArchiveFill, Unlink, PruneVersion, PruneName, Continue, store, TypeInv, TypeOK
  <2>4. Committed' = Committed
    BY <1>4, <2>3, QuietStep DEF Advance
  <2> QED
    BY <1>1, <2>3, <2>4, Unseen
<1> QED
  BY <1>2, <1>3, <1>4

\* The truncation of the index is the moment at which a write takes effect.
LEMMA TruncateTakesEffect ==
    ASSUME StoreInv, NEW p \in Procs, IndexTruncate(p)
    PROVE  Store!Install(p) \/ Store!Uninstall(p)
<1> DEFINE k == Target(p)
<1>1. /\ OnlyActs(p) /\ TypeInv /\ WriterInv /\ WriterInv /\ Decided(p) /\ IndexReadable
      /\ cmd[p].op \in {"add", "remove"} /\ pc[p] = "index_truncate"
  BY CommandsActAlone DEF StoreInv, DecidedInv, Decided, Advance, IndexTruncate, TypeInv,
     CmdOK, AddCommand, RemoveCommand
<1>2. /\ cmd' = cmd /\ pc'[p] = "index_fill" /\ mem'[p] = mem[p] /\ index' = Empty
      /\ result' = result
  BY <1>1 DEF IndexTruncate, Continue, TypeInv, TypeOK
<1>3. Committed = index /\ Sound(index) /\ Sound(mem[p]) /\ index \in SUBSET Entry
  BY <1>1 DEF Committed, IndexReadable, Damaged, StoreInv, IndexSound, MemSound, TypeInv,
     TypeOK
<1>4. Committed' = mem[p]
  <2>1. \A q \in Procs \ {p} : pc[q] \notin {"init_fill", "index_fill"}
    BY <1>1 DEF WriterInv, OneWriter, Writer, TypeInv, CmdOK, AddCommand, RemoveCommand
  <2>2. {q \in Procs : pc'[q] \in {"init_fill", "index_fill"}} = {p}
    BY <1>1, <1>2, <2>1 DEF OnlyActs
  <2>3. Committed' = UNION {mem'[q] : q \in {p}}
    BY <1>2, <2>2, ContentAssumption DEF Committed, IndexReadable, Damaged
  <2> QED
    BY <1>2, <2>3
<1>5. DecidedOf(p)' = result[p]
  BY <1>2 DEF DecidedOf
<1>6. ASSUME NEW j \in Key, j # k, mem[p] = Without(index, k) \/
                 (cmd[p].op = "add" /\ Added(p))
      PROVE  installedBar'[j] = installedBar[j]
  <2>1. cmd[p].op = "add" => KeyOf(EntryOf(cmd[p].archive)) = k
    BY DEF Target, KeyOf, EntryOf
  <2>2. {e \in mem[p] : KeyOf(e) = j} = {e \in index : KeyOf(e) = j}
    BY <1>6, <2>1 DEF Without, Added
  <2>3. Recorded(mem[p], j) = Recorded(index, j)
    BY <2>2, RecordedLocal
  <2> QED
    BY <1>3, <1>4, <2>3, BarsOf
<1>7. CASE cmd[p].op = "add"
  <2> DEFINE a == cmd[p].archive
  <2>1. /\ Added(p) /\ ~Conflicts(p) /\ Acceptable(a) /\ result[p] = Result("ok", Absent)
        /\ a \in Archives /\ k = KeyOf(a) /\ k \in Key
    <3>1. cmd[p] \in AddCommand
      BY <1>1, <1>7 DEF TypeInv, CmdOK, RemoveCommand
    <3> QED
      BY <1>1, <1>7, <3>1, EntryOfAccepted DEF Decided, AddCommand, Target
  <2>2. Store!Decide(p, "ok", Absent)
    BY <1>1, <1>2, <1>5, <2>1, DecideIsDecide
  <2>3. installedBar'[k] = a
    BY <1>3, <1>4, <2>1, RecordedIs, BarsOf DEF Added
  <2>4. installedBar' = [installedBar EXCEPT ![k] = a]
    BY <1>6, <1>7, <2>1, <2>3, BarsOf
  <2>5. installedBar[k] \in {Absent, a} \/ cmd[p].force
    <3>1. CASE k \notin Keys(index)
      BY <1>3, <2>1, <3>1, RecordedIs, BarsOf
    <3>2. CASE k \in Keys(index) /\ ~cmd[p].force
      <4>1. PICK e \in index : KeyOf(e) = k
        BY <3>2 DEF Keys
      <4>2. e.sha256 = Digest(a)
        BY <2>1, <3>2, <4>1 DEF Conflicts
      <4>3. PICK b \in Archives : EntryOf(b) = e /\ KeyOf(b) = k
        BY <1>3, <4>1, EntryIsOne
      <4>4. b = a
        BY <2>1, <4>2, <4>3, DigestAssumption DEF EntryOf
      <4> QED
        BY <1>3, <2>1, <4>3, <4>4, RecordedIs, BarsOf
    <3> QED
      BY <3>1, <3>2
  <2>6. Store!KeyOf(a) = KeyOf(a) /\ Store!Acceptable(a)
    BY <2>1 DEF Store!KeyOf, KeyOf, Store!Acceptable, Acceptable
  <2> QED
    BY <1>7, <2>1, <2>2, <2>4, <2>5, <2>6 DEF Store!Install
<1>8. CASE cmd[p].op = "remove"
  <2>1. /\ k = KeyOf(cmd[p]) /\ k \in Key /\ mem[p] = Without(index, k)
        /\ result[p] = Result(IF k \in Keys(index) THEN "ok" ELSE "no_entry", Absent)
    <3>1. cmd[p] \in RemoveCommand
      BY <1>1, <1>8 DEF TypeInv, CmdOK, AddCommand
    <3>2. k = KeyOf(cmd[p]) /\ k \in Key
      BY <1>8, <3>1 DEF Target, RemoveCommand, KeyOf, Key
    <3> QED
      BY <1>1, <1>8, <3>2 DEF Decided
  <2>2. Store!Decide(p, IF k \in Keys(index) THEN "ok" ELSE "no_entry", Absent)
    BY <1>1, <1>2, <1>5, <2>1, DecideIsDecide
  <2>3. k \notin Keys(mem[p])
    BY <2>1 DEF Keys, Without
  <2>4. installedBar'[k] = Absent
    BY <1>3, <1>4, <2>1, <2>3, RecordedIs, BarsOf
  <2>5. installedBar' = [installedBar EXCEPT ![k] = Absent]
    BY <1>6, <2>1, <2>4, BarsOf
  <2>6. (installedBar[k] = Absent) <=> k \notin Keys(index)
    BY <1>3, <2>1, RecordedIs, BarsOf
  <2>7. Store!KeyOf(cmd[p]) = k
    BY <2>1 DEF Store!KeyOf, KeyOf
  <2>8. Store!Decide(p, IF installedBar[k] = Absent THEN "no_entry" ELSE "ok", Absent)
    BY <2>2, <2>6
  <2> QED
    BY <1>8, <2>5, <2>7, <2>8 DEF Store!Uninstall
<1> QED
  BY <1>1, <1>7, <1>8

LEMMA FillResponds ==
    ASSUME StoreInv, NEW p \in Procs, IndexFill(p)
    PROVE  Store!Respond(p)
<1>1. OnlyActs(p) /\ TypeInv /\ WriterInv /\ Decided(p) /\ pc[p] = "index_fill"
  BY CommandsActAlone DEF StoreInv, DecidedInv, Advance, IndexFill
<1>2. Writer(p) /\ Stage(p)
  BY <1>1 DEF Writer, WriterInv, TypeInv, CmdOK, AddCommand, RemoveCommand
<1>3. index = Empty
  BY <1>1, <1>2 DEF Stage
<1>4. index' = mem[p] /\ mem[p] \notin Damaged
  BY <1>1, <1>3, ContentAssumption DEF IndexFill, Overwrite, TypeInv, TypeOK
<1>5. Committed = mem[p] /\ Committed' = mem[p]
  BY <1>1, <1>4, CommittedIsWritten DEF Committed, IndexReadable, Damaged
<1>6. Finish(p, result[p].status, Absent)
  BY DEF IndexFill
<1>7. Store!Return(p, Store!Outcome(result[p].status, Absent))
  BY <1>1, <1>5, <1>6, ReturnIsReturn
<1>8. /\ result[p] \in {Result("ok", Absent), Result("no_entry", Absent)}
      /\ decidedBar[p] = result[p]
  BY <1>1, BarsOf DEF Decided, DecidedOf
<1>9. /\ Store!Outcome(result[p].status, Absent) = decidedBar[p]
      /\ decidedBar[p] # Store!Undecided
  BY <1>8 DEF Store!Outcome, Store!Undecided, Result
<1> QED
  BY <1>7, <1>9 DEF Store!Respond

LEMMA ReadResponds ==
    ASSUME StoreInv, NEW p \in Procs, ResolveRead(p)
    PROVE  Store!Respond(p) \/ Store!ReadFails(p)
<1>1. /\ TypeInv /\ pc[p] = "read_archive" /\ index' = index
      /\ cmd[p].op = "resolve"
  BY DEF StoreInv, TypeInv, CmdOK, ResolveRead, store, ResolveCommand
<1>2. PICK e : mem[p] = {e}
  BY <1>1 DEF StoreInv, OneLookup
<1> DEFINE bytes == files[Place(KeyOf(e))]
<1>3. IF bytes = Absent THEN Finish(p, "io_error", Absent)
      ELSE IF bytes \in Archives /\ Digest(bytes) = e.sha256
           THEN Finish(p, "ok", bytes)
           ELSE Finish(p, "modified", Absent)
  BY <1>2 DEF ResolveRead
<1>4. pc'[p] = "idle"
  BY <1>1, <1>3 DEF Finish, TypeInv, TypeOK
<1>5. OnlyActs(p) /\ Committed' = Committed
  BY <1>1, <1>4, QuietStep DEF Advance
<1>6. CASE bytes # Absent /\ bytes \in Archives /\ Digest(bytes) = e.sha256
  <2>1. Store!Return(p, Store!Outcome("ok", bytes))
    BY <1>1, <1>3, <1>5, <1>6, ReturnIsReturn
  <2>2. PICK a \in Archives : EntryOf(a) = e /\ \A b \in Archives : EntryOf(b) = e => b = a
    <3>1. Sound(mem[p]) /\ e \in mem[p]
      BY <1>2 DEF StoreInv, MemSound
    <3> QED
      BY <3>1, EntryIsOne
  <2>3. bytes = a
    BY <1>6, <2>2, DigestAssumption DEF EntryOf
  <2>4. ArchiveIn(mem[p]) = a
    BY <1>2, <2>2 DEF ArchiveIn
  <2>5. decidedBar[p] = Result("ok", bytes)
    BY <1>1, <2>3, <2>4, BarsOf DEF DecidedOf
  <2>6. /\ Store!Outcome("ok", bytes) = decidedBar[p]
        /\ decidedBar[p] # Store!Undecided
    BY <2>5 DEF Store!Outcome, Store!Undecided, Result
  <2> QED
    BY <2>1, <2>6 DEF Store!Respond
<1>7. CASE ~(bytes # Absent /\ bytes \in Archives /\ Digest(bytes) = e.sha256)
  <2>1. PICK status \in {"io_error", "modified"} : Finish(p, status, Absent)
    BY <1>3, <1>7
  <2>2. Store!Return(p, Store!Outcome(status, Absent))
    BY <1>1, <1>5, <2>1, ReturnIsReturn
  <2> QED
    BY <1>1, <2>2 DEF Store!ReadFails
<1> QED
  BY <1>6, <1>7

LEMMA InitMaps == Init => Store!Init
<1> SUFFICES ASSUME Init
             PROVE  Store!Init
  OBVIOUS
<1>1. Committed = {}
  BY DEF Init, Committed
<1>2. \A k : Pick(Recorded({}, k)) = Absent
  BY DEF Recorded, Pick
<1>3. installedBar = [k \in Key |-> Absent]
  BY <1>1, <1>2, BarsOf
<1>4. decidedBar = [p \in Procs |-> Result("none", Absent)]
      /\ resultBar = [p \in Procs |-> Result("none", Absent)]
  BY BarsOf DEF Init, DecidedOf, ResultOf
<1> QED
  BY <1>3, <1>4 DEF Init, Store!Init, Store!Key, Key, Store!Undecided, Store!Outcome, Result,
     Store!NoCommand, NoCommand

LEMMA NextMaps ==
    ASSUME MaxFaults = 0
    PROVE  StoreInv /\ [Next /\ OneWriter']_vars => [Store!Next]_(Store!vars)
<1> SUFFICES ASSUME StoreInv, [Next /\ OneWriter']_vars
             PROVE  Store!Next \/ UNCHANGED Store!vars
  OBVIOUS
<1>1. ASSUME NEW p \in Procs, Open(p) \/ Advance(p)
      PROVE  Store!Next \/ UNCHANGED Store!vars
  BY <1>1, OpenIsRequest, RefusalsMap, ReadersMap, UnseenSteps, TruncateTakesEffect,
     FillResponds, ReadResponds DEF Advance, Store!Next
<1>2. ~Fault
  BY DEF Fault, Crash, RemovalFails, Tamper, StoreInv, WriterInv
<1>3. ASSUME UNCHANGED vars
      PROVE  UNCHANGED Store!vars
  <2>1. /\ index' = index /\ pc' = pc /\ cmd' = cmd /\ mem' = mem /\ result' = result
    BY <1>3 DEF vars
  <2>2. Committed' = Committed
    BY <2>1 DEF Committed, IndexReadable
  <2>3. \A p \in Procs : DecidedOf(p)' = DecidedOf(p) /\ ResultOf(p)' = ResultOf(p)
    BY <2>1 DEF DecidedOf, ResultOf
  <2>4. decidedBar' = decidedBar /\ resultBar' = resultBar /\ installedBar' = installedBar
    BY <2>2, <2>3, BarsOf
  <2> QED
    BY <2>1, <2>4 DEF Store!vars
<1> QED
  BY <1>1, <1>2, <1>3 DEF Next

\* If no two commands write at once, and none is killed, the registry is the
\* map of SkillStore: every command takes effect at one moment between its
\* start and its return, and what it answers is what the map held then
\* (registry.rs:119-247).
THEOREM RegistryImplementsStore ==
    ASSUME MaxFaults = 0
    PROVE  SingleWriterSpec => ImplementsStore
<1>1. Init => StoreInv /\ Store!Init
  BY InitStoreInv, InitMaps
<1>2. StoreInv /\ [Next /\ OneWriter']_vars => StoreInv' /\ [Store!Next]_(Store!vars)
  BY NextStoreInv, NextMaps
<1> QED
  BY <1>1, <1>2, PTL DEF SingleWriterSpec, ImplementsStore, Store!Spec

=============================================================================
