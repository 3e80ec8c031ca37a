--------------------------- MODULE RegistryProofs ---------------------------
(***************************************************************************)
(* Theorems about Registry, for any number of processes, names, versions,  *)
(* archives, crashes and edits.                                            *)
(***************************************************************************)
EXTENDS Registry, TLAPS

\* What the program counter tells of the command: only an add whose archive
\* was accepted writes an archive, only a remove unlinks one.
CmdOK ==
    \A p \in Procs :
       /\ pc[p] # "idle" => cmd[p] \in Command
       /\ pc[p] \in {"make_dirs", "make_version_dir", "archive_truncate", "archive_fill"}
          => cmd[p] \in AddCommand /\ Acceptable(cmd[p].archive)
       /\ pc[p] \in {"unlink", "prune_version", "prune_name"} => cmd[p] \in RemoveCommand
       /\ pc[p] \in {"index_truncate", "index_fill"} => cmd[p] \in AddCommand \union RemoveCommand
       /\ pc[p] = "read_archive" => cmd[p] \in ResolveCommand

TypeInv == TypeOK /\ CmdOK

\* The part of TypeInv that Continue and Finish are about.
ControlTyped ==
    /\ CmdOK
    /\ pc \in [Procs -> Labels]
    /\ mem \in [Procs -> SUBSET Entry]
    /\ cmd \in [Procs -> Command \union {NoCommand}]
    /\ faults \in 0..MaxFaults

-----------------------------------------------------------------------------
(* Operators.                                                              *)

\* The entry of an accepted archive is typed, and filed under its own key.
LEMMA EntryOfAccepted ==
    ASSUME NEW a \in Archives, Acceptable(a)
    PROVE  /\ EntryOf(a) \in Entry
           /\ KeyOf(a) \in Key
           /\ KeyOf(EntryOf(a)) = KeyOf(a)
BY ArchivesAssumption DEF Acceptable, EntryOf, Entry, KeyOf, Key

\* The kind of a command is told by its op.
LEMMA CommandKind ==
    ASSUME NEW c \in Command
    PROVE  /\ c.op = "add" <=> c \in AddCommand
           /\ c.op = "remove" <=> c \in RemoveCommand
           /\ c.op = "resolve" <=> c \in ResolveCommand
           /\ c.op = "list" <=> c \in ListCommand
BY DEF Command, AddCommand, RemoveCommand, ResolveCommand, ListCommand

\* What fs::write can leave is the new content or garbage.
LEMMA OverwriteLeaves ==
    ASSUME NEW old, NEW new, NEW c \in Overwrite(old, new)
    PROVE  c \in {new, Garbage}
BY DEF Overwrite

\* A command that writes the archive tree is about a name and a version.
LEMMA TargetIsKey ==
    ASSUME TypeInv, NEW p \in Procs,
           pc[p] \in {"make_dirs", "make_version_dir", "archive_truncate",
                      "archive_fill", "unlink", "prune_version", "prune_name"}
    PROVE  Target(p) \in Key /\ Home(p) \in Places /\ Dir(Home(p)) \in Dirs
<1> SUFFICES Target(p) \in Key
  BY PlacesAssumption DEF Home, Dirs
<1>1. CASE pc[p] \in {"unlink", "prune_version", "prune_name"}
  BY <1>1, CommandKind DEF TypeInv, CmdOK, Target, RemoveCommand, KeyOf, Key
<1>2. CASE pc[p] \notin {"unlink", "prune_version", "prune_name"}
  <2>1. cmd[p] \in AddCommand /\ Acceptable(cmd[p].archive)
    BY <1>2 DEF TypeInv, CmdOK
  <2>2. cmd[p].op = "add" /\ cmd[p].archive \in Archives
    BY <2>1 DEF AddCommand
  <2> QED
    BY <2>1, <2>2, EntryOfAccepted DEF Target
<1> QED
  BY <1>1, <1>2

\* What a dropped error changes: the label, and nothing in the store.
LEMMA RemovalFailsStep ==
    ASSUME NEW p \in Procs, RemovalFails(p)
    PROVE  /\ pc[p] \in {"unlink", "prune_version", "prune_name"}
           /\ \E label \in {"prune_version", "prune_name", "index_truncate"} :
                 pc' = [pc EXCEPT ![p] = label]
           /\ faults < MaxFaults /\ faults' = faults + 1
           /\ UNCHANGED <<index, files, ndirs, vdirs, live, cmd, mem, result>>
BY DEF RemovalFails, Skip, store

-----------------------------------------------------------------------------
(* Type correctness.                                                       *)

LEMMA InitTypeInv == Init => TypeInv
BY FaultsAssumption DEF Init, TypeInv, TypeOK, CmdOK, Damaged, Content, Dirs, Labels,
   Statuses, Result, NoCommand

\* A step that goes on within a command keeps the types, if the label and
\* the entries fit.
LEMMA ContinueTypeInv ==
    ASSUME TypeInv, NEW p \in Procs, NEW label \in Labels, NEW held \in SUBSET Entry,
           Continue(p, label, held),
           label \in {"make_dirs", "make_version_dir", "archive_truncate", "archive_fill"}
              => cmd[p] \in AddCommand /\ Acceptable(cmd[p].archive),
           label \in {"unlink", "prune_version", "prune_name"} => cmd[p] \in RemoveCommand,
           label \in {"index_truncate", "index_fill"} => cmd[p] \in AddCommand \union RemoveCommand,
           label = "read_archive" => cmd[p] \in ResolveCommand,
           cmd[p] \in Command
    PROVE  ControlTyped'
BY DEF ControlTyped, TypeInv, TypeOK, CmdOK, Continue

LEMMA FinishTypeInv ==
    ASSUME TypeInv, NEW p \in Procs, NEW status \in Statuses, NEW found \in Content,
           Finish(p, status, found)
    PROVE  ControlTyped' /\ result' \in [Procs -> [status : Statuses, found : Content]]
BY DEF ControlTyped, TypeInv, TypeOK, CmdOK, Finish, Labels, Result

-----------------------------------------------------------------------------
(* Every step keeps the types.                                             *)

LEMMA OpenTypeInv ==
    ASSUME TypeInv, NEW p \in Procs, Open(p)
    PROVE  TypeInv'
BY DEF TypeInv, TypeOK, CmdOK, Open, store, Labels, Statuses, Content, Damaged, Result

LEMMA InitIndexTypeInv ==
    ASSUME TypeInv, NEW p \in Procs, InitTruncate(p) \/ InitFill(p)
    PROVE  TypeInv'
<1>1. CASE InitTruncate(p)
  <2>1. Continue(p, "init_fill", {}) /\ cmd[p] \in Command
    BY <1>1 DEF InitTruncate, TypeInv, CmdOK
  <2>2. ControlTyped'
    BY <2>1, ContinueTypeInv DEF Labels
  <2> QED
    BY <1>1, <2>2 DEF InitTruncate, ControlTyped, TypeInv, TypeOK, Damaged
<1>2. CASE InitFill(p)
  <2>1. Continue(p, "load", {}) /\ cmd[p] \in Command
    BY <1>2 DEF InitFill, TypeInv, CmdOK
  <2>2. ControlTyped'
    BY <2>1, ContinueTypeInv DEF Labels
  <2>3. index' \in Damaged \union SUBSET Entry
    BY <1>2, OverwriteLeaves DEF InitFill, Damaged
  <2> QED
    BY <1>2, <2>2, <2>3 DEF InitFill, ControlTyped, TypeInv, TypeOK
<1> QED
  BY <1>1, <1>2

\* Commands that return as soon as they have read the index.
LEMMA ReturnAtLoadTypeInv ==
    ASSUME TypeInv, NEW p \in Procs,
           \/ AddRejected(p) \/ LoadFails(p) \/ AddConflict(p)
           \/ ResolveNoMatch(p) \/ ListLoad(p)
    PROVE  TypeInv'
<1>1. PICK status \in Statuses : Finish(p, status, Absent)
  BY DEF AddRejected, LoadFails, AddConflict, ResolveNoMatch, ListLoad, Statuses
<1>2. UNCHANGED store
  BY DEF AddRejected, LoadFails, AddConflict, ResolveNoMatch, ListLoad
<1>3. Absent \in Content
  BY DEF Content, Damaged
<1> QED
  BY <1>1, <1>2, <1>3, FinishTypeInv DEF ControlTyped, TypeInv, TypeOK, store

LEMMA AddLoadTypeInv ==
    ASSUME TypeInv, NEW p \in Procs, AddLoad(p)
    PROVE  TypeInv'
<1> DEFINE held == Without(index, Target(p)) \union {EntryOf(cmd[p].archive)}
<1>1. cmd[p] \in AddCommand /\ Acceptable(cmd[p].archive) /\ cmd[p].archive \in Archives
  BY CommandKind DEF AddLoad, TypeInv, CmdOK, AddCommand
<1>2. held \in SUBSET Entry
  BY <1>1, EntryOfAccepted DEF AddLoad, IndexReadable, Without, TypeInv, TypeOK
<1>3. Continue(p, "make_dirs", held) /\ cmd[p] \in Command
  BY <1>1 DEF AddLoad, Command
<1>4. ControlTyped'
  <2> HIDE DEF held
  <2> QED BY <1>1, <1>2, <1>3, ContinueTypeInv DEF Labels
<1>5. result' \in [Procs -> [status : Statuses, found : Content]]
  BY DEF AddLoad, TypeInv, TypeOK, Result, Statuses, Content, Damaged
<1> QED
  BY <1>4, <1>5 DEF AddLoad, ControlTyped, TypeInv, TypeOK, store

LEMMA RemoveLoadTypeInv ==
    ASSUME TypeInv, NEW p \in Procs, RemoveLoad(p)
    PROVE  TypeInv'
<1> DEFINE kept == Without(index, Target(p))
           label == IF kept = index THEN "index_truncate" ELSE "unlink"
<1>1. cmd[p] \in RemoveCommand /\ cmd[p] \in Command
  BY CommandKind DEF RemoveLoad, TypeInv, CmdOK
<1>2. kept \in SUBSET Entry
  BY DEF RemoveLoad, IndexReadable, Without, TypeInv, TypeOK
<1>3. Continue(p, label, kept)
  BY DEF RemoveLoad
<1>4. ControlTyped'
  <2>1. label \in {"index_truncate", "unlink"}
    OBVIOUS
  <2> HIDE DEF kept, label
  <2> QED BY <1>1, <1>2, <1>3, <2>1, ContinueTypeInv DEF Labels
<1>5. result' \in [Procs -> [status : Statuses, found : Content]]
  BY DEF RemoveLoad, TypeInv, TypeOK, Result, Statuses, Content, Damaged
<1> QED
  BY <1>4, <1>5 DEF RemoveLoad, ControlTyped, TypeInv, TypeOK, store

LEMMA ResolveLoadTypeInv ==
    ASSUME TypeInv, NEW p \in Procs, ResolveLoad(p)
    PROVE  TypeInv'
<1>1. PICK e \in Matches(p) : Continue(p, "read_archive", {e})
  BY DEF ResolveLoad
<1>2. cmd[p] \in ResolveCommand /\ cmd[p] \in Command
  BY CommandKind DEF ResolveLoad, TypeInv, CmdOK
<1>3. {e} \in SUBSET Entry
  BY DEF ResolveLoad, IndexReadable, Matches, TypeInv, TypeOK
<1>4. ControlTyped'
  BY <1>1, <1>2, <1>3, ContinueTypeInv DEF Labels
<1> QED
  BY <1>4 DEF ResolveLoad, ControlTyped, TypeInv, TypeOK, store

LEMMA MakeDirsTypeInv ==
    ASSUME TypeInv, NEW p \in Procs, MakeDirs(p) \/ MakeVersionDir(p)
    PROVE  TypeInv'
<1>1. /\ cmd[p] \in Command /\ cmd[p] \in AddCommand /\ Acceptable(cmd[p].archive)
      /\ mem[p] \in SUBSET Entry
  BY DEF MakeDirs, MakeVersionDir, TypeInv, TypeOK, CmdOK, Command
<1>2. Home(p) \in Places /\ Dir(Home(p)) \in Dirs
  BY TargetIsKey DEF MakeDirs, MakeVersionDir
<1>3. CASE MakeDirs(p)
  <2>1. PICK label \in {"archive_truncate", "make_version_dir"} : Continue(p, label, mem[p])
    BY <1>3 DEF MakeDirs
  <2>2. ControlTyped'
    BY <1>1, <2>1, ContinueTypeInv DEF Labels
  <2> QED
    BY <1>2, <1>3, <2>2 DEF MakeDirs, ControlTyped, TypeInv, TypeOK
<1>4. CASE MakeVersionDir(p) /\ Dir(Home(p)) \in ndirs
  <2>1. Continue(p, "archive_truncate", mem[p])
    BY <1>4 DEF MakeVersionDir
  <2>2. ControlTyped'
    BY <1>1, <2>1, ContinueTypeInv DEF Labels
  <2> QED
    BY <1>2, <1>4, <2>2 DEF MakeVersionDir, ControlTyped, TypeInv, TypeOK
<1>5. CASE MakeVersionDir(p) /\ Dir(Home(p)) \notin ndirs
  <2>1. Finish(p, "io_error", Absent)
    BY <1>5 DEF MakeVersionDir
  <2>2. ControlTyped' /\ result' \in [Procs -> [status : Statuses, found : Content]]
    BY <2>1, FinishTypeInv DEF Statuses, Content, Damaged
  <2> QED
    BY <1>5, <2>2 DEF MakeVersionDir, ControlTyped, TypeInv, TypeOK
<1> QED
  BY <1>3, <1>4, <1>5

LEMMA ArchiveTruncateTypeInv ==
    ASSUME TypeInv, NEW p \in Procs, ArchiveTruncate(p)
    PROVE  TypeInv'
<1>1. /\ cmd[p] \in Command /\ cmd[p] \in AddCommand /\ Acceptable(cmd[p].archive)
      /\ mem[p] \in SUBSET Entry
  BY DEF ArchiveTruncate, TypeInv, TypeOK, CmdOK, Command
<1>2. Absent \in Content /\ Empty \in Content
  BY DEF Content, Damaged
<1>3. CASE Home(p) \in vdirs
  <2>1. Continue(p, "archive_fill", mem[p])
    BY <1>3 DEF ArchiveTruncate
  <2>2. ControlTyped'
    BY <1>1, <2>1, ContinueTypeInv DEF Labels
  <2> QED
    BY <1>2, <1>3, <2>2 DEF ArchiveTruncate, ControlTyped, TypeInv, TypeOK
<1>4. CASE Home(p) \notin vdirs
  <2>1. Finish(p, "io_error", Absent)
    BY <1>4 DEF ArchiveTruncate
  <2>2. ControlTyped' /\ result' \in [Procs -> [status : Statuses, found : Content]]
    BY <1>2, <2>1, FinishTypeInv DEF Statuses
  <2> QED
    BY <1>4, <2>2 DEF ArchiveTruncate, ControlTyped, TypeInv, TypeOK
<1> QED
  BY <1>3, <1>4

LEMMA ArchiveFillTypeInv ==
    ASSUME TypeInv, NEW p \in Procs, ArchiveFill(p)
    PROVE  TypeInv'
<1>1. /\ cmd[p] \in Command /\ cmd[p] \in AddCommand /\ mem[p] \in SUBSET Entry
      /\ cmd[p].archive \in Content
  BY DEF ArchiveFill, TypeInv, TypeOK, CmdOK, Command, AddCommand, Content
<1>2. files' \in [Places -> Content]
  <2>1. \A c \in Overwrite(files[Home(p)], cmd[p].archive) : c \in Content
    BY <1>1, OverwriteLeaves DEF Content, Damaged
  <2> QED
    BY <2>1 DEF ArchiveFill, TypeInv, TypeOK
<1>3. ControlTyped'
  BY <1>1, ContinueTypeInv DEF ArchiveFill, Labels
<1> QED
  BY <1>2, <1>3 DEF ArchiveFill, ControlTyped, TypeInv, TypeOK

LEMMA RemoveTreeTypeInv ==
    ASSUME TypeInv, NEW p \in Procs, Unlink(p) \/ PruneVersion(p) \/ PruneName(p)
    PROVE  TypeInv'
<1>1. cmd[p] \in Command /\ cmd[p] \in RemoveCommand /\ mem[p] \in SUBSET Entry
  BY DEF Unlink, PruneVersion, PruneName, TypeInv, TypeOK, CmdOK, Command
<1>2. PICK label \in {"prune_version", "prune_name", "index_truncate"} :
          Continue(p, label, mem[p])
  BY DEF Unlink, PruneVersion, PruneName
<1>3. ControlTyped'
  BY <1>1, <1>2, ContinueTypeInv DEF Labels
<1>4. files' \in [Places -> Content]
  BY DEF Unlink, PruneVersion, PruneName, TypeInv, TypeOK, Content, Damaged
<1> QED
  BY <1>3, <1>4 DEF Unlink, PruneVersion, PruneName, ControlTyped, TypeInv, TypeOK

LEMMA WriteIndexTypeInv ==
    ASSUME TypeInv, NEW p \in Procs, IndexTruncate(p) \/ IndexFill(p)
    PROVE  TypeInv'
<1>1. /\ cmd[p] \in Command /\ cmd[p] \in AddCommand \union RemoveCommand
      /\ mem[p] \in SUBSET Entry
  BY DEF IndexTruncate, IndexFill, TypeInv, TypeOK, CmdOK
<1>2. CASE IndexTruncate(p)
  <2>1. ControlTyped'
    BY <1>1, <1>2, ContinueTypeInv DEF IndexTruncate, Labels
  <2> QED
    BY <1>2, <2>1 DEF IndexTruncate, ControlTyped, TypeInv, TypeOK, Damaged
<1>3. CASE IndexFill(p)
  <2>1. result[p].status \in Statuses /\ Absent \in Content
    BY DEF TypeInv, TypeOK, Content, Damaged
  <2>2. ControlTyped' /\ result' \in [Procs -> [status : Statuses, found : Content]]
    BY <1>3, <2>1, FinishTypeInv DEF IndexFill
  <2>3. index' \in Damaged \union SUBSET Entry
    BY <1>1, <1>3, OverwriteLeaves DEF IndexFill, Damaged
  <2> QED
    BY <1>3, <2>2, <2>3 DEF IndexFill, ControlTyped, TypeInv, TypeOK
<1> QED
  BY <1>2, <1>3

LEMMA ResolveReadTypeInv ==
    ASSUME TypeInv, NEW p \in Procs, ResolveRead(p)
    PROVE  TypeInv'
<1>1. PICK status \in Statuses, found \in Content : Finish(p, status, found)
  BY DEF ResolveRead, Statuses, Content, Damaged
<1>2. ControlTyped' /\ result' \in [Procs -> [status : Statuses, found : Content]]
  BY <1>1, FinishTypeInv
<1> QED
  BY <1>2 DEF ResolveRead, ControlTyped, TypeInv, TypeOK, store

LEMMA FaultTypeInv ==
    ASSUME TypeInv, Fault
    PROVE  TypeInv'
<1>1. ASSUME NEW p \in Procs, Crash(p)
      PROVE  TypeInv'
  <2>1. files' \in [Places -> Content] /\ index' \in Damaged \union SUBSET Entry
    BY <1>1 DEF Crash, TypeInv, TypeOK, Content, Damaged
  <2>2. faults' \in 0..MaxFaults
    BY <1>1, FaultsAssumption DEF Crash, TypeInv, TypeOK
  <2>3. result' \in [Procs -> [status : Statuses, found : Content]]
    BY <1>1 DEF Crash, TypeInv, TypeOK, Statuses, Result, Content, Damaged
  <2> QED
    BY <1>1, <2>1, <2>2, <2>3 DEF Crash, TypeInv, TypeOK, CmdOK, Labels
<1>2. ASSUME NEW q \in Places, Tamper(q)
      PROVE  TypeInv'
  BY <1>2, FaultsAssumption DEF Tamper, TypeInv, TypeOK, CmdOK, Content, Damaged
<1>3. ASSUME NEW p \in Procs, RemovalFails(p)
      PROVE  TypeInv'
  <2>1. PICK label \in {"prune_version", "prune_name", "index_truncate"} :
            pc' = [pc EXCEPT ![p] = label]
    BY <1>3, RemovalFailsStep
  <2>2. cmd[p] \in RemoveCommand /\ cmd[p] \in Command
    BY <1>3, RemovalFailsStep DEF TypeInv, CmdOK, Command
  <2>3. CmdOK' /\ pc' \in [Procs -> Labels]
    BY <1>3, <2>1, <2>2, RemovalFailsStep DEF TypeInv, TypeOK, CmdOK, Labels
  <2>4. faults' \in 0..MaxFaults
    BY <1>3, RemovalFailsStep, FaultsAssumption DEF TypeInv, TypeOK
  <2> QED
    BY <1>3, <2>3, <2>4, RemovalFailsStep DEF TypeInv, TypeOK
<1> QED
  BY <1>1, <1>2, <1>3 DEF Fault

LEMMA StutterTypeInv ==
    ASSUME TypeInv, UNCHANGED vars
    PROVE  TypeInv'
BY DEF vars, TypeInv, TypeOK, CmdOK

LEMMA NextTypeInv == TypeInv /\ [Next]_vars => TypeInv'
<1> SUFFICES ASSUME TypeInv, [Next]_vars
             PROVE  TypeInv'
  OBVIOUS
<1>1. ASSUME NEW p \in Procs, Open(p) \/ Advance(p)
      PROVE  TypeInv'
  BY <1>1, OpenTypeInv, InitIndexTypeInv, ReturnAtLoadTypeInv, AddLoadTypeInv,
     RemoveLoadTypeInv, ResolveLoadTypeInv, MakeDirsTypeInv, ArchiveTruncateTypeInv,
     ArchiveFillTypeInv, RemoveTreeTypeInv, WriteIndexTypeInv, ResolveReadTypeInv
     DEF Advance
<1> QED
  BY <1>1, FaultTypeInv, StutterTypeInv DEF Next

\* Every variable keeps its type in every behaviour (Registry's whole state,
\* registry.rs:42-80).
THEOREM TypeCorrect == Spec => []TypeOK
<1>1. Spec => []TypeInv
  BY InitTypeInv, NextTypeInv, PTL DEF Spec
<1>2. TypeInv => TypeOK
  BY DEF TypeInv
<1> QED
  BY <1>1, <1>2, PTL

-----------------------------------------------------------------------------
(* What the index may say.  A process writes back entries it read, so the  *)
(* invariant is needed of the copies in memory as well as of the file.     *)

Sound(entries) == Verified(entries) /\ Unique(entries)

\* What a resolve looks up is what it was asked for.
Asked(p) == \A e \in mem[p] : e.name = cmd[p].name /\ e.version \in cmd[p].req

MemSound ==
    \A p \in Procs : Sound(mem[p]) /\ (pc[p] = "read_archive" => Asked(p))

IndexSound == IndexReadable => Sound(index)

LEMMA SubsetSound ==
    ASSUME NEW entries, NEW sub \in SUBSET entries, Sound(entries)
    PROVE  Sound(sub)
BY DEF Sound, Verified, Unique

LEMMA EmptySound == Sound({})
BY DEF Sound, Verified, Unique

\* retain, then push: the new entry is the only one of its key.
LEMMA AddedSound ==
    ASSUME NEW entries, Sound(entries), NEW a \in Archives, Acceptable(a)
    PROVE  Sound(Without(entries, KeyOf(a)) \union {EntryOf(a)})
BY EntryOfAccepted DEF Sound, Verified, Unique, Without

LEMMA ContinueSound ==
    ASSUME TypeInv, MemSound, NEW p \in Procs, NEW label \in Labels, NEW held,
           Continue(p, label, held), Sound(held),
           label = "read_archive" =>
              \A e \in held : e.name = cmd[p].name /\ e.version \in cmd[p].req
    PROVE  MemSound'
BY DEF TypeInv, TypeOK, MemSound, Continue, Asked

LEMMA FinishSound ==
    ASSUME TypeInv, MemSound, NEW p \in Procs, NEW status, NEW found,
           Finish(p, status, found)
    PROVE  MemSound'
BY EmptySound DEF TypeInv, TypeOK, MemSound, Finish, Asked

LEMMA OpenSound ==
    ASSUME TypeInv, MemSound, IndexSound, NEW p \in Procs, Open(p)
    PROVE  (MemSound /\ IndexSound)'
<1>1. MemSound'
  BY DEF TypeInv, TypeOK, MemSound, Open, Asked
<1> QED
  BY <1>1 DEF IndexSound, IndexReadable, Open, store

LEMMA LoadSound ==
    ASSUME TypeInv, MemSound, IndexSound, NEW p \in Procs,
           AddLoad(p) \/ RemoveLoad(p) \/ ResolveLoad(p)
    PROVE  (MemSound /\ IndexSound)'
<1>1. IndexSound'
  BY DEF IndexSound, IndexReadable, AddLoad, RemoveLoad, ResolveLoad, store
<1>2. Sound(index) /\ index \in SUBSET Entry /\ cmd[p] \in Command
  BY DEF AddLoad, RemoveLoad, ResolveLoad, IndexSound, IndexReadable, TypeInv, TypeOK, CmdOK
<1>3. CASE AddLoad(p)
  <2>1. cmd[p].archive \in Archives /\ Acceptable(cmd[p].archive)
        /\ Target(p) = KeyOf(cmd[p].archive)
    BY <1>2, <1>3, CommandKind DEF AddLoad, AddCommand, Target
  <2>2. Sound(Without(index, Target(p)) \union {EntryOf(cmd[p].archive)})
    BY <1>2, <2>1, AddedSound
  <2> QED
    BY <1>1, <1>3, <2>2, ContinueSound DEF AddLoad, Labels
<1>4. CASE RemoveLoad(p)
  <2>1. Sound(Without(index, Target(p)))
    BY <1>2, SubsetSound DEF Without
  <2>2. PICK label \in {"index_truncate", "unlink"} :
            Continue(p, label, Without(index, Target(p)))
    BY <1>4 DEF RemoveLoad
  <2> QED
    BY <1>1, <2>1, <2>2, ContinueSound DEF Labels
<1>5. CASE ResolveLoad(p)
  <2>1. PICK e \in Matches(p) : Continue(p, "read_archive", {e})
    BY <1>5 DEF ResolveLoad
  <2>2. Sound({e}) /\ e.name = cmd[p].name /\ e.version \in cmd[p].req
    BY <1>2, SubsetSound DEF Matches
  <2> QED
    BY <1>1, <2>1, <2>2, ContinueSound DEF Labels
<1> QED
  BY <1>3, <1>4, <1>5

\* Commands that return without writing.
LEMMA ReturnSound ==
    ASSUME TypeInv, MemSound, IndexSound, NEW p \in Procs,
           \/ AddRejected(p) \/ LoadFails(p) \/ AddConflict(p)
           \/ ResolveNoMatch(p) \/ ListLoad(p) \/ ResolveRead(p)
    PROVE  (MemSound /\ IndexSound)'
<1>1. PICK status, found : Finish(p, status, found)
  BY DEF AddRejected, LoadFails, AddConflict, ResolveNoMatch, ListLoad, ResolveRead
<1>2. IndexSound'
  BY DEF IndexSound, IndexReadable, AddRejected, LoadFails, AddConflict,
         ResolveNoMatch, ListLoad, ResolveRead, store
<1> QED
  BY <1>1, <1>2, FinishSound

\* Steps in the archive tree leave the index and every copy of it alone.
LEMMA TreeSound ==
    ASSUME TypeInv, MemSound, IndexSound, NEW p \in Procs,
           \/ MakeDirs(p) \/ MakeVersionDir(p) \/ ArchiveTruncate(p) \/ ArchiveFill(p)
           \/ Unlink(p) \/ PruneVersion(p) \/ PruneName(p)
    PROVE  (MemSound /\ IndexSound)'
<1>1. IndexSound'
  BY DEF IndexSound, IndexReadable, MakeDirs, MakeVersionDir, ArchiveTruncate,
         ArchiveFill, Unlink, PruneVersion, PruneName
<1>2. \/ \E label \in Labels \ {"read_archive"} : Continue(p, label, mem[p])
      \/ Finish(p, "io_error", Absent)
  BY DEF MakeDirs, MakeVersionDir, ArchiveTruncate, ArchiveFill, Unlink,
         PruneVersion, PruneName, Labels
<1>3. Sound(mem[p])
  BY DEF MemSound
<1> QED
  BY <1>1, <1>2, <1>3, ContinueSound, FinishSound

LEMMA WriteIndexSound ==
    ASSUME TypeInv, MemSound, IndexSound, NEW p \in Procs,
           InitTruncate(p) \/ InitFill(p) \/ IndexTruncate(p) \/ IndexFill(p)
    PROVE  (MemSound /\ IndexSound)'
<1>1. Sound(mem[p])
  BY DEF MemSound
<1>2. CASE InitTruncate(p) \/ IndexTruncate(p)
  <2>1. IndexSound'
    BY <1>2 DEF IndexSound, IndexReadable, Damaged, InitTruncate, IndexTruncate
  <2>2. PICK label \in {"init_fill", "index_fill"}, held \in {{}, mem[p]} :
            Continue(p, label, held)
    BY <1>2 DEF InitTruncate, IndexTruncate
  <2> QED
    BY <1>1, <2>1, <2>2, EmptySound, ContinueSound DEF Labels
<1>3. CASE InitFill(p)
  <2>1. index' \in {{}, Garbage}
    BY <1>3, OverwriteLeaves DEF InitFill
  <2>2. IndexSound'
    BY <2>1, EmptySound DEF IndexSound, IndexReadable, Damaged
  <2>3. Continue(p, "load", {})
    BY <1>3 DEF InitFill
  <2> QED
    BY <2>2, <2>3, EmptySound, ContinueSound DEF Labels
<1>4. CASE IndexFill(p)
  <2>1. index' \in {mem[p], Garbage}
    BY <1>4, OverwriteLeaves DEF IndexFill
  <2>2. IndexSound'
    BY <1>1, <2>1 DEF IndexSound, IndexReadable, Damaged
  <2>3. MemSound'
    BY <1>4, FinishSound DEF IndexFill
  <2> QED
    BY <2>2, <2>3
<1> QED
  BY <1>2, <1>3, <1>4

LEMMA FaultSound ==
    ASSUME TypeInv, MemSound, IndexSound, Fault
    PROVE  (MemSound /\ IndexSound)'
<1>1. ASSUME NEW p \in Procs, Crash(p)
      PROVE  (MemSound /\ IndexSound)'
  <2>1. MemSound'
    BY <1>1, EmptySound DEF TypeInv, TypeOK, MemSound, Crash, Asked
  <2> QED
    BY <1>1, <2>1 DEF IndexSound, IndexReadable, Damaged, Crash
<1>2. ASSUME NEW q \in Places, Tamper(q)
      PROVE  (MemSound /\ IndexSound)'
  BY <1>2 DEF MemSound, IndexSound, IndexReadable, Asked, Tamper
<1>3. ASSUME NEW p \in Procs, RemovalFails(p)
      PROVE  (MemSound /\ IndexSound)'
  <2>1. \A r \in Procs : pc'[r] = "read_archive" => pc[r] = "read_archive"
    BY <1>3, RemovalFailsStep DEF TypeInv, TypeOK
  <2> QED
    BY <1>3, <2>1, RemovalFailsStep DEF MemSound, IndexSound, IndexReadable, Asked
<1> QED
  BY <1>1, <1>2, <1>3 DEF Fault

LEMMA NextSound == TypeInv /\ MemSound /\ IndexSound /\ [Next]_vars
                   => (MemSound /\ IndexSound)'
<1> SUFFICES ASSUME TypeInv, MemSound, IndexSound, [Next]_vars
             PROVE  (MemSound /\ IndexSound)'
  OBVIOUS
<1>1. ASSUME NEW p \in Procs, Open(p) \/ Advance(p)
      PROVE  (MemSound /\ IndexSound)'
  BY <1>1, OpenSound, LoadSound, ReturnSound, TreeSound, WriteIndexSound DEF Advance
<1>2. CASE UNCHANGED vars
  BY <1>2 DEF vars, MemSound, IndexSound, IndexReadable, Asked
<1> QED
  BY <1>1, <1>2, FaultSound DEF Next

LEMMA InitSound == Init => MemSound /\ IndexSound
BY EmptySound DEF Init, MemSound, IndexSound, IndexReadable, Damaged

LEMMA AlwaysSound == Spec => [](TypeInv /\ MemSound /\ IndexSound)
BY InitTypeInv, NextTypeInv, InitSound, NextSound, PTL DEF Spec

\* However commands, crashes and edits interleave, the index lists nothing but
\* archives that passed add's checks (registry.rs:126-141).
THEOREM IndexListsVerified == Spec => []StoreVerified
<1>1. IndexSound => StoreVerified
  BY DEF IndexSound, StoreVerified, Sound
<1> QED
  BY <1>1, AlwaysSound, PTL

\* However copies of the index are written over each other, it lists a name
\* and version once (registry.rs:178-181).
THEOREM IndexListsOnce == Spec => []OneEntryPerVersion
<1>1. IndexSound => OneEntryPerVersion
  BY DEF IndexSound, OneEntryPerVersion, Sound
<1> QED
  BY <1>1, AlwaysSound, PTL

-----------------------------------------------------------------------------
(* What a resolve answers.                                                 *)

\* The archive that hashes to a verified entry is the one add verified.
LEMMA ReadArchiveSafe ==
    ASSUME TypeInv, MemSound, NEW p \in Procs, ResolveRead(p),
           result'[p].status = "ok"
    PROVE  LET a == result'[p].found IN
           /\ a \in Archives /\ Acceptable(a)
           /\ a.name = cmd[p].name /\ a.version \in cmd[p].req
<1>1. PICK e \in mem[p] :
         LET bytes == files[Place(KeyOf(e))] IN
         IF bytes = Absent THEN Finish(p, "io_error", Absent)
         ELSE IF bytes \in Archives /\ Digest(bytes) = e.sha256
              THEN Finish(p, "ok", bytes)
              ELSE Finish(p, "modified", Absent)
  BY DEF ResolveRead
<1> DEFINE bytes == files[Place(KeyOf(e))]
<1>2. result \in [Procs -> [status : Statuses, found : Content]]
  BY DEF TypeInv, TypeOK
<1>3. /\ bytes \in Archives /\ Digest(bytes) = e.sha256
      /\ result'[p].found = bytes
  BY <1>1, <1>2 DEF Finish, Result
<1>4. PICK a \in Archives : Acceptable(a) /\ e = EntryOf(a)
  BY DEF MemSound, Sound, Verified
<1>5. bytes = a
  BY <1>3, <1>4, DigestAssumption DEF EntryOf
<1>6. a.name = e.name /\ a.version = e.version
  BY <1>4 DEF EntryOf
<1>7. e.name = cmd[p].name /\ e.version \in cmd[p].req
  BY DEF ResolveRead, MemSound, Asked
<1> QED
  BY <1>3, <1>4, <1>5, <1>6, <1>7

\* No other step of a resolve returns "ok".
LEMMA OnlyReadAnswers ==
    ASSUME TypeInv, NEW p \in Procs, Next, Returns(p),
           cmd[p].op = "resolve", result'[p].status = "ok"
    PROVE  ResolveRead(p)
<1>1. PICK q \in Procs : Open(q) \/ Advance(q)
  <2>1. ~ \E r \in Procs : Crash(r)
    BY DEF Crash, Returns, TypeInv, TypeOK
  <2>2. ~ \E r \in Places : Tamper(r)
    BY DEF Tamper, Returns
  <2>3. ~ \E r \in Procs : RemovalFails(r)
    BY RemovalFailsStep DEF Returns, TypeInv, TypeOK
  <2> QED
    BY <2>1, <2>2, <2>3 DEF Next, Fault
<1>2. q = p
  BY <1>1 DEF Returns, Open, Advance, InitTruncate, InitFill, AddRejected, LoadFails,
     AddConflict, AddLoad, RemoveLoad, ResolveNoMatch, ResolveLoad, ListLoad, MakeDirs,
     MakeVersionDir, ArchiveTruncate, ArchiveFill, Unlink, PruneVersion, PruneName,
     IndexTruncate, IndexFill, ResolveRead, Continue, Finish, TypeInv, TypeOK
<1>3. result \in [Procs -> [status : Statuses, found : Content]] /\ pc \in [Procs -> Labels]
  BY DEF TypeInv, TypeOK
<1>4. ~Open(p)
  BY DEF Open, Returns
<1>5. ~(\/ InitTruncate(p) \/ InitFill(p) \/ AddLoad(p) \/ RemoveLoad(p)
        \/ ResolveLoad(p) \/ ArchiveFill(p) \/ Unlink(p) \/ PruneVersion(p)
        \/ PruneName(p) \/ IndexTruncate(p) \/ MakeDirs(p))
  BY <1>3 DEF InitTruncate, InitFill, AddLoad, RemoveLoad, ResolveLoad, ArchiveFill,
     Unlink, PruneVersion, PruneName, IndexTruncate, MakeDirs, Continue, Returns
<1>6. ~(AddRejected(p) \/ AddConflict(p) \/ ListLoad(p))
  BY DEF AddRejected, AddConflict, ListLoad
<1>7. ~(LoadFails(p) \/ ResolveNoMatch(p))
  BY <1>3 DEF LoadFails, ResolveNoMatch, Finish, Result
<1>8. ~(MakeVersionDir(p) \/ ArchiveTruncate(p) \/ IndexFill(p))
  BY DEF MakeVersionDir, ArchiveTruncate, IndexFill, TypeInv, CmdOK, AddCommand, RemoveCommand
<1> QED
  BY <1>1, <1>2, <1>4, <1>5, <1>6, <1>7, <1>8 DEF Advance

\* A resolve that succeeds has read a verified archive of the name and range
\* asked for, whatever was written or edited under it (registry.rs:195-219).
THEOREM ResolveAnswersSafely == Spec => ResolveSafe
<1> DEFINE Safe == \A p \in Procs :
          Returns(p) /\ cmd[p].op = "resolve" /\ result'[p].status = "ok"
          => LET a == result'[p].found IN
             /\ a \in Archives
             /\ Acceptable(a)
             /\ a.name = cmd[p].name
             /\ a.version \in cmd[p].req
<1>1. TypeInv /\ MemSound /\ IndexSound /\ [Next]_vars => [Safe]_vars
  <2> SUFFICES ASSUME TypeInv, MemSound, Next, NEW p \in Procs, Returns(p),
                      cmd[p].op = "resolve", result'[p].status = "ok"
               PROVE  LET a == result'[p].found IN
                      /\ a \in Archives /\ Acceptable(a)
                      /\ a.name = cmd[p].name /\ a.version \in cmd[p].req
    OBVIOUS
  <2> QED
    BY OnlyReadAnswers, ReadArchiveSafe
<1>2. Spec => [][Safe]_vars
  BY <1>1, AlwaysSound, PTL DEF Spec
<1> QED
  BY <1>2 DEF ResolveSafe

-----------------------------------------------------------------------------
(* A resolve holds the one entry it chose while it reads the archive.      *)

OneLookup == \A p \in Procs : pc[p] = "read_archive" => \E e : mem[p] = {e}

LEMMA NextLookup == TypeInv /\ OneLookup /\ [Next]_vars => OneLookup'
<1> SUFFICES ASSUME TypeInv, OneLookup, [Next]_vars
             PROVE  OneLookup'
  OBVIOUS
<1>1. ASSUME NEW p \in Procs, Open(p) \/ (Advance(p) /\ ~ResolveLoad(p))
      PROVE  OneLookup'
  <2>1. \A q \in Procs \ {p} : pc'[q] = pc[q] /\ mem'[q] = mem[q]
    BY <1>1 DEF TypeInv, TypeOK, Open, Advance, InitTruncate, InitFill, AddRejected,
       LoadFails, AddConflict, AddLoad, RemoveLoad, ResolveNoMatch, ListLoad, MakeDirs,
       MakeVersionDir, ArchiveTruncate, ArchiveFill, Unlink, PruneVersion, PruneName,
       IndexTruncate, IndexFill, ResolveRead, Continue, Finish
  <2>2. pc'[p] # "read_archive"
    BY <1>1 DEF TypeInv, TypeOK, Open, Advance, InitTruncate, InitFill, AddRejected,
       LoadFails, AddConflict, AddLoad, RemoveLoad, ResolveNoMatch, ListLoad, MakeDirs,
       MakeVersionDir, ArchiveTruncate, ArchiveFill, Unlink, PruneVersion, PruneName,
       IndexTruncate, IndexFill, ResolveRead, Continue, Finish
  <2> QED
    BY <2>1, <2>2 DEF OneLookup
<1>2. ASSUME NEW p \in Procs, ResolveLoad(p)
      PROVE  OneLookup'
  BY <1>2 DEF ResolveLoad, Continue, OneLookup, TypeInv, TypeOK
<1>3. CASE Fault
  <2>1. ASSUME NEW p \in Procs, RemovalFails(p)
        PROVE  OneLookup'
    <3>1. \A r \in Procs : pc'[r] = "read_archive" => pc[r] = "read_archive"
      BY <2>1, RemovalFailsStep DEF TypeInv, TypeOK
    <3> QED
      BY <2>1, <3>1, RemovalFailsStep DEF OneLookup
  <2> QED
    BY <1>3, <2>1 DEF Fault, Crash, Tamper, OneLookup, TypeInv, TypeOK
<1>4. CASE UNCHANGED vars
  BY <1>4 DEF vars, OneLookup
<1> QED
  BY <1>1, <1>2, <1>3, <1>4 DEF Next

LEMMA InitLookup == Init => OneLookup
BY DEF Init, OneLookup

-----------------------------------------------------------------------------
(* A damaged index.                                                        *)

\* From a damaged index, without a writer on its way, no step leads on to a
\* write: open finds a file and every load fails.
LEMMA DamagedStep ==
    ASSUME TypeInv, DamagedAtRest, Next
    PROVE  DamagedAtRest'
<1>1. index # Absent /\ ~IndexReadable
  BY ContentAssumption DEF DamagedAtRest, IndexReadable, Damaged
<1>2. ASSUME NEW p \in Procs, Open(p)
      PROVE  DamagedAtRest'
  BY <1>1, <1>2 DEF DamagedAtRest, Open, store, TypeInv, TypeOK
<1>3. ASSUME NEW p \in Procs, AddRejected(p) \/ LoadFails(p) \/ ResolveRead(p)
      PROVE  DamagedAtRest'
  <2>1. PICK status, found : Finish(p, status, found)
    BY <1>3 DEF AddRejected, LoadFails, ResolveRead
  <2>2. index' = index
    BY <1>3 DEF AddRejected, LoadFails, ResolveRead, store
  <2> QED
    BY <2>1, <2>2 DEF DamagedAtRest, Finish, TypeInv, TypeOK
<1>4. ASSUME NEW p \in Procs, Advance(p)
      PROVE  AddRejected(p) \/ LoadFails(p) \/ ResolveRead(p)
  <2>1. pc[p] \in {"idle", "load", "read_archive"}
    BY DEF DamagedAtRest
  <2> QED
    BY <1>1, <1>4, <2>1 DEF Advance, InitTruncate, InitFill, AddConflict, AddLoad,
       RemoveLoad, ResolveNoMatch, ResolveLoad, ListLoad, MakeDirs, MakeVersionDir,
       ArchiveTruncate, ArchiveFill, Unlink, PruneVersion, PruneName, IndexTruncate,
       IndexFill
<1>5. ASSUME NEW p \in Procs, Crash(p)
      PROVE  DamagedAtRest'
  <2>1. index' \in {index, Garbage}
    BY <1>5 DEF Crash
  <2> QED
    BY <1>5, <2>1 DEF DamagedAtRest, Crash, TypeInv, TypeOK
<1>6. ASSUME NEW q \in Places, Tamper(q)
      PROVE  DamagedAtRest'
  BY <1>6 DEF DamagedAtRest, Tamper
<1>7. ASSUME NEW p \in Procs, RemovalFails(p)
      PROVE  DamagedAtRest'
  BY <1>7, RemovalFailsStep DEF DamagedAtRest
<1> QED
  BY <1>2, <1>3, <1>4, <1>5, <1>6, <1>7 DEF Next, Fault

\* A damaged index stays damaged until someone repairs it by hand: no command
\* takes it for a new registry (registry.rs:89, 108-112).
THEOREM DamagedIndexStays == Spec => DamagedIndexIsNotReset
<1>1. TypeInv /\ [Next]_vars => [DamagedAtRest => DamagedAtRest']_vars
  BY DamagedStep
<1>2. Spec => [][DamagedAtRest => DamagedAtRest']_vars
  BY <1>1, AlwaysSound, PTL DEF Spec
<1> QED
  BY <1>2 DEF DamagedIndexIsNotReset

=============================================================================
