------------------------------ MODULE Registry ------------------------------
(***************************************************************************)
(* The local skill registry of src/src/registry.rs: index.json and one     *)
(* archive file per installed name and version, used by several command    *)
(* line processes at once.  A command takes no lock: it reads the index    *)
(* once, changes the archive tree, and rewrites index.json from the copy   *)
(* it holds.  One action stands for the code between two accesses to the   *)
(* file system, so the processes interleave where the operating system     *)
(* can interleave them.                                                    *)
(***************************************************************************)
EXTENDS Naturals

CONSTANTS
    Procs,      \* command line processes
    Names,      \* skill names
    Versions,   \* semver versions, as their ranks in semver order
    NotSemver,  \* a header version that Version::parse refuses
    Archives,   \* archives a user may offer, as [name, version, intact, ...]
    Reqs,       \* version requirements, as the sets of versions they match
    Places,     \* version directories, each for one archive file
    Place(_),   \* the version directory a name and version lead to
    Dir(_),     \* the name directory a version directory lies in
    Standing,   \* name directories that are never empty, such as that of ".."
    Digest(_),  \* SHA-256 of an archive's bytes
    Absent,     \* no file
    Empty,      \* a file just truncated by fs::write
    Garbage,    \* bytes that neither parse nor hash to a recorded digest
    MaxFaults   \* bound: crashes, failing accesses and outside edits

ASSUME VersionsAssumption == Versions \subseteq Nat /\ NotSemver \notin Versions

ASSUME ArchivesAssumption ==
    \A a \in Archives : /\ a.name \in Names
                        /\ a.version \in Versions \union {NotSemver}
                        /\ a.intact \in BOOLEAN

ASSUME ReqsAssumption == Reqs \subseteq SUBSET Versions

\* SHA-256 is taken to be free of collisions.
ASSUME DigestAssumption ==
    \A a, b \in Archives : Digest(a) = Digest(b) => a = b

ASSUME FaultsAssumption == MaxFaults \in Nat

Damaged == {Absent, Empty, Garbage}

\* What an archive file may hold, and the entries of the index.
Content == Archives \union Damaged
Key == Names \X Versions
Entry == [name : Names, version : Versions, sha256 : {Digest(a) : a \in Archives}]

ASSUME ContentAssumption ==
    /\ Absent # Empty /\ Absent # Garbage /\ Empty # Garbage
    /\ Archives \intersect Damaged = {}
    /\ \A s \in SUBSET Entry : s \notin Damaged

\* The name in a header is any string and is joined into a path as it is:
\* "alpha", "alpha/" and "./alpha" are three names and one directory.
ASSUME PlacesAssumption == \A k \in Key : Place(k) \in Places

Dirs == Standing \union {Dir(q) : q \in Places}

\* No other name leads to the archive file of k.
Sole(k) == \A j \in Key : Place(j) = Place(k) => j = k

KeyOf(x) == <<x.name, x.version>>
EntryOf(a) == [name |-> a.name, version |-> a.version, sha256 |-> Digest(a)]

\* Mutant: the version of an archive is not checked.
AcceptableAnyVersion(a) == a.intact

\* The archives `add` lets in: verified, and of a real semver version.
Acceptable(a) == a.intact /\ a.version \in Versions

\* Mutants: the old entry stays; all versions of the name go.
WithoutNothing(entries, k) == entries
WithoutName(entries, k) == {e \in entries : e.name # k[1]}

\* Vec::retain of the entries of every other name and version.
Without(entries, k) == {e \in entries : KeyOf(e) # k}

\* Bytes left when `new` is written from offset 0 over `old`: a longer
\* `old` leaves its tail behind.
Overwrite(old, new) == IF old \in {Empty, new} THEN {new} ELSE {new, Garbage}

AddCommand == [op : {"add"}, archive : Archives, force : BOOLEAN]
RemoveCommand == [op : {"remove"}, name : Names, version : Versions]
ResolveCommand == [op : {"resolve"}, name : Names, req : Reqs]
ListCommand == [op : {"list"}]
NoCommand == [op |-> "none"]
Command == AddCommand \union RemoveCommand \union ResolveCommand \union ListCommand

-----------------------------------------------------------------------------
VARIABLES
    index,   \* index.json: Absent, Empty, Garbage, or the set of its entries
    files,   \* the archive file in every version directory
    ndirs,   \* the name directories there are
    vdirs,   \* the version directories there are
    live,    \* processes whose open archive file has not been unlinked
    pc,      \* the next file system access of each process
    cmd,     \* the command it runs
    mem,     \* the index entries it holds: those it will write or look up
    result,  \* the outcome of its last command, or the one it is about to report
    faults   \* crashes, failing accesses and outside edits so far

store == <<index, files, ndirs, vdirs, live>>
vars == <<index, files, ndirs, vdirs, live, pc, cmd, mem, result, faults>>

Labels == {"idle", "init_truncate", "init_fill", "load",
           "make_dirs", "make_version_dir", "archive_truncate", "archive_fill",
           "unlink", "prune_version", "prune_name",
           "index_truncate", "index_fill", "read_archive"}

Statuses == {"none", "ok", "no_entry", "no_match", "rejected", "conflict",
             "unreadable", "io_error", "modified"}

Result(status, found) == [status |-> status, found |-> found]

Init ==
    /\ index = Absent
    /\ files = [q \in Places |-> Absent]
    /\ ndirs = Standing
    /\ vdirs = {}
    /\ live = {}
    /\ pc = [p \in Procs |-> "idle"]
    /\ cmd = [p \in Procs |-> NoCommand]
    /\ mem = [p \in Procs |-> {}]
    /\ result = [p \in Procs |-> Result("none", Absent)]
    /\ faults = 0

IndexReadable == index \notin Damaged

\* The name and version a writing command is about.
Target(p) == IF cmd[p].op = "add" THEN KeyOf(cmd[p].archive) ELSE KeyOf(cmd[p])
Home(p) == Place(Target(p))

\* Process p goes on to its next access, holding the entries `held`.
Continue(p, label, held) ==
    /\ pc' = [pc EXCEPT ![p] = label]
    /\ mem' = [mem EXCEPT ![p] = held]
    /\ UNCHANGED <<cmd, faults>>

\* The command of p returns.
Finish(p, status, found) ==
    /\ pc' = [pc EXCEPT ![p] = "idle"]
    /\ mem' = [mem EXCEPT ![p] = {}]
    /\ cmd' = [cmd EXCEPT ![p] = NoCommand]
    /\ result' = [result EXCEPT ![p] = Result(status, found)]
    /\ UNCHANGED faults

-----------------------------------------------------------------------------
(* Registry::open, the first thing every command does.                     *)

\* Mutant: open takes an index it cannot parse for a missing one.
OpenResets(p) ==
    /\ pc[p] = "idle"
    /\ cmd' \in {[cmd EXCEPT ![p] = c] : c \in Command}
    /\ pc' = [pc EXCEPT ![p] = IF index \in Damaged THEN "init_truncate" ELSE "load"]
    /\ result' = [result EXCEPT ![p] = Result("none", Absent)]
    /\ UNCHANGED <<store, mem, faults>>

\* The user starts a command; open tests whether index.json exists.
Open(p) ==
    /\ pc[p] = "idle"
    /\ cmd' \in {[cmd EXCEPT ![p] = c] : c \in Command}
    /\ pc' = [pc EXCEPT ![p] = IF index = Absent THEN "init_truncate" ELSE "load"]
    /\ result' = [result EXCEPT ![p] = Result("none", Absent)]
    /\ UNCHANGED <<store, mem, faults>>

\* fs::write of the empty index: the file is truncated, then filled.
InitTruncate(p) ==
    /\ pc[p] = "init_truncate"
    /\ index' = Empty
    /\ Continue(p, "init_fill", {})
    /\ UNCHANGED <<files, ndirs, vdirs, live, result>>

InitFill(p) ==
    /\ pc[p] = "init_fill"
    /\ index' \in Overwrite(index, {})
    /\ Continue(p, "load", {})
    /\ UNCHANGED <<files, ndirs, vdirs, live, result>>

-----------------------------------------------------------------------------
(* Registry::index, read once by every operation.                          *)

\* add verifies the archive and its version before it reads the index.
AddRejected(p) ==
    /\ pc[p] = "load"
    /\ cmd[p].op = "add"
    /\ ~Acceptable(cmd[p].archive)
    /\ Finish(p, "rejected", Absent)
    /\ UNCHANGED store

LoadFails(p) ==
    /\ pc[p] = "load"
    /\ cmd[p].op = "add" => Acceptable(cmd[p].archive)
    /\ ~IndexReadable
    /\ Finish(p, "unreadable", Absent)
    /\ UNCHANGED store

\* Mutant: the test of `force` is the wrong way round.
ConflictsIfForced(p) ==
    /\ cmd[p].force
    /\ \E e \in index : /\ KeyOf(e) = Target(p)
                        /\ e.sha256 # Digest(cmd[p].archive)

\* add found another build of its name and version, and was not forced.
Conflicts(p) ==
    /\ ~cmd[p].force
    /\ \E e \in index : /\ KeyOf(e) = Target(p)
                        /\ e.sha256 # Digest(cmd[p].archive)

AddConflict(p) ==
    /\ pc[p] = "load"
    /\ cmd[p].op = "add"
    /\ Acceptable(cmd[p].archive)
    /\ IndexReadable
    /\ Conflicts(p)
    /\ Finish(p, "conflict", Absent)
    /\ UNCHANGED store

\* Mutant: an archive that fails verification goes through.
AddLoadUnverified(p) ==
    /\ pc[p] = "load"
    /\ cmd[p].op = "add"
    /\ cmd[p].archive.version \in Versions
    /\ IndexReadable
    /\ ~Conflicts(p)
    /\ Continue(p, "make_dirs",
                Without(index, Target(p)) \union {EntryOf(cmd[p].archive)})
    /\ result' = [result EXCEPT ![p] = Result("ok", Absent)]
    /\ UNCHANGED store

\* The new index is decided here, from the entries read here.
AddLoad(p) ==
    /\ pc[p] = "load"
    /\ cmd[p].op = "add"
    /\ Acceptable(cmd[p].archive)
    /\ IndexReadable
    /\ ~Conflicts(p)
    /\ Continue(p, "make_dirs",
                Without(index, Target(p)) \union {EntryOf(cmd[p].archive)})
    /\ result' = [result EXCEPT ![p] = Result("ok", Absent)]
    /\ UNCHANGED store

\* With nothing to remove, remove still rewrites the index it read.
RemoveLoad(p) ==
    /\ pc[p] = "load"
    /\ cmd[p].op = "remove"
    /\ IndexReadable
    /\ LET kept == Without(index, Target(p)) IN
       /\ Continue(p, IF kept = index THEN "index_truncate" ELSE "unlink", kept)
       /\ result' = [result EXCEPT
              ![p] = Result(IF kept = index THEN "no_entry" ELSE "ok", Absent)]
    /\ UNCHANGED store

\* The installed versions of a name that satisfy the requirement.
Matches(p) == {e \in index : e.name = cmd[p].name /\ e.version \in cmd[p].req}

ResolveNoMatch(p) ==
    /\ pc[p] = "load"
    /\ cmd[p].op = "resolve"
    /\ IndexReadable
    /\ Matches(p) = {}
    /\ Finish(p, "no_match", Absent)
    /\ UNCHANGED store

ResolveLoad(p) ==
    /\ pc[p] = "load"
    /\ cmd[p].op = "resolve"
    /\ IndexReadable
    /\ \E e \in Matches(p) :
          /\ \A f \in Matches(p) : f.version <= e.version
          /\ Continue(p, "read_archive", {e})
    /\ UNCHANGED <<store, result>>

\* list and catalog return what the index says.
ListLoad(p) ==
    /\ pc[p] = "load"
    /\ cmd[p].op = "list"
    /\ IndexReadable
    /\ Finish(p, "ok", Absent)
    /\ UNCHANGED store

-----------------------------------------------------------------------------
(* add: the archive tree, then the index.                                  *)

\* create_dir_all makes the version directory, or first the name directory.
MakeDirs(p) ==
    /\ pc[p] = "make_dirs"
    /\ IF Dir(Home(p)) \in ndirs
       THEN /\ vdirs' = vdirs \union {Home(p)}
            /\ Continue(p, "archive_truncate", mem[p])
            /\ UNCHANGED ndirs
       ELSE /\ ndirs' = ndirs \union {Dir(Home(p))}
            /\ Continue(p, "make_version_dir", mem[p])
            /\ UNCHANGED vdirs
    /\ UNCHANGED <<index, files, live, result>>

MakeVersionDir(p) ==
    /\ pc[p] = "make_version_dir"
    /\ IF Dir(Home(p)) \in ndirs
       THEN /\ vdirs' = vdirs \union {Home(p)}
            /\ Continue(p, "archive_truncate", mem[p])
            /\ UNCHANGED result
       ELSE /\ Finish(p, "io_error", Absent)
            /\ UNCHANGED vdirs
    /\ UNCHANGED <<index, files, ndirs, live>>

\* Mutant: the error of a missing directory is not reported.
ArchiveTruncateWaits(p) ==
    /\ pc[p] = "archive_truncate"
    /\ Home(p) \in vdirs
    /\ files' = [files EXCEPT ![Home(p)] = Empty]
    /\ live' = live \union {p}
    /\ Continue(p, "archive_fill", mem[p])
    /\ UNCHANGED <<index, ndirs, vdirs, result>>

\* fs::write opens and truncates; without its directory the open fails.
ArchiveTruncate(p) ==
    /\ pc[p] = "archive_truncate"
    /\ IF Home(p) \in vdirs
       THEN /\ files' = [files EXCEPT ![Home(p)] = Empty]
            /\ live' = live \union {p}
            /\ Continue(p, "archive_fill", mem[p])
            /\ UNCHANGED result
       ELSE /\ Finish(p, "io_error", Absent)
            /\ UNCHANGED <<files, live>>
    /\ UNCHANGED <<index, ndirs, vdirs>>

\* Bytes written to a file unlinked meanwhile reach no name.
ArchiveFill(p) ==
    /\ pc[p] = "archive_fill"
    /\ IF p \in live
       THEN \E c \in Overwrite(files[Home(p)], cmd[p].archive) :
               files' = [files EXCEPT ![Home(p)] = c]
       ELSE UNCHANGED files
    /\ live' = live \ {p}
    /\ Continue(p, "index_truncate", mem[p])
    /\ UNCHANGED <<index, ndirs, vdirs, result>>

-----------------------------------------------------------------------------
(* remove: the archive tree, every error ignored, then the index.          *)

\* Mutant: remove forgets the archive.
UnlinkNothing(p) ==
    /\ pc[p] = "unlink"
    /\ Continue(p, "prune_version", mem[p])
    /\ UNCHANGED <<index, files, ndirs, vdirs, live, result>>

Unlink(p) ==
    /\ pc[p] = "unlink"
    /\ files' = [files EXCEPT ![Home(p)] = Absent]
    /\ live' = {q \in live : Home(q) # Home(p)}
    /\ Continue(p, "prune_version", mem[p])
    /\ UNCHANGED <<index, ndirs, vdirs, result>>

\* remove_dir refuses a directory that is not empty.
PruneVersion(p) ==
    /\ pc[p] = "prune_version"
    /\ vdirs' = IF files[Home(p)] = Absent THEN vdirs \ {Home(p)} ELSE vdirs
    /\ Continue(p, "prune_name", mem[p])
    /\ UNCHANGED <<index, files, ndirs, live, result>>

PruneName(p) ==
    /\ pc[p] = "prune_name"
    /\ ndirs' = IF \/ Dir(Home(p)) \in Standing
                   \/ \E q \in vdirs : Dir(q) = Dir(Home(p))
                THEN ndirs ELSE ndirs \ {Dir(Home(p))}
    /\ Continue(p, "index_truncate", mem[p])
    /\ UNCHANGED <<index, files, vdirs, live, result>>

-----------------------------------------------------------------------------
(* write_index, the last step of add and remove.                           *)

IndexTruncate(p) ==
    /\ pc[p] = "index_truncate"
    /\ index' = Empty
    /\ Continue(p, "index_fill", mem[p])
    /\ UNCHANGED <<files, ndirs, vdirs, live, result>>

\* Mutant: an empty index is not written out.
IndexFillSkipsEmpty(p) ==
    /\ pc[p] = "index_fill"
    /\ index' \in IF mem[p] = {} THEN {index} ELSE Overwrite(index, mem[p])
    /\ Finish(p, result[p].status, Absent)
    /\ UNCHANGED <<files, ndirs, vdirs, live>>

IndexFill(p) ==
    /\ pc[p] = "index_fill"
    /\ index' \in Overwrite(index, mem[p])
    /\ Finish(p, result[p].status, Absent)
    /\ UNCHANGED <<files, ndirs, vdirs, live>>

-----------------------------------------------------------------------------
(* resolve: read the chosen archive and compare its hash with the index.   *)

\* Mutant: the hash is not compared.
ResolveReadUnchecked(p) ==
    /\ pc[p] = "read_archive"
    /\ \E e \in mem[p] :
          LET bytes == files[Place(KeyOf(e))] IN
          IF bytes = Absent THEN Finish(p, "io_error", Absent)
          ELSE Finish(p, "ok", bytes)
    /\ UNCHANGED store

ResolveRead(p) ==
    /\ pc[p] = "read_archive"
    /\ \E e \in mem[p] :
          LET bytes == files[Place(KeyOf(e))] IN
          IF bytes = Absent THEN Finish(p, "io_error", Absent)
          ELSE IF bytes \in Archives /\ Digest(bytes) = e.sha256
               THEN Finish(p, "ok", bytes)
               ELSE Finish(p, "modified", Absent)
    /\ UNCHANGED store

-----------------------------------------------------------------------------
(* Faults: a process is killed, an access fails, or someone edits an       *)
(* archive on disk.                                                        *)

\* The command of p ends before its next access is complete: it is killed,
\* or the access fails and `?` returns the error; either way its caller sees
\* a failure.  A write cut short leaves a prefix of its bytes.
Crash(p) ==
    /\ faults < MaxFaults
    /\ pc[p] # "idle"
    /\ \/ UNCHANGED <<index, files>>
       \/ /\ pc[p] \in {"init_fill", "index_fill"}
          /\ index' = Garbage
          /\ UNCHANGED files
       \/ /\ pc[p] = "archive_fill" /\ p \in live
          /\ files' = [files EXCEPT ![Home(p)] = Garbage]
          /\ UNCHANGED index
    /\ live' = live \ {p}
    /\ pc' = [pc EXCEPT ![p] = "idle"]
    /\ mem' = [mem EXCEPT ![p] = {}]
    /\ cmd' = [cmd EXCEPT ![p] = NoCommand]
    /\ result' = [result EXCEPT ![p] = Result("io_error", Absent)]
    /\ faults' = faults + 1
    /\ UNCHANGED <<ndirs, vdirs>>

Skip(p, from, to) == pc[p] = from /\ pc' = [pc EXCEPT ![p] = to]

\* In remove's part of the tree, `.ok()` drops the error and remove goes on.
RemovalFails(p) ==
    /\ faults < MaxFaults
    /\ \/ Skip(p, "unlink", "prune_version")
       \/ Skip(p, "prune_version", "prune_name")
       \/ Skip(p, "prune_name", "index_truncate")
    /\ faults' = faults + 1
    /\ UNCHANGED <<store, cmd, mem, result>>

\* An archive on disk is overwritten by other bytes.
Tamper(q) ==
    /\ faults < MaxFaults
    /\ files[q] # Absent
    /\ \E c \in Archives \union {Garbage} : files' = [files EXCEPT ![q] = c]
    /\ faults' = faults + 1
    /\ UNCHANGED <<index, ndirs, vdirs, live, pc, cmd, mem, result>>

-----------------------------------------------------------------------------
\* What a running command does next.
Advance(p) ==
    \/ InitTruncate(p) \/ InitFill(p)
    \/ AddRejected(p) \/ LoadFails(p) \/ AddConflict(p) \/ AddLoad(p)
    \/ RemoveLoad(p) \/ ResolveNoMatch(p) \/ ResolveLoad(p) \/ ListLoad(p)
    \/ MakeDirs(p) \/ MakeVersionDir(p) \/ ArchiveTruncate(p) \/ ArchiveFill(p)
    \/ Unlink(p) \/ PruneVersion(p) \/ PruneName(p)
    \/ IndexTruncate(p) \/ IndexFill(p) \/ ResolveRead(p)

Fault ==
    \/ \E p \in Procs : Crash(p) \/ RemovalFails(p)
    \/ \E q \in Places : Tamper(q)

Next == (\E p \in Procs : Open(p) \/ Advance(p)) \/ Fault

Spec == Init /\ [][Next]_vars

\* A started command goes on until it returns: no step of it waits.
FairSpec == Spec /\ \A p \in Procs : WF_vars(Advance(p))

-----------------------------------------------------------------------------
(* One writer at a time: what users get who serialise the commands that    *)
(* change a registry, while others still resolve and list.                 *)

Writer(p) ==
    /\ pc[p] # "idle"
    /\ cmd[p].op \in {"add", "remove"} \/ pc[p] \in {"init_truncate", "init_fill"}

OneWriter == \A p, q \in Procs : Writer(p) /\ Writer(q) => p = q

SingleWriterSpec == Init /\ [][Next /\ OneWriter']_vars

-----------------------------------------------------------------------------
(* What holds for any number of processes, with crashes and edits.         *)

\* Every variable keeps its type; index.json is damaged or a set of entries
\* (Registry, registry.rs:42-80).
TypeOK ==
    /\ index \in Damaged \union SUBSET Entry
    /\ files \in [Places -> Content]
    /\ ndirs \subseteq Dirs
    /\ vdirs \subseteq Places
    /\ live \subseteq Procs
    /\ pc \in [Procs -> Labels]
    /\ cmd \in [Procs -> Command \union {NoCommand}]
    /\ mem \in [Procs -> SUBSET Entry]
    /\ result \in [Procs -> [status : Statuses, found : Content]]
    /\ faults \in 0..MaxFaults

\* The entries of archives that passed add's checks.
Verified(entries) ==
    \A e \in entries : \E a \in Archives : Acceptable(a) /\ e = EntryOf(a)

\* However commands, crashes and edits interleave, the index records nothing
\* but archives that verified and carry a semver version, under their own
\* name and version (add, registry.rs:126-141, and every write of the index).
StoreVerified == IndexReadable => Verified(index)

Unique(entries) == \A e, f \in entries : KeyOf(e) = KeyOf(f) => e = f

\* The index never lists a name and version twice, whichever copies of it
\* are written over each other (retain then push, registry.rs:178-181).
OneEntryPerVersion == IndexReadable => Unique(index)

\* Process p returns from its command in this step, on its own.
Returns(p) == pc[p] # "idle" /\ pc'[p] = "idle" /\ faults' = faults

\* A resolve that succeeds has read an archive that verified, of the name it
\* was asked for and a version the requirement matches, even if the store was
\* edited under it or its entry removed meanwhile (registry.rs:195-219).
ResolveSafe ==
    [][\A p \in Procs :
          Returns(p) /\ cmd[p].op = "resolve" /\ result'[p].status = "ok"
          => LET a == result'[p].found IN
             /\ a \in Archives
             /\ Acceptable(a)
             /\ a.name = cmd[p].name
             /\ a.version \in cmd[p].req]_vars

\* index.json was left damaged and no process is about to write it.
DamagedAtRest ==
    /\ index \in {Empty, Garbage}
    /\ \A p \in Procs : pc[p] \in {"idle", "load", "read_archive"}

\* A damaged index is reported by every later command and replaced by none:
\* nothing turns a torn write into an empty registry (open only creates a
\* missing index, registry.rs:89; index fails to parse, registry.rs:108-112).
DamagedIndexIsNotReset == [][DamagedAtRest => DamagedAtRest']_vars

-----------------------------------------------------------------------------
(* What holds with one writer at a time and no fault.                      *)

\* The archive file of k is the one these entries record, if any.
AgreesWith(entries, k) ==
    LET listed == {e \in entries : KeyOf(e) = k}
        bytes == files[Place(k)]
    IN  IF listed = {}
        THEN bytes = Absent
        ELSE bytes \in Archives /\ EntryOf(bytes) \in listed

\* The archive file in q is one of these entries', whole, or there is none.
Owned(entries, q) ==
    \/ files[q] = Absent
    \/ /\ files[q] \in Archives
       /\ EntryOf(files[q]) \in entries
       /\ Place(KeyOf(files[q])) = q

\* Archives and directories are those of these entries.
TreeIs(entries) ==
    /\ \A q \in Places : Owned(entries, q)
    /\ \A k \in Key : Sole(k) => AgreesWith(entries, k)
    /\ vdirs = {q \in Places : files[q] # Absent}
    /\ ndirs = Standing \union {Dir(q) : q \in vdirs}

\* Between two writers index, archives and directories tell the same story,
\* whatever directories the names lead to: no archive without its entry, none
\* torn, no directory left behind, and no entry without its exact archive,
\* unless another name leads to the same file (add, registry.rs:144-184, and
\* remove, registry.rs:231-245).
StoreConsistent ==
    (\A p \in Procs : ~Writer(p)) =>
        IF index = Absent THEN TreeIs({}) ELSE IndexReadable /\ TreeIs(index)

\* A reader that finds index.json truncated finds it whole again if it
\* retries, as long as writers take turns: every rewrite of the index is
\* completed (write_index, registry.rs:114-117).
TornIndexHeals ==
    []OneWriter => ((index \in {Empty, Garbage}) ~> IndexReadable)

\* Every command returns, also when another one prunes the directory it is
\* about to write in or unlinks the archive it is about to read
\* (registry.rs:164-167, 195-219).
CommandsReturn == \A p \in Procs : (pc[p] # "idle") ~> (pc[p] = "idle")

=============================================================================
