-------------------------- MODULE RegistryRecovery --------------------------
(***************************************************************************)
(* What overlapping commands, killed commands and edits on disk can do to  *)
(* the registry, how far the damage goes, and what undoes it.  The three   *)
(* variables added are history; they hold back no command.                 *)
(***************************************************************************)
EXTENDS Registry

VARIABLES
    suspect,    \* names and versions whose archive may disagree with the index
    crowded,    \* processes that did not change the store alone so far
    promised    \* entries some list, lock or resolve has answered with

history == <<suspect, crowded, promised>>

RInit == Init /\ suspect = {} /\ crowded = {} /\ promised = {}

\* p has read the index and has not yet written it.
Writing(p) == pc[p] \notin {"idle", "load", "read_archive", "init_truncate", "init_fill"}
Busy(p) == Writing(p) \/ pc[p] \in {"init_truncate", "init_fill"}

\* What p's command makes of the entry e is not what was answered.
Changes(p, e) ==
    /\ Writing(p) /\ Target(p) = KeyOf(e)
    /\ cmd[p].op = "add" => EntryOf(cmd[p].archive) # e

\* p is rewriting the archive file that the names of this place share.
Touching(p) == Writing(p) /\ result[p].status = "ok"

\* Keys other than the one p is about that lead to the same file.
Neighbours(p) == {k \in Key \ {Target(p)} : Place(k) = Home(p)}

\* After a step: the processes `hit` and those that are busy together did not
\* work alone, which leaves their targets in doubt; so are the `doubtful`, and
\* whoever shares a file that is being rewritten.  `settled` are in order, and
\* `answers` stand until a command is about to change them.
Remember(hit, doubtful, settled, answers) ==
    LET busy == {p \in Procs : Busy(p)'}
        together == IF \E p, q \in busy : p # q THEN busy ELSE {}
    IN  /\ crowded' = (crowded \union hit \union together) \intersect busy
        /\ suspect' = ((suspect \ settled) \union doubtful)
                         \union {Target(p)' : p \in {q \in crowded' : Writing(q)'}}
                         \union UNION {Neighbours(p)' : p \in {q \in Procs : Touching(q)'}}
        /\ promised' = {e \in promised \union answers : \A p \in Procs : ~Changes(p, e)'}

\* An add or remove that was alone from its reading of the index on.
Settled(p) ==
    IF Writing(p) /\ p \notin crowded /\ pc'[p] = "idle" /\ result'[p].status = "ok"
    THEN {Target(p)} ELSE {}

\* list, and lock with its catalog, answer with the whole index (ListLoad), a
\* resolve with the entry whose archive it has read.
Answers(p) ==
    IF Returns(p) /\ result'[p].status = "ok"
    THEN CASE cmd[p].op = "list"    -> index
           [] cmd[p].op = "resolve" -> mem[p]
           [] OTHER                 -> {}
    ELSE {}

RStep(p) == (Open(p) \/ Advance(p)) /\ Remember({}, {}, Settled(p), Answers(p))

\* A command that is killed or fails leaves what it was changing in doubt.
RCrash(p) ==
    Crash(p) /\ Remember({}, IF Writing(p) THEN {Target(p)} ELSE {}, {}, {})

\* A remove that could not delete is not one to rely on.
RRemovalFails(p) == RemovalFails(p) /\ Remember({p}, {}, {}, {})

RTamper(q) ==
    /\ Tamper(q)
    /\ Remember({p \in Procs : Writing(p) /\ Home(p) = q},
                {k \in Key : Place(k) = q}, {}, {})

RNext ==
    \/ \E p \in Procs : RStep(p) \/ RCrash(p) \/ RRemovalFails(p)
    \/ \E q \in Places : RTamper(q)

RSpec == RInit /\ [][RNext]_<<vars, history>>

AtRest == \A p \in Procs : ~Busy(p)

\* Damage stays where it was done: at rest, as long as the index can be read,
\* every name and version is exactly as the index says, except those in
\* doubt.  In doubt are a name and version that a killed or failing command
\* was changing, that a remove could not delete, that someone edited, that one
\* of several commands at once changed, or whose file was rewritten or deleted
\* under another name that leads to it.  An add of it alone, with `force` if
\* need be, ends the doubt (the archive is written before the index, registry.rs:
\* 167-184), and so does a remove alone that still finds an entry (it unlinks
\* before it rewrites, 234-245).  A remove that finds none deletes nothing: an
\* archive left without an entry stays where it is.
DamageConfined ==
    AtRest =>
        \/ index = Absent /\ \A q \in Places : files[q] = Absent
        \/ index \in {Empty, Garbage}
        \/ \A k \in Key \ suspect : AgreesWith(index, k)

\* What lock pins and what resolve returns the path of can be had later: until
\* a command that replaces or removes that very version, or until it is in
\* doubt, the entry stays in the index and its archive in its file (cmd_lock,
\* main.rs:490-497, takes the index at its word; resolve, registry.rs:218,
\* gives back a path that the caller opens later).
PromisesKept ==
    AtRest /\ IndexReadable =>
        \A e \in promised :
            KeyOf(e) \notin suspect =>
                e \in index /\ files[Place(KeyOf(e))] \in Archives
                /\ EntryOf(files[Place(KeyOf(e))]) = e

=============================================================================
