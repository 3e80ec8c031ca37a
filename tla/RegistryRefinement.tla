------------------------- MODULE RegistryRefinement -------------------------
(***************************************************************************)
(* With one writer at a time, the registry of files implements the map of  *)
(* SkillStore.  A write takes effect when index.json is truncated: from    *)
(* then on the entries are those the writer is about to fill in.           *)
(***************************************************************************)
EXTENDS Registry

\* The entries the registry stands for, also in the middle of write_index.
Committed ==
    IF index = Absent THEN {}
    ELSE IF IndexReadable THEN index
    ELSE UNION {mem[p] : p \in {q \in Procs : pc[q] \in {"init_fill", "index_fill"}}}

Recorded(entries, k) == {a \in Archives : KeyOf(a) = k /\ EntryOf(a) \in entries}

Pick(archives) == IF archives = {} THEN Absent ELSE CHOOSE a \in archives : TRUE

installedBar == [k \in Key |-> Pick(Recorded(Committed, k))]

decidedBar ==
    [p \in Procs |->
        CASE pc[p] = "index_fill" -> result[p]
          [] pc[p] = "read_archive" ->
                Result("ok", CHOOSE a \in Archives : EntryOf(a) \in mem[p])
          [] OTHER -> Result("none", Absent)]

resultBar == [p \in Procs |-> IF pc[p] = "idle" THEN result[p] ELSE Result("none", Absent)]

Store == INSTANCE SkillStore WITH
    None <- Absent, installed <- installedBar, decided <- decidedBar,
    result <- resultBar

\* Every step of the code is a step of the map or changes nothing in it: no
\* update is lost, other bytes never replace an archive without force, a
\* resolve answers the highest match at some moment of its run, and no add or
\* remove fails half way (registry.rs:119-247).
ImplementsStore == Store!Spec

=============================================================================
