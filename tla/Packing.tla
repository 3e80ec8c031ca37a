------------------------------ MODULE Packing ------------------------------
(***************************************************************************)
(* Packing a skill directory (pack_dir and pack_dir_validated of           *)
(* src/src/lib.rs) while its author may still be editing it.  The packer   *)
(* reads skill.json up to three times, lists the directory once, and reads *)
(* every file it has listed, one after the other.                          *)
(***************************************************************************)
EXTENDS Naturals, Sequences

CONSTANTS
    Files,      \* numbers, in the order of the relative paths
    Manifest,   \* the file skill.json
    Dirs,       \* directories
    Root,       \* the skill directory
    Way,        \* the directories that lead from Root to a file, Root first
    Contents,   \* of files
    Json,       \* contents pack_dir can read a name and version from
    Valid,      \* contents that pass Manifest::parse_and_validate
    MetaOf,     \* the name and version in a content of Json
    Default,    \* directory name and "0.0.0"
    Absent,     \* no such file
    MaxEdits

ASSUME PackingAssumption ==
    /\ Files \subseteq Nat
    /\ Manifest \in Files
    /\ Valid \subseteq Json /\ Json \subseteq Contents
    /\ Absent \notin Contents
    /\ Root \in Dirs
    /\ Way \in [Files -> Seq(Dirs)]
    /\ \A f \in Files : Len(Way[f]) > 0 /\ Way[f][1] = Root
    /\ MaxEdits \in Nat

Phases == {"validate", "validate_read", "collect", "meta", "meta_read", "read", "done"}

Outcomes == {"none", "ok", "no_manifest", "invalid", "no_files", "not_json", "io_error"}

VARIABLES
    tree,       \* content of every file, or Absent
    validated,  \* whether pack_dir_validated was called
    phase,      \* what the packer does next
    stack,      \* directories to list
    found,      \* files listed
    meta,       \* name and version for the header
    packed,     \* content of the files read so far
    outcome,
    edits,
    past        \* history: what every file has been since the call

vars == <<tree, validated, phase, stack, found, meta, packed, outcome, edits, past>>

TypeOK ==
    /\ tree \in [Files -> Contents \union {Absent}]
    /\ validated \in BOOLEAN
    /\ phase \in Phases
    /\ stack \subseteq Dirs
    /\ found \subseteq Files
    /\ meta \in {MetaOf[c] : c \in Json} \union {Default}
    /\ DOMAIN packed \subseteq found /\ \A f \in DOMAIN packed : packed[f] \in Contents
    /\ outcome \in Outcomes
    /\ edits \in 0..MaxEdits
    /\ past \in [Files -> SUBSET (Contents \union {Absent})]

Init ==
    /\ tree \in [Files -> Contents \union {Absent}]
    /\ validated \in BOOLEAN
    /\ phase = IF validated THEN "validate" ELSE "collect"
    /\ stack = {Root}
    /\ found = {}
    /\ meta = Default
    /\ packed = <<>>
    /\ outcome = "none"
    /\ edits = 0
    /\ past = [f \in Files |-> {tree[f]}]

Stop(result) == phase' = "done" /\ outcome' = result

\* pack_dir_validated, before it calls pack_dir: is there a skill.json?
Validate ==
    /\ phase = "validate"
    /\ IF tree[Manifest] = Absent THEN Stop("no_manifest")
       ELSE phase' = "validate_read" /\ UNCHANGED outcome
    /\ UNCHANGED <<tree, validated, stack, found, meta, packed, edits, past>>

\* Mutant: skill.json is parsed but its rules are not looked at.
ValidateParses ==
    /\ phase = "validate_read"
    /\ IF tree[Manifest] = Absent THEN Stop("io_error")
       ELSE IF tree[Manifest] \notin Json THEN Stop("invalid")
       ELSE phase' = "collect" /\ UNCHANGED outcome
    /\ UNCHANGED <<tree, validated, stack, found, meta, packed, edits, past>>

\* It is read and validated, unless it has gone since.
ValidateRead ==
    /\ phase = "validate_read"
    /\ IF tree[Manifest] = Absent THEN Stop("io_error")
       ELSE IF tree[Manifest] \notin Valid THEN Stop("invalid")
       ELSE phase' = "collect" /\ UNCHANGED outcome
    /\ UNCHANGED <<tree, validated, stack, found, meta, packed, edits, past>>

\* The files in a directory, and those below it too.
In(dir) == {f \in Files : tree[f] # Absent /\ Way[f][Len(Way[f])] = dir}
Under(dir) == {f \in Files : tree[f] # Absent /\ \E i \in 1..Len(Way[f]) : Way[f][i] = dir}

\* Directories in a directory: those on the way to some file.
SubDirs(dir) ==
    {d \in Dirs : \E f \in Under(dir) : \E i \in 2..Len(Way[f]) :
                     Way[f][i - 1] = dir /\ Way[f][i] = d}

\* Mutant: only the root is listed.
ListDirFlat ==
    \E dir \in stack :
        /\ phase = "collect"
        /\ stack' = stack \ {dir}
        /\ found' = found \union In(dir)
        /\ UNCHANGED <<tree, validated, phase, meta, packed, outcome, edits, past>>

\* One turn of collect_files' loop.
ListDir ==
    \E dir \in stack :
        /\ phase = "collect"
        /\ stack' = (stack \ {dir}) \union SubDirs(dir)
        /\ found' = found \union In(dir)
        /\ UNCHANGED <<tree, validated, phase, meta, packed, outcome, edits, past>>

\* read_dir fails: a directory listed in its parent went with its last file.
ListDirFails ==
    /\ phase = "collect"
    /\ \E dir \in stack \ {Root} : Under(dir) = {}
    /\ Stop("io_error")
    /\ UNCHANGED <<tree, validated, stack, found, meta, packed, edits, past>>

Collected ==
    /\ phase = "collect"
    /\ stack = {}
    /\ IF found = {} THEN Stop("no_files") ELSE phase' = "meta" /\ UNCHANGED outcome
    /\ UNCHANGED <<tree, validated, stack, found, meta, packed, edits, past>>

\* Is there a skill.json, for the name and version in the header?
TestMeta ==
    /\ phase = "meta"
    /\ phase' = IF tree[Manifest] = Absent THEN "read" ELSE "meta_read"
    /\ UNCHANGED <<tree, validated, stack, found, meta, packed, outcome, edits, past>>

ReadMeta ==
    /\ phase = "meta_read"
    /\ IF tree[Manifest] = Absent THEN Stop("io_error") /\ UNCHANGED meta
       ELSE IF tree[Manifest] \notin Json THEN Stop("not_json") /\ UNCHANGED meta
       ELSE /\ meta' = MetaOf[tree[Manifest]]
            /\ phase' = "read"
            /\ UNCHANGED outcome
    /\ UNCHANGED <<tree, validated, stack, found, packed, edits, past>>

Unread == found \ DOMAIN packed

\* Mutant: a file that has gone is packed all the same.
ReadFileGone ==
    \E f \in Unread :
        /\ phase = "read"
        /\ \A g \in Unread : f <= g
        /\ packed' = [g \in DOMAIN packed \union {f} |->
                         IF g = f THEN tree[f] ELSE packed[g]]
        /\ UNCHANGED <<tree, validated, phase, stack, found, meta, outcome, edits, past>>

\* Size, hash and blob of an entry come from one read of the file.
ReadFile ==
    \E f \in Unread :
        /\ phase = "read"
        /\ \A g \in Unread : f <= g
        /\ IF tree[f] = Absent
           THEN Stop("io_error") /\ UNCHANGED packed
           ELSE /\ packed' = [g \in DOMAIN packed \union {f} |->
                                 IF g = f THEN tree[f] ELSE packed[g]]
                /\ UNCHANGED <<phase, outcome>>
        /\ UNCHANGED <<tree, validated, stack, found, meta, edits, past>>

Serialize ==
    /\ phase = "read"
    /\ Unread = {}
    /\ Stop("ok")
    /\ UNCHANGED <<tree, validated, stack, found, meta, packed, edits, past>>

\* The author saves or deletes a file.
Edit ==
    /\ phase # "done"
    /\ edits < MaxEdits
    /\ \E f \in Files : \E c \in Contents \union {Absent} :
          /\ c # tree[f]
          /\ tree' = [tree EXCEPT ![f] = c]
          /\ past' = [past EXCEPT ![f] = @ \union {c}]
    /\ edits' = edits + 1
    /\ UNCHANGED <<validated, phase, stack, found, meta, packed, outcome>>

Next ==
    \/ Validate \/ ValidateRead \/ ListDir \/ ListDirFails \/ Collected
    \/ TestMeta \/ ReadMeta \/ ReadFile \/ Serialize \/ Edit

Spec == Init /\ [][Next]_vars

-----------------------------------------------------------------------------
(* Correctness.                                                            *)

\* Whatever the author edits meanwhile, an archive holds every file that was
\* left alone, with its bytes, and no file that was never there; a file that
\* was edited comes, if it comes, with bytes it had during the call; name
\* and version are those of one state of skill.json (lib.rs:176-258).
ArchiveIsOfTheDirectory ==
    outcome = "ok" =>
        /\ \A f \in Files :
              /\ f \in DOMAIN packed => packed[f] \in past[f]
              /\ Absent \notin past[f] => f \in DOMAIN packed
        /\ \/ meta \in {MetaOf[c] : c \in past[Manifest] \intersect Json}
           \/ meta = Default /\ Absent \in past[Manifest]
        /\ validated => past[Manifest] \intersect Valid # {}

Present == {f \in Files : tree[f] # Absent}

\* pack refuses for a reason: with nobody editing it fails exactly for an
\* empty directory, a skill.json that is not JSON, or, with --validate, one
\* that breaks the rules or is missing; and if it fails in the middle of an
\* edit, a file went away under it or skill.json had a bad state (lib.rs:207-275).
RefusalsHaveAReason ==
    /\ phase = "done" /\ edits = 0 =>
          (outcome = "ok" <=>
              /\ Present # {}
              /\ tree[Manifest] \in Json \union {Absent}
              /\ validated => tree[Manifest] \in Valid)
    /\ outcome = "io_error" => \E f \in Files : Absent \in past[f] /\ past[f] # {Absent}
    /\ outcome = "no_files" => \A f \in Files : Absent \in past[f]
    /\ outcome = "not_json" => past[Manifest] \intersect (Contents \ Json) # {}
    /\ outcome = "invalid" => past[Manifest] \intersect (Contents \ Valid) # {}

\* pack_dir_validated is documented to "reject a directory whose skill.json
\* fails the rich rules": with --validate an archive has a valid manifest, if
\* any.  An edit between the check and the second read breaks this.
ValidatedManifestIsPacked ==
    outcome = "ok" /\ validated /\ Manifest \in DOMAIN packed => packed[Manifest] \in Valid

=============================================================================
