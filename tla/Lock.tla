-------------------------------- MODULE Lock --------------------------------
(***************************************************************************)
(* A manifest on its way to a lockfile: `manifest validate` and then       *)
(* `lock` on one skill.json (src/src/main.rs).  Lock reads the manifest    *)
(* and goes on without the rules of validate, so that what the resolver    *)
(* gets is any manifest that can be read.                                  *)
(***************************************************************************)
EXTENDS Resolver

CONSTANT Cases  \* documents considered, each with an index it meets

ASSUME CasesAssumption == Cases \subseteq [document : Documents, index : Indexes]

VARIABLE lockfile   \* of an earlier run, cut by fs::write, or the new one

vars == <<validateVars, resolverVars, lockfile>>

Lockfile(root, chosen) ==
    [text |-> "new", root |-> root.name, root_version |-> root.version, pins |-> chosen]

Init ==
    /\ \E c \in Cases : doc = c.document /\ entries = c.index
    /\ ValidateInit
    /\ ResolverInit
    /\ lockfile = [text |-> "previous"]

Validate == ValidateNext /\ UNCHANGED <<resolverVars, lockfile>>

\* cmd_lock loads the manifest, and needs nothing else of the verdict.
Loaded == phase = "done" /\ verdict # "unreadable"

\* Registry::open or catalog fails, before the first dependency is looked at.
CatalogFails ==
    /\ Loaded /\ outcome = "running" /\ i = 1
    /\ outcome' = "registry_error"
    /\ UNCHANGED <<validateVars, entries, i, pins, conflicts, lockfile>>

Resolve ==
    /\ Loaded /\ outcome = "running"
    /\ ResolverNext
    /\ UNCHANGED <<validateVars, lockfile>>

TruncateLockfile ==
    /\ outcome = "locked" /\ lockfile.text = "previous"
    /\ lockfile' = [text |-> "empty"]
    /\ UNCHANGED <<validateVars, resolverVars>>

WriteLockfile ==
    /\ lockfile.text = "empty"
    /\ lockfile' = Lockfile(doc, pins)
    /\ UNCHANGED <<validateVars, resolverVars>>

Next == Validate \/ CatalogFails \/ Resolve \/ TruncateLockfile \/ WriteLockfile

Spec == Init /\ [][Next]_vars

-----------------------------------------------------------------------------
(* Correctness.                                                            *)

\* What validation is good for: the only thing that can keep a valid manifest
\* from being locked is a build missing in the registry, and its lockfile
\* has one pin for a name, strictly in order, none for the skill itself
\* (the rules of validate, manifest.rs:280-281, taken to resolve).
ValidManifestLocks ==
    verdict = "valid" =>
        /\ \A c \in DOMAIN conflicts : conflicts[c].reason # "invalid"
        /\ lockfile.text = "new" => \A x, y \in DOMAIN lockfile.pins :
              /\ lockfile.pins[x].name # lockfile.root
              /\ x < y => lockfile.pins[x].name < lockfile.pins[y].name

=============================================================================
