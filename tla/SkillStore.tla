----------------------------- MODULE SkillStore -----------------------------
(***************************************************************************)
(* What src/src/registry.rs promises a user: a map from name and version   *)
(* to an archive.  Every command takes effect at one moment between its    *)
(* start and its return, and add follows the rule of its doc comment:      *)
(* adding the same bytes again changes nothing, other bytes need `force`.  *)
(***************************************************************************)
EXTENDS Naturals

CONSTANTS Procs, Names, Versions, NotSemver, Archives, Reqs, None

Key == Names \X Versions
KeyOf(x) == <<x.name, x.version>>
Acceptable(a) == a.intact /\ a.version \in Versions

Command ==
    [op : {"add"}, archive : Archives, force : BOOLEAN]
    \union [op : {"remove"}, name : Names, version : Versions]
    \union [op : {"resolve"}, name : Names, req : Reqs]
    \union [op : {"list"}]

NoCommand == [op |-> "none"]
Outcome(status, found) == [status |-> status, found |-> found]
Undecided == Outcome("none", None)

VARIABLES
    installed,  \* the archive of every name and version, or None
    cmd,        \* the command each process runs
    decided,    \* its outcome once it has taken effect
    result      \* the outcome of the last command, between commands

vars == <<installed, cmd, decided, result>>

Init ==
    /\ installed = [k \in Key |-> None]
    /\ cmd = [p \in Procs |-> NoCommand]
    /\ decided = [p \in Procs |-> Undecided]
    /\ result = [p \in Procs |-> Undecided]

Request(p) ==
    /\ cmd[p] = NoCommand
    /\ cmd' \in {[cmd EXCEPT ![p] = c] : c \in Command}
    /\ result' = [result EXCEPT ![p] = Undecided]
    /\ UNCHANGED <<installed, decided>>

\* The command of p takes effect, with this outcome.
Decide(p, status, found) ==
    /\ decided[p] = Undecided
    /\ decided' = [decided EXCEPT ![p] = Outcome(status, found)]
    /\ UNCHANGED <<cmd, result>>

Return(p, outcome) ==
    /\ cmd' = [cmd EXCEPT ![p] = NoCommand]
    /\ decided' = [decided EXCEPT ![p] = Undecided]
    /\ result' = [result EXCEPT ![p] = outcome]
    /\ UNCHANGED installed

Install(p) ==
    /\ cmd[p].op = "add"
    /\ LET a == cmd[p].archive IN
       /\ Acceptable(a)
       /\ installed[KeyOf(a)] \in {None, a} \/ cmd[p].force
       /\ installed' = [installed EXCEPT ![KeyOf(a)] = a]
    /\ Decide(p, "ok", None)

Refuse(p) ==
    /\ cmd[p].op = "add"
    /\ decided[p] = Undecided
    /\ LET a == cmd[p].archive IN
       \/ ~Acceptable(a) /\ Return(p, Outcome("rejected", None))
       \/ /\ Acceptable(a)
          /\ installed[KeyOf(a)] \notin {None, a} /\ ~cmd[p].force
          /\ Return(p, Outcome("conflict", None))

Uninstall(p) ==
    /\ cmd[p].op = "remove"
    /\ LET k == KeyOf(cmd[p]) IN
       /\ installed' = [installed EXCEPT ![k] = None]
       /\ Decide(p, IF installed[k] = None THEN "no_entry" ELSE "ok", None)

Candidates(p) ==
    {k \in Key : /\ k[1] = cmd[p].name /\ k[2] \in cmd[p].req
                 /\ installed[k] # None}

Lookup(p) ==
    /\ cmd[p].op = "resolve"
    /\ \E k \in Candidates(p) :
          /\ \A c \in Candidates(p) : c[2] <= k[2]
          /\ Decide(p, "ok", installed[k])
    /\ UNCHANGED installed

NoMatch(p) ==
    /\ cmd[p].op = "resolve"
    /\ decided[p] = Undecided
    /\ Candidates(p) = {}
    /\ Return(p, Outcome("no_match", None))

List(p) == cmd[p].op = "list" /\ Return(p, Outcome("ok", None))

Respond(p) == decided[p] # Undecided /\ Return(p, decided[p])

\* A reader may meet a writer half way: it fails, and answers nothing wrong.
\* A writer never fails this way.
ReadFails(p) ==
    /\ cmd[p].op \in {"resolve", "list"}
    /\ \E status \in {"unreadable", "io_error", "modified"} :
          Return(p, Outcome(status, None))

Next == \E p \in Procs :
    \/ Request(p) \/ Install(p) \/ Refuse(p) \/ Uninstall(p)
    \/ Lookup(p) \/ NoMatch(p) \/ List(p) \/ Respond(p) \/ ReadFails(p)

Spec == Init /\ [][Next]_vars

=============================================================================
