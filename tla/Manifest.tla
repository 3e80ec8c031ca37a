------------------------------ MODULE Manifest ------------------------------
(***************************************************************************)
(* The typed manifest of src/src/manifest.rs: what a skill.json must look  *)
(* like to be read, the rules `validate` goes through one by one while it  *)
(* collects every problem, and the JSON Schema that is published for the   *)
(* same documents.                                                         *)
(***************************************************************************)
EXTENDS Naturals, Sequences, FiniteSets, SequencesExt

CONSTANTS
    NumNames,   \* names are 1..NumNames, in their order
    Blank,      \* names with nothing but white space
    Reqs,       \* requirements that parse
    BadReq,     \* a requirement that VersionReq::parse refuses
    Documents   \* contents of skill.json considered

Names == 1..NumNames
Dependency == [name : Names, req : Reqs \union {BadReq}]

MANIFEST_SCHEMA_VERSION == 1
CapabilityKinds == {"fs.read", "fs.write", "net", "exec", "env"}

\* Characters: a lower case letter or a digit, one of ". _ -", any other.
Char == {"a", "-", "A"}

\* A document as it is written.  `name` is what names are compared by and
\* `spelling` its characters; `unknown` says that some key is no field's,
\* `misspelt` that a scope was given under such a key.
Capability(kinds) == [kind : kinds, scope : Seq({"blank", "text"}), misspelt : BOOLEAN]
IoTypes == {"string", "number", "boolean", "object", "array", "file"}
IoField(types) == [name : {"blank", "text"}, type : types]

Document ==
    [json : BOOLEAN, unknown : BOOLEAN, manifest_version : Nat,
     name : Names, spelling : Seq(Char), version : {"semver", "other"},
     dependencies : Seq(Dependency),
     capabilities : Seq(Capability(CapabilityKinds \union {"other"})),
     engine : {"absent", "null", "req", "other"},
     entrypoint : {"absent", "null", "safe", "unsafe"},
     inputs : Seq(IoField(IoTypes \union {"other"})),
     outputs : Seq(IoField(IoTypes \union {"other"}))]

ASSUME ManifestAssumption ==
    /\ NumNames \in Nat
    /\ BadReq \notin Reqs
    /\ Documents \subseteq Document

-----------------------------------------------------------------------------
(* Reading a document.                                                     *)

\* serde refuses an unknown key of the manifest itself and an unknown kind.
Unreadable(d) ==
    \/ ~d.json \/ d.unknown
    \/ \E k \in DOMAIN d.capabilities : d.capabilities[k].kind \notin CapabilityKinds

\* A key inside a capability that is no field's is passed over.
ScopeOf(capability) == IF capability.misspelt THEN <<>> ELSE capability.scope

\* Mutant: the end of a name is not looked at.
NameIssuesAtStart(s) ==
    IF s = <<>> THEN <<"name_empty">>
    ELSE (IF \E k \in DOMAIN s : s[k] = "A" THEN <<"name_charset">> ELSE <<>>)
         \o (IF s[1] = "-" THEN <<"name_separator">> ELSE <<>>)

\* validate_name.
NameIssues(s) ==
    IF s = <<>> THEN <<"name_empty">>
    ELSE (IF \E k \in DOMAIN s : s[k] = "A" THEN <<"name_charset">> ELSE <<>>)
         \o (IF s[1] = "-" \/ s[Len(s)] = "-" THEN <<"name_separator">> ELSE <<>>)

(* The JSON Schema (json_schema), which a manifest can be held against      *)
(* without this program.                                                   *)

SchemaKinds == CapabilityKinds
SchemaTypes == {"string", "number", "boolean", "object", "array", "file"}

\* ^[a-z0-9]([a-z0-9._-]*[a-z0-9])?$
Pattern(s) ==
    \/ s = <<"a">>
    \/ /\ Len(s) >= 2 /\ s[1] = "a" /\ s[Len(s)] = "a"
       /\ \A k \in 2..(Len(s) - 1) : s[k] \in {"a", "-"}

\* Nothing but strings for the optional keys, and no key of its own making
\* at any level.
SchemaAccepts(d) ==
    /\ d.json /\ ~d.unknown
    /\ d.manifest_version \in 1..MANIFEST_SCHEMA_VERSION
    /\ Pattern(d.spelling)
    /\ d.engine # "null" /\ d.entrypoint # "null"
    /\ \A k \in DOMAIN d.capabilities :
          d.capabilities[k].kind \in SchemaKinds /\ ~d.capabilities[k].misspelt
    /\ \A fields \in {d.inputs, d.outputs} :
          \A k \in DOMAIN fields : fields[k].type \in SchemaTypes

-----------------------------------------------------------------------------
VARIABLES
    doc,        \* the document
    phase,      \* "load", "head", a list of the document, "scope",
                \* "compat", "done"
    at,         \* the element of that list looked at next
    sub,        \* the scope entry of a capability looked at next
    seen,       \* names or kinds of the list met so far
    issues,     \* problems found, as <<field, element, problem>>
    verdict     \* "none", "unreadable", "valid" or "invalid"

validateVars == <<doc, phase, at, sub, seen, issues, verdict>>

ValidateInit ==
    /\ doc \in Documents
    /\ phase = "load"
    /\ at = 1
    /\ sub = 1
    /\ seen = {}
    /\ issues = <<>>
    /\ verdict = "none"

\* What follows each list, and with which state.
Go(next) == phase' = next /\ at' = 1 /\ sub' = 1 /\ seen' = {}

If(broken, issue) == IF broken THEN <<issue>> ELSE <<>>
Found(list) == issues' = issues \o list

Load ==
    /\ phase = "load"
    /\ IF Unreadable(doc)
       THEN Go("done") /\ verdict' = "unreadable"
       ELSE Go("head") /\ UNCHANGED verdict
    /\ UNCHANGED <<doc, issues>>

CheckHead ==
    /\ phase = "head"
    /\ Found(If(doc.manifest_version \notin 1..MANIFEST_SCHEMA_VERSION,
                <<"manifest_version", 0, "unsupported">>)
             \o [k \in DOMAIN NameIssues(doc.spelling) |->
                    <<"name", 0, NameIssues(doc.spelling)[k]>>]
             \o If(doc.version # "semver", <<"version", 0, "not_semver">>))
    /\ Go("dependencies")
    /\ UNCHANGED <<doc, verdict>>

\* Mutant: only a neighbour of the same name is a duplicate.
CheckDependencyNeighbours ==
    /\ phase = "dependencies"
    /\ at <= Len(doc.dependencies)
    /\ LET dependency == doc.dependencies[at] IN
       /\ Found(If(dependency.name \in Blank, <<phase, at, "empty">>)
                \o If(dependency.name = doc.name, <<phase, at, "self">>)
                \o If(dependency.name \in seen, <<phase, at, "duplicate">>)
                \o If(dependency.req = BadReq, <<phase, at, "req">>))
       /\ seen' = {dependency.name}
    /\ at' = at + 1
    /\ UNCHANGED <<doc, phase, sub, verdict>>

CheckDependency ==
    /\ phase = "dependencies"
    /\ at <= Len(doc.dependencies)
    /\ LET dependency == doc.dependencies[at] IN
       /\ Found(If(dependency.name \in Blank, <<phase, at, "empty">>)
                \o If(dependency.name = doc.name, <<phase, at, "self">>)
                \o If(dependency.name \in seen, <<phase, at, "duplicate">>)
                \o If(dependency.req = BadReq, <<phase, at, "req">>))
       /\ seen' = seen \union {dependency.name}
    /\ at' = at + 1
    /\ UNCHANGED <<doc, phase, sub, verdict>>

CheckCapability ==
    /\ phase = "capabilities"
    /\ at <= Len(doc.capabilities)
    /\ LET capability == doc.capabilities[at] IN
       /\ Found(If(capability.kind \in seen, <<phase, at, "duplicate">>))
       /\ seen' = seen \union {capability.kind}
    /\ phase' = "scope"
    /\ sub' = 1
    /\ UNCHANGED <<doc, at, verdict>>

Scope == ScopeOf(doc.capabilities[at])

CheckScope ==
    /\ phase = "scope"
    /\ IF sub <= Len(Scope)
       THEN /\ Found(If(Scope[sub] = "blank", <<"scope", <<at, sub>>, "empty">>))
            /\ sub' = sub + 1
            /\ UNCHANGED <<at, phase>>
       ELSE /\ phase' = "capabilities"
            /\ at' = at + 1
            /\ UNCHANGED <<sub, issues>>
    /\ UNCHANGED <<doc, seen, verdict>>

CheckCompat ==
    /\ phase = "compat"
    /\ Found(If(doc.engine = "other", <<"engine", 0, "req">>)
             \o If(doc.entrypoint = "unsafe", <<"entrypoint", 0, "unsafe">>))
    /\ Go("inputs")
    /\ UNCHANGED <<doc, verdict>>

CheckField ==
    /\ phase \in {"inputs", "outputs"}
    /\ at <= Len(doc[phase])
    /\ LET field == doc[phase][at] IN
       Found(If(field.name = "blank", <<phase, at, "empty">>)
             \o If(field.type \notin IoTypes, <<phase, at, "type">>))
    /\ at' = at + 1
    /\ UNCHANGED <<doc, phase, sub, seen, verdict>>

Following == [dependencies |-> "capabilities", capabilities |-> "compat",
              inputs |-> "outputs", outputs |-> "done"]

\* A list is through; after the last one the verdict follows.
NextList ==
    /\ phase \in DOMAIN Following
    /\ at > Len(doc[phase])
    /\ Go(Following[phase])
    /\ verdict' = IF phase # "outputs" THEN verdict
                  ELSE IF issues = <<>> THEN "valid" ELSE "invalid"
    /\ UNCHANGED <<doc, issues>>

ValidateNext ==
    \/ Load \/ CheckHead \/ CheckDependency
    \/ CheckCapability \/ CheckScope \/ CheckCompat \/ CheckField \/ NextList

ValidateSpec == ValidateInit /\ [][ValidateNext]_validateVars

-----------------------------------------------------------------------------
(* Correctness.                                                            *)

\* The breaches of the rules that the doc comment of validate lists
\* (manifest.rs:276-285), each named by field, element and problem, without
\* the order in which they are looked for.
Breach(broken, issue) == IF broken THEN {issue} ELSE {}

HeadBreaches(d) ==
    Breach(d.manifest_version # 1, <<"manifest_version", 0, "unsupported">>)
    \union {<<"name", 0, problem>> : problem \in ToSet(NameIssues(d.spelling))}
    \union Breach(d.version # "semver", <<"version", 0, "not_semver">>)

DependencyBreaches(d, k) ==
    LET x == d.dependencies[k]
        repeated == \E h \in 1..(k - 1) : d.dependencies[h].name = x.name
    IN  Breach(x.name \in Blank, <<"dependencies", k, "empty">>)
        \union Breach(x.name = d.name, <<"dependencies", k, "self">>)
        \union Breach(repeated, <<"dependencies", k, "duplicate">>)
        \union Breach(x.req = BadReq, <<"dependencies", k, "req">>)

CapabilityBreaches(d, k) ==
    Breach(\E h \in 1..(k - 1) : d.capabilities[h].kind = d.capabilities[k].kind,
           <<"capabilities", k, "duplicate">>)

ScopeBreaches(d, k, j) ==
    Breach(ScopeOf(d.capabilities[k])[j] = "blank", <<"scope", <<k, j>>, "empty">>)

CompatBreaches(d) ==
    Breach(d.engine = "other", <<"engine", 0, "req">>)
    \union Breach(d.entrypoint = "unsafe", <<"entrypoint", 0, "unsafe">>)

FieldBreaches(d, list, k) ==
    Breach(d[list][k].name = "blank", <<list, k, "empty">>)
    \union Breach(d[list][k].type \notin IoTypes, <<list, k, "type">>)

Broken(d) ==
    HeadBreaches(d)
    \union (UNION {DependencyBreaches(d, k) : k \in 1..Len(d.dependencies)})
    \union (UNION {CapabilityBreaches(d, k) : k \in 1..Len(d.capabilities)})
    \union (UNION {UNION {ScopeBreaches(d, k, j) : j \in 1..Len(ScopeOf(d.capabilities[k]))} :
                      k \in 1..Len(d.capabilities)})
    \union CompatBreaches(d)
    \union (UNION {FieldBreaches(d, "inputs", k) : k \in 1..Len(d.inputs)})
    \union (UNION {FieldBreaches(d, "outputs", k) : k \in 1..Len(d.outputs)})

Done == phase = "done"

\* Validation collects every problem of the manifest and not only the first
\* (manifest.rs:273-274): what it reports at its end is exactly what is
\* broken, each problem once, and nothing for what cannot be read.
IssuesAreComplete ==
    Done =>
        /\ Cardinality(ToSet(issues)) = Len(issues)
        /\ ToSet(issues) = IF verdict = "unreadable" THEN {} ELSE Broken(doc)

\* The same rules, one predicate for every section.
HeadKept(d) == d.manifest_version = 1 /\ Pattern(d.spelling) /\ d.version = "semver"

DependencyKept(d, k) ==
    /\ d.dependencies[k].name \notin Blank \union {d.name}
    /\ d.dependencies[k].req # BadReq
    /\ \A h \in 1..(k - 1) : d.dependencies[h].name # d.dependencies[k].name

CapabilityKept(d, k) ==
    \A h \in 1..(k - 1) : d.capabilities[h].kind # d.capabilities[k].kind

ScopeKept(d, k, j) == ScopeOf(d.capabilities[k])[j] # "blank"

CompatKept(d) == d.engine # "other" /\ d.entrypoint # "unsafe"

FieldKept(d, list, k) == d[list][k].name # "blank" /\ d[list][k].type \in IoTypes

Valid(d) ==
    /\ HeadKept(d)
    /\ \A k \in 1..Len(d.dependencies) : DependencyKept(d, k)
    /\ \A k \in 1..Len(d.capabilities) :
          CapabilityKept(d, k) /\ \A j \in 1..Len(ScopeOf(d.capabilities[k])) : ScopeKept(d, k, j)
    /\ CompatKept(d)
    /\ \A k \in 1..Len(d.inputs) : FieldKept(d, "inputs", k)
    /\ \A k \in 1..Len(d.outputs) : FieldKept(d, "outputs", k)

\* A manifest is called valid exactly if it can be read and keeps every rule,
\* the published pattern for its name included: the verdict of the passes
\* over its lists, which know of earlier elements by a set only, is that of
\* the rules (validate, manifest.rs:286-406).
VerdictIsExact ==
    Done => (verdict = "valid" <=> ~Unreadable(doc) /\ Valid(doc))

\* The fields whose rules the schema states as well.
SchemaFields == {"manifest_version", "name"}

Covered(issue) == issue[1] \in SchemaFields \/ issue[3] = "type"

\* What serde lets pass and the schema does not: a misspelt key inside an
\* element, or null for an absent value.
Plain(d) ==
    /\ d.engine # "null" /\ d.entrypoint # "null"
    /\ \A k \in DOMAIN d.capabilities : ~d.capabilities[k].misspelt

\* The schema and the program agree on a manifest: the schema takes nothing
\* that cannot be read or that breaks one of its own rules here, and refuses
\* nothing else that is written plainly (manifest.rs:9-12, json_schema).
SchemaAgrees ==
    LET passes == verdict # "unreadable" /\ \A k \in DOMAIN issues : ~Covered(issues[k])
    IN  Done => /\ SchemaAccepts(doc) => passes
                /\ Plain(doc) /\ passes => SchemaAccepts(doc)

=============================================================================
