--------------------------- MODULE ManifestProofs ---------------------------
(***************************************************************************)
(* Proofs about the validation of a manifest: the rule for names is the    *)
(* published pattern, the passes over the lists of a document come to the  *)
(* verdict of the rules and list every breach of them once, and what they  *)
(* pass is what the schema accepts.                                        *)
(***************************************************************************)
EXTENDS Manifest, SequenceTheorems, FiniteSetTheorems, TLAPS

\* The rule for names as validate_name writes it, by its three problems, is
\* the pattern that the schema publishes, for a name of any length.
THEOREM NameRuleIsThePattern ==
    \A s \in Seq(Char) : NameIssues(s) = <<>> <=> Pattern(s)
<1> SUFFICES ASSUME NEW s \in Seq(Char)
             PROVE  NameIssues(s) = <<>> <=> Pattern(s)
    OBVIOUS
<1> DEFINE Charset == \A k \in DOMAIN s : s[k] # "A"
           Ends == s[1] # "-" /\ s[Len(s)] # "-"
<1>1. s # <<>> => (NameIssues(s) = <<>> <=> Charset /\ Ends)
    <2>1. \A b, c \in BOOLEAN :
             (IF b THEN <<"name_charset">> ELSE <<>>)
             \o (IF c THEN <<"name_separator">> ELSE <<>>) = <<>> <=> ~b /\ ~c
        OBVIOUS
    <2>2. QED BY <2>1 DEF NameIssues
<1>2. s # <<>> => (Charset /\ Ends <=> Pattern(s))
    <2> SUFFICES ASSUME s # <<>>
                 PROVE  Charset /\ Ends <=> Pattern(s)
        OBVIOUS
    <2>1. Len(s) \in Nat \ {0} /\ DOMAIN s = 1..Len(s) /\ \A k \in 1..Len(s) : s[k] \in Char
        OBVIOUS
    <2>2. CASE Len(s) = 1
        BY <2>1, <2>2 DEF Pattern, Char
    <2>3. CASE Len(s) >= 2
        BY <2>1, <2>3 DEF Pattern, Char
    <2>4. QED BY <2>1, <2>2, <2>3
<1>3. s = <<>> => NameIssues(s) # <<>> /\ ~Pattern(s)
    BY DEF NameIssues, Pattern
<1>4. QED BY <1>1, <1>2, <1>3

-----------------------------------------------------------------------------
(* Lists of problems.                                                      *)

Fields == {"manifest_version", "name", "version", "dependencies", "capabilities",
           "scope", "engine", "entrypoint", "inputs", "outputs"}
NameProblems == {"name_empty", "name_charset", "name_separator"}
Problems == NameProblems \union
            {"unsupported", "not_semver", "empty", "self", "duplicate", "req", "unsafe", "type"}

Issue == Fields \X (Nat \union (Nat \X Nat)) \X Problems

LEMMA EmptyConcat ==
    \A s, t \in Seq(Issue) : /\ s \o t \in Seq(Issue)
                             /\ s \o t = <<>> <=> s = <<>> /\ t = <<>>
OBVIOUS

LEMMA NameIssuesType == \A s \in Seq(Char) : NameIssues(s) \in Seq(NameProblems)
<1> SUFFICES ASSUME NEW s \in Seq(Char)
             PROVE  NameIssues(s) \in Seq(NameProblems)
    OBVIOUS
<1>1. /\ <<>> \in Seq(NameProblems)
      /\ \A p \in NameProblems : <<p>> \in Seq(NameProblems)
    OBVIOUS
<1>2. \A p \in {"name_empty", "name_charset", "name_separator"} : <<p>> \in Seq(NameProblems)
    BY <1>1 DEF NameProblems
<1> DEFINE first == IF \E k \in DOMAIN s : s[k] = "A" THEN <<"name_charset">> ELSE <<>>
           second == IF s[1] = "-" \/ s[Len(s)] = "-" THEN <<"name_separator">> ELSE <<>>
<1>3. first \in Seq(NameProblems) /\ second \in Seq(NameProblems)
    BY <1>1, <1>2
<1>4. NameIssues(s) = IF s = <<>> THEN <<"name_empty">> ELSE first \o second
    BY DEF NameIssues
<1> HIDE DEF first, second
<1>5. first \o second \in Seq(NameProblems)
    BY <1>3
<1>6. QED BY <1>2, <1>4, <1>5

LEMMA NameIssueList ==
    ASSUME NEW s \in Seq(Char)
    PROVE  LET list == [k \in DOMAIN NameIssues(s) |-> <<"name", 0, NameIssues(s)[k]>>]
           IN  /\ list \in Seq(Issue)
               /\ list = <<>> <=> Pattern(s)
<1> DEFINE n == NameIssues(s)
           list == [k \in DOMAIN n |-> <<"name", 0, n[k]>>]
<1>1. n \in Seq(NameProblems) /\ (n = <<>> <=> Pattern(s))
    BY NameIssuesType, NameRuleIsThePattern
<1> HIDE DEF n
<1>2. list \in Seq(Issue) /\ Len(list) = Len(n)
    <2>1. \A k \in 1..Len(n) : <<"name", 0, n[k]>> \in Issue
        BY <1>1 DEF Issue, Fields, Problems
    <2>2. list \in [1..Len(n) -> Issue] /\ Len(n) \in Nat
        BY <1>1, <2>1
    <2>3. QED BY <2>2
<1> HIDE DEF list
<1>3. list = <<>> <=> n = <<>>
    <2>1. n = <<>> <=> Len(n) = 0
        BY <1>1
    <2>2. list = <<>> <=> Len(list) = 0
        BY <1>2
    <2>3. QED BY <1>2, <2>1, <2>2
<1>4. QED BY <1>1, <1>2, <1>3 DEF n, list

-----------------------------------------------------------------------------
(* The inductive invariant.                                                *)

Phases == {"load", "head", "dependencies", "capabilities", "scope",
           "compat", "inputs", "outputs", "done"}

VTypeInv ==
    /\ doc \in Document
    /\ phase \in Phases
    /\ at \in Nat \ {0}
    /\ sub \in Nat \ {0}
    /\ issues \in Seq(Issue)

\* The set a pass carries along is what it has met.
SeenInv ==
    /\ phase = "dependencies" => seen = {doc.dependencies[h].name : h \in 1..(at - 1)}
    /\ phase = "capabilities" => seen = {doc.capabilities[h].kind : h \in 1..(at - 1)}
    /\ phase = "scope" => /\ seen = {doc.capabilities[h].kind : h \in 1..at}
                          /\ at \in 1..Len(doc.capabilities)

VerdictInv ==
    /\ phase # "done" => verdict = "none"
    /\ verdict = "unreadable" => Unreadable(doc)
    /\ verdict # "unreadable" /\ phase # "load" => ~Unreadable(doc)
    /\ verdict # "unreadable" /\ phase = "done" => (verdict = "valid" <=> issues = <<>>)

\* What has been looked at.
PastHead == phase \notin {"load", "head"}
PastCapabilities == phase \in {"compat", "inputs", "outputs", "done"}
PastCompat == phase \in {"inputs", "outputs", "done"}
PastDependency(k) ==
    \/ phase \in {"capabilities", "scope"} \/ PastCapabilities
    \/ phase = "dependencies" /\ k < at
PastCapability(k) ==
    \/ PastCapabilities
    \/ phase = "capabilities" /\ k < at
    \/ phase = "scope" /\ k <= at
PastScope(k, j) ==
    \/ PastCapabilities
    \/ phase \in {"capabilities", "scope"} /\ k < at
    \/ /\ phase = "scope"
       /\ k = at
       /\ j < sub
PastInput(k) == phase \in {"outputs", "done"} \/ (phase = "inputs" /\ k < at)
PastOutput(k) == phase = "done" \/ (phase = "outputs" /\ k < at)

HeadPart == PastHead => HeadKept(doc)
DependencyPart ==
    \A k \in 1..Len(doc.dependencies) : PastDependency(k) => DependencyKept(doc, k)
CapabilityPart ==
    \A k \in 1..Len(doc.capabilities) : PastCapability(k) => CapabilityKept(doc, k)
ScopePart ==
    \A k \in 1..Len(doc.capabilities) : \A j \in 1..Len(ScopeOf(doc.capabilities[k])) :
        PastScope(k, j) => ScopeKept(doc, k, j)
CompatPart == PastCompat => CompatKept(doc)
InputPart == \A k \in 1..Len(doc.inputs) : PastInput(k) => FieldKept(doc, "inputs", k)
OutputPart == \A k \in 1..Len(doc.outputs) : PastOutput(k) => FieldKept(doc, "outputs", k)

\* What has been looked at keeps the rules.
SoFar ==
    /\ HeadPart /\ DependencyPart /\ CapabilityPart /\ ScopePart
    /\ CompatPart /\ InputPart /\ OutputPart

\* No problem has been found exactly if there is none so far.
ExactInv == verdict # "unreadable" => (issues = <<>> <=> SoFar)

ValidateInv == VTypeInv /\ SeenInv /\ VerdictInv /\ ExactInv

-----------------------------------------------------------------------------
LEMMA ScopeType ==
    ASSUME NEW d \in Document, NEW k \in 1..Len(d.capabilities)
    PROVE  /\ d.capabilities[k] \in Capability(CapabilityKinds \union {"other"})
           /\ ScopeOf(d.capabilities[k]) \in Seq({"blank", "text"})
<1>1. d.capabilities[k] \in Capability(CapabilityKinds \union {"other"})
    BY DEF Document
<1>2. d.capabilities[k].scope \in Seq({"blank", "text"})
    BY <1>1 DEF Capability
<1>3. <<>> \in Seq({"blank", "text"})
    OBVIOUS
<1>4. QED BY <1>1, <1>2, <1>3 DEF ScopeOf

LEMMA ScopeLen ==
    \A d \in Document : \A k \in 1..Len(d.capabilities) :
        /\ Len(ScopeOf(d.capabilities[k])) \in Nat
        /\ DOMAIN ScopeOf(d.capabilities[k]) = 1..Len(ScopeOf(d.capabilities[k]))
<1> SUFFICES ASSUME NEW d \in Document, NEW k \in 1..Len(d.capabilities)
             PROVE  /\ Len(ScopeOf(d.capabilities[k])) \in Nat
                    /\ DOMAIN ScopeOf(d.capabilities[k]) = 1..Len(ScopeOf(d.capabilities[k]))
    OBVIOUS
<1>1. ScopeOf(d.capabilities[k]) \in Seq({"blank", "text"})
    BY ScopeType
<1>2. QED BY <1>1, LenProperties

LEMMA ScopesLen ==
    doc \in Document =>
        /\ Len(doc.capabilities) \in Nat
        /\ \A k \in 1..Len(doc.capabilities) : Len(ScopeOf(doc.capabilities[k])) \in Nat
<1>1. doc \in Document => Len(doc.capabilities) \in Nat
    BY DEF Document
<1>2. QED BY <1>1, ScopeLen

LEMMA InitValidates == ValidateInit => ValidateInv
<1> SUFFICES ASSUME ValidateInit PROVE ValidateInv
    OBVIOUS
<1> USE DEF ValidateInit
<1>1. VTypeInv BY ManifestAssumption DEF VTypeInv, Phases
<1>2. SeenInv BY DEF SeenInv
<1>3. VerdictInv BY DEF VerdictInv
<1>4. SoFar
    BY DEF SoFar, HeadPart, DependencyPart, CapabilityPart, ScopePart, CompatPart,
           InputPart, OutputPart, PastHead, PastCapabilities, PastCompat, PastDependency,
           PastCapability, PastScope, PastInput, PastOutput
<1>5. QED BY <1>1, <1>2, <1>3, <1>4 DEF ValidateInv, ExactInv

-----------------------------------------------------------------------------
(* Every step keeps the invariant: what an action finds is empty exactly   *)
(* if the rules for what it looks at are kept.                             *)

LEMMA DocumentType ==
    ASSUME NEW d \in Document
    PROVE  /\ d.dependencies \in Seq(Dependency)
           /\ d.capabilities \in Seq(Capability(CapabilityKinds \union {"other"}))
           /\ d.inputs \in Seq(IoField(IoTypes \union {"other"}))
           /\ d.outputs \in Seq(IoField(IoTypes \union {"other"}))
           /\ d.spelling \in Seq(Char)
BY DEF Document

LEMMA LoadStep == ValidateInv /\ Load => ValidateInv'
<1> SUFFICES ASSUME ValidateInv, Load PROVE ValidateInv'
    OBVIOUS
<1> USE DEF ValidateInv, Load, Go
<1>1. VTypeInv' BY DEF VTypeInv, Phases
<1>2. SeenInv' BY DEF SeenInv
<1>3. VerdictInv' BY DEF VerdictInv, Unreadable
<1>4. (SoFar /\ SoFar') \/ verdict' = "unreadable"
    BY DEF SoFar, HeadPart, DependencyPart, CapabilityPart, ScopePart, CompatPart,
           InputPart, OutputPart, PastHead, PastCapabilities, PastCompat, PastDependency,
           PastCapability, PastScope, PastInput, PastOutput
<1>5. verdict # "unreadable"
    BY DEF VerdictInv
<1>6. QED BY <1>1, <1>2, <1>3, <1>4, <1>5 DEF ExactInv

LEMMA HeadStep == ValidateInv /\ CheckHead => ValidateInv'
<1> SUFFICES ASSUME ValidateInv, CheckHead PROVE ValidateInv'
    OBVIOUS
<1> DEFINE L1 == If(doc.manifest_version \notin 1..MANIFEST_SCHEMA_VERSION,
                    <<"manifest_version", 0, "unsupported">>)
           L2 == [k \in DOMAIN NameIssues(doc.spelling) |->
                    <<"name", 0, NameIssues(doc.spelling)[k]>>]
           L3 == If(doc.version # "semver", <<"version", 0, "not_semver">>)
<1>1. doc \in Document /\ issues \in Seq(Issue) /\ phase = "head" /\ verdict # "unreadable"
    BY DEF ValidateInv, VTypeInv, VerdictInv, CheckHead
<1>2. L1 \in Seq(Issue) /\ (L1 = <<>> <=> doc.manifest_version = 1)
    <2>1. <<"manifest_version", 0, "unsupported">> \in Issue
        BY DEF Issue, Fields, Problems
    <2>2. doc.manifest_version \in Nat
        BY <1>1 DEF Document
    <2>3. QED BY <2>1, <2>2 DEF If, MANIFEST_SCHEMA_VERSION
<1>3. L2 \in Seq(Issue) /\ (L2 = <<>> <=> Pattern(doc.spelling))
    BY <1>1, DocumentType, NameIssueList
<1>4. L3 \in Seq(Issue) /\ (L3 = <<>> <=> doc.version = "semver")
    <2>1. <<"version", 0, "not_semver">> \in Issue
        BY DEF Issue, Fields, Problems
    <2>2. QED BY <2>1 DEF If
<1>5. issues' = issues \o (L1 \o L2 \o L3)
    BY DEF CheckHead, Found
<1> HIDE DEF L1, L2, L3
<1>6. issues' \in Seq(Issue) /\ (issues' = <<>> <=> issues = <<>> /\ HeadKept(doc))
    BY <1>1, <1>2, <1>3, <1>4, <1>5, EmptyConcat DEF HeadKept
<1>7. VTypeInv' /\ SeenInv' /\ VerdictInv'
    BY <1>6 DEF ValidateInv, VTypeInv, SeenInv, VerdictInv, CheckHead, Go, Phases, Unreadable
<1>8. SoFar /\ (SoFar' <=> HeadKept(doc))
    BY <1>1
    DEF CheckHead, Go, ValidateInv, VTypeInv,
        SoFar, HeadPart, DependencyPart, CapabilityPart, ScopePart, CompatPart,
        InputPart, OutputPart, PastHead, PastCapabilities, PastCompat, PastDependency,
        PastCapability, PastScope, PastInput, PastOutput, HeadKept
<1>9. QED BY <1>1, <1>6, <1>7, <1>8 DEF ValidateInv, ExactInv, CheckHead

LEMMA DependencyStep == ValidateInv /\ CheckDependency => ValidateInv'
<1> SUFFICES ASSUME ValidateInv, CheckDependency PROVE ValidateInv'
    OBVIOUS
<1> DEFINE dependency == doc.dependencies[at]
           L1 == If(dependency.name \in Blank, <<phase, at, "empty">>)
           L2 == If(dependency.name = doc.name, <<phase, at, "self">>)
           L3 == If(dependency.name \in seen, <<phase, at, "duplicate">>)
           L4 == If(dependency.req = BadReq, <<phase, at, "req">>)
<1>1. /\ doc \in Document /\ issues \in Seq(Issue) /\ phase = "dependencies"
      /\ verdict # "unreadable" /\ at \in 1..Len(doc.dependencies)
    BY DEF ValidateInv, VTypeInv, VerdictInv, CheckDependency
<1>2. \A problem \in {"empty", "self", "duplicate", "req"} : <<phase, at, problem>> \in Issue
    BY <1>1 DEF Issue, Fields, Problems
<1>3. L1 \in Seq(Issue) /\ L2 \in Seq(Issue) /\ L3 \in Seq(Issue) /\ L4 \in Seq(Issue)
    BY <1>2 DEF If
<1>4. L1 = <<>> /\ L2 = <<>> /\ L3 = <<>> /\ L4 = <<>> <=> DependencyKept(doc, at)
    <2>1. dependency.name \in seen
             <=> \E h \in 1..(at - 1) : doc.dependencies[h].name = dependency.name
        BY <1>1 DEF ValidateInv, SeenInv
    <2>2. /\ L1 = <<>> <=> dependency.name \notin Blank
          /\ L2 = <<>> <=> dependency.name # doc.name
          /\ L3 = <<>> <=> dependency.name \notin seen
          /\ L4 = <<>> <=> dependency.req # BadReq
        BY DEF If
    <2>3. QED BY <2>1, <2>2 DEF DependencyKept
<1>5. issues' = issues \o (L1 \o L2 \o L3 \o L4)
    BY DEF CheckDependency, Found
<1> HIDE DEF L1, L2, L3, L4
<1>6. issues' \in Seq(Issue) /\ (issues' = <<>> <=> issues = <<>> /\ DependencyKept(doc, at))
    BY <1>1, <1>3, <1>4, <1>5, EmptyConcat
<1>7. VTypeInv'
    BY <1>6 DEF ValidateInv, VTypeInv, CheckDependency
<1>8. SeenInv'
    BY <1>1 DEF ValidateInv, VTypeInv, SeenInv, CheckDependency
<1>9. VerdictInv'
    BY <1>1 DEF ValidateInv, VerdictInv, CheckDependency, Unreadable
<1>10. DependencyPart' <=> DependencyPart /\ DependencyKept(doc, at)
    BY <1>1 DEF CheckDependency, ValidateInv, VTypeInv, DependencyPart, PastDependency,
                PastCapabilities, DependencyKept
<1>11. /\ HeadPart' <=> HeadPart
       /\ CapabilityPart' <=> CapabilityPart
       /\ ScopePart' <=> ScopePart
       /\ CompatPart' <=> CompatPart
       /\ InputPart' <=> InputPart
       /\ OutputPart' <=> OutputPart
    BY <1>1 DEF CheckDependency, HeadPart, CapabilityPart, ScopePart, CompatPart, InputPart,
                OutputPart, PastHead, PastCapabilities, PastCompat, PastCapability, PastScope,
                PastInput, PastOutput, HeadKept, CapabilityKept, ScopeKept, CompatKept, FieldKept
<1>12. SoFar' <=> SoFar /\ DependencyKept(doc, at)
    BY <1>10, <1>11 DEF SoFar
<1>13. QED BY <1>1, <1>6, <1>7, <1>8, <1>9, <1>12 DEF ValidateInv, ExactInv, CheckDependency

LEMMA CapabilityStep == ValidateInv /\ CheckCapability => ValidateInv'
<1> SUFFICES ASSUME ValidateInv, CheckCapability PROVE ValidateInv'
    OBVIOUS
<1> DEFINE capability == doc.capabilities[at]
           L1 == If(capability.kind \in seen, <<phase, at, "duplicate">>)
<1>1. /\ doc \in Document /\ issues \in Seq(Issue) /\ phase = "capabilities"
      /\ verdict # "unreadable" /\ at \in 1..Len(doc.capabilities)
    BY DEF ValidateInv, VTypeInv, VerdictInv, CheckCapability
<1>2. L1 \in Seq(Issue) /\ (L1 = <<>> <=> CapabilityKept(doc, at))
    <2>1. <<phase, at, "duplicate">> \in Issue
        BY <1>1 DEF Issue, Fields, Problems
    <2>2. capability.kind \in seen
             <=> \E h \in 1..(at - 1) : doc.capabilities[h].kind = capability.kind
        BY <1>1 DEF ValidateInv, SeenInv
    <2>3. QED BY <2>1, <2>2 DEF If, CapabilityKept
<1>3. issues' = issues \o L1
    BY DEF CheckCapability, Found
<1> HIDE DEF L1
<1>4. issues' \in Seq(Issue) /\ (issues' = <<>> <=> issues = <<>> /\ CapabilityKept(doc, at))
    BY <1>1, <1>2, <1>3, EmptyConcat
<1>5. VTypeInv'
    BY <1>4 DEF ValidateInv, VTypeInv, CheckCapability, Phases
<1>6. SeenInv'
    BY <1>1 DEF ValidateInv, VTypeInv, SeenInv, CheckCapability
<1>7. VerdictInv'
    BY <1>1 DEF ValidateInv, VerdictInv, CheckCapability, Unreadable
<1>8. CapabilityPart' <=> CapabilityPart /\ CapabilityKept(doc, at)
    BY <1>1 DEF CheckCapability, ValidateInv, VTypeInv, CapabilityPart, PastCapability,
                PastCapabilities, CapabilityKept
<1>9. ScopePart' <=> ScopePart
    <2>1. phase' = "scope" /\ sub' = 1 /\ at' = at /\ doc' = doc
        BY DEF CheckCapability
    <2>2. \A k \in 1..Len(doc.capabilities) : \A j \in 1..Len(ScopeOf(doc.capabilities[k])) :
             PastScope(k, j)' <=> PastScope(k, j)
        BY <1>1, <2>1, ScopesLen DEF PastScope, PastCapabilities
    <2>3. \A k, j : ScopeKept(doc, k, j)' <=> ScopeKept(doc, k, j)
        BY <2>1 DEF ScopeKept
    <2>4. QED BY <2>1, <2>2, <2>3 DEF ScopePart
<1>10. /\ HeadPart' <=> HeadPart
       /\ DependencyPart' <=> DependencyPart
       /\ CompatPart' <=> CompatPart
       /\ InputPart' <=> InputPart
       /\ OutputPart' <=> OutputPart
    BY <1>1 DEF CheckCapability, HeadPart, DependencyPart, CompatPart, InputPart, OutputPart,
                PastHead, PastCapabilities, PastCompat, PastDependency, PastInput, PastOutput,
                HeadKept, DependencyKept, CompatKept, FieldKept
<1>11. SoFar' <=> SoFar /\ CapabilityKept(doc, at)
    BY <1>8, <1>9, <1>10 DEF SoFar
<1>12. QED BY <1>1, <1>4, <1>5, <1>6, <1>7, <1>11 DEF ValidateInv, ExactInv, CheckCapability

LEMMA ScopeStep == ValidateInv /\ CheckScope => ValidateInv'
<1> SUFFICES ASSUME ValidateInv, CheckScope PROVE ValidateInv'
    OBVIOUS
<1> DEFINE L1 == If(Scope[sub] = "blank", <<"scope", <<at, sub>>, "empty">>)
<1>1. /\ doc \in Document /\ issues \in Seq(Issue) /\ phase = "scope"
      /\ verdict # "unreadable" /\ at \in 1..Len(doc.capabilities) /\ sub \in Nat \ {0}
    BY DEF ValidateInv, VTypeInv, SeenInv, VerdictInv, CheckScope
<1>2. Scope = ScopeOf(doc.capabilities[at]) /\ Len(Scope) \in Nat
    BY <1>1, ScopeLen DEF Scope
<1>3. VerdictInv'
    BY <1>1 DEF ValidateInv, VerdictInv, CheckScope, Unreadable
<1>4. /\ HeadPart' <=> HeadPart
      /\ DependencyPart' <=> DependencyPart
      /\ CapabilityPart' <=> CapabilityPart
      /\ CompatPart' <=> CompatPart
      /\ InputPart' <=> InputPart
      /\ OutputPart' <=> OutputPart
    <2>1. /\ UNCHANGED <<doc, verdict>>
          /\ \/ UNCHANGED <<phase, at>>
             \/ phase' = "capabilities" /\ at' = at + 1
        BY DEF CheckScope
    <2>2. CapabilityPart' <=> CapabilityPart
        BY <1>1, <2>1, ScopesLen DEF CapabilityPart, PastCapability, PastCapabilities, CapabilityKept
    <2>3. /\ HeadPart' <=> HeadPart
          /\ DependencyPart' <=> DependencyPart
          /\ CompatPart' <=> CompatPart
        BY <1>1, <2>1
        DEF HeadPart, DependencyPart, CompatPart, PastHead, PastCapabilities, PastCompat,
            PastDependency, HeadKept, DependencyKept, CompatKept
    <2>4. /\ InputPart' <=> InputPart
          /\ OutputPart' <=> OutputPart
        BY <1>1, <2>1 DEF InputPart, OutputPart, PastInput, PastOutput, FieldKept
    <2>5. QED BY <2>2, <2>3, <2>4
<1>5. CASE sub <= Len(Scope)
    <2>1. /\ issues' = issues \o L1 /\ sub' = sub + 1
          /\ UNCHANGED <<doc, at, phase, seen, verdict>>
        BY <1>5 DEF CheckScope, Found
    <2>2. L1 \in Seq(Issue) /\ (L1 = <<>> <=> ScopeKept(doc, at, sub))
        <3>1. <<"scope", <<at, sub>>, "empty">> \in Issue
            BY <1>1 DEF Issue, Fields, Problems
        <3>2. ScopeKept(doc, at, sub) <=> Scope[sub] # "blank"
            BY <1>2 DEF ScopeKept
        <3>3. L1 = IF Scope[sub] = "blank" THEN <<<<"scope", <<at, sub>>, "empty">>>> ELSE <<>>
            BY DEF If
        <3> HIDE DEF L1
        <3>4. QED BY <3>1, <3>2, <3>3
    <2> HIDE DEF L1
    <2>3. issues' \in Seq(Issue) /\ (issues' = <<>> <=> issues = <<>> /\ ScopeKept(doc, at, sub))
        BY <1>1, <2>1, <2>2, EmptyConcat
    <2>4. VTypeInv' /\ SeenInv'
        BY <1>1, <2>1, <2>3 DEF ValidateInv, VTypeInv, SeenInv
    <2>5. ScopePart' <=> ScopePart /\ ScopeKept(doc, at, sub)
        <3>1. /\ at \in 1..Len(doc.capabilities)
              /\ sub \in 1..Len(ScopeOf(doc.capabilities[at]))
            BY <1>1, <1>2, <1>5
        <3>2. \A k \in 1..Len(doc.capabilities) : \A j \in 1..Len(ScopeOf(doc.capabilities[k])) :
                 PastScope(k, j)' <=> PastScope(k, j) \/ (k = at /\ j = sub)
            BY <1>1, <2>1, ScopesLen DEF PastScope, PastCapabilities
        <3>3. \A k, j : ScopeKept(doc, k, j)' <=> ScopeKept(doc, k, j)
            BY <2>1 DEF ScopeKept
        <3>4. doc' = doc
            BY <2>1
        <3>5. QED BY <3>1, <3>2, <3>3, <3>4 DEF ScopePart
    <2>6. SoFar' <=> SoFar /\ ScopeKept(doc, at, sub)
        BY <1>4, <2>5 DEF SoFar
    <2>7. QED BY <1>1, <1>3, <2>1, <2>3, <2>4, <2>6 DEF ValidateInv, ExactInv
<1>6. CASE ~(sub <= Len(Scope))
    <2>1. /\ phase' = "capabilities" /\ at' = at + 1
          /\ UNCHANGED <<doc, sub, issues, seen, verdict>>
        BY <1>6 DEF CheckScope
    <2>2. VTypeInv' /\ SeenInv'
        BY <1>1, <2>1 DEF ValidateInv, VTypeInv, SeenInv, Phases
    <2>3. ScopePart' <=> ScopePart
        <3>1. \A k \in 1..Len(doc.capabilities) : \A j \in 1..Len(ScopeOf(doc.capabilities[k])) :
                 PastScope(k, j)' <=> PastScope(k, j)
            BY <1>1, <1>2, <1>6, <2>1, ScopesLen DEF PastScope, PastCapabilities
        <3>2. \A k, j : ScopeKept(doc, k, j)' <=> ScopeKept(doc, k, j)
            BY <2>1 DEF ScopeKept
        <3>3. doc' = doc
            BY <2>1
        <3>4. QED BY <3>1, <3>2, <3>3 DEF ScopePart
    <2>4. SoFar' <=> SoFar
        BY <1>4, <2>3 DEF SoFar
    <2>5. QED BY <1>1, <1>3, <2>1, <2>2, <2>4 DEF ValidateInv, ExactInv
<1>7. QED BY <1>5, <1>6

LEMMA CompatStep == ValidateInv /\ CheckCompat => ValidateInv'
<1> SUFFICES ASSUME ValidateInv, CheckCompat PROVE ValidateInv'
    OBVIOUS
<1> DEFINE L1 == If(doc.engine = "other", <<"engine", 0, "req">>)
           L2 == If(doc.entrypoint = "unsafe", <<"entrypoint", 0, "unsafe">>)
<1>1. /\ doc \in Document /\ issues \in Seq(Issue) /\ phase = "compat"
      /\ verdict # "unreadable"
    BY DEF ValidateInv, VTypeInv, VerdictInv, CheckCompat
<1>2. L1 \in Seq(Issue) /\ L2 \in Seq(Issue) /\ (L1 = <<>> /\ L2 = <<>> <=> CompatKept(doc))
    <2>1. <<"engine", 0, "req">> \in Issue /\ <<"entrypoint", 0, "unsafe">> \in Issue
        BY DEF Issue, Fields, Problems
    <2>2. QED BY <2>1 DEF If, CompatKept
<1>3. issues' = issues \o (L1 \o L2)
    BY DEF CheckCompat, Found
<1> HIDE DEF L1, L2
<1>4. issues' \in Seq(Issue) /\ (issues' = <<>> <=> issues = <<>> /\ CompatKept(doc))
    BY <1>1, <1>2, <1>3, EmptyConcat
<1>5. phase' = "inputs" /\ at' = 1 /\ sub' = 1 /\ UNCHANGED <<doc, verdict>>
    BY DEF CheckCompat, Go
<1>6. VTypeInv' /\ SeenInv' /\ VerdictInv'
    BY <1>1, <1>4, <1>5 DEF ValidateInv, VTypeInv, SeenInv, VerdictInv, Phases, Unreadable
<1>7. CompatPart' <=> CompatPart /\ CompatKept(doc)
    BY <1>1, <1>5 DEF CompatPart, PastCompat, CompatKept
<1>8. /\ HeadPart' <=> HeadPart
      /\ DependencyPart' <=> DependencyPart
      /\ CapabilityPart' <=> CapabilityPart
      /\ InputPart' <=> InputPart
      /\ OutputPart' <=> OutputPart
    BY <1>1, <1>5 DEF HeadPart, DependencyPart, CapabilityPart, InputPart, OutputPart,
        PastHead, PastCapabilities, PastDependency, PastCapability, PastInput, PastOutput,
        HeadKept, DependencyKept, CapabilityKept, FieldKept
<1>9. ScopePart' <=> ScopePart
    BY <1>1, <1>5 DEF ScopePart, PastScope, PastCapabilities, ScopeKept
<1>10. SoFar' <=> SoFar /\ CompatKept(doc)
    BY <1>7, <1>8, <1>9 DEF SoFar
<1>11. QED BY <1>1, <1>4, <1>5, <1>6, <1>10 DEF ValidateInv, ExactInv

LEMMA FieldStep == ValidateInv /\ CheckField => ValidateInv'
<1> SUFFICES ASSUME ValidateInv, CheckField PROVE ValidateInv'
    OBVIOUS
<1> DEFINE field == doc[phase][at]
           L1 == If(field.name = "blank", <<phase, at, "empty">>)
           L2 == If(field.type \notin IoTypes, <<phase, at, "type">>)
<1>1. /\ doc \in Document /\ issues \in Seq(Issue) /\ phase \in {"inputs", "outputs"}
      /\ verdict # "unreadable" /\ at \in Nat \ {0} /\ at <= Len(doc[phase])
    BY DEF ValidateInv, VTypeInv, VerdictInv, CheckField
<1>2. L1 \in Seq(Issue) /\ L2 \in Seq(Issue) /\ (L1 = <<>> /\ L2 = <<>> <=> FieldKept(doc, phase, at))
    <2>1. <<phase, at, "empty">> \in Issue /\ <<phase, at, "type">> \in Issue
        BY <1>1 DEF Issue, Fields, Problems
    <2>2. QED BY <2>1 DEF If, FieldKept
<1>3. issues' = issues \o (L1 \o L2)
    BY DEF CheckField, Found
<1> HIDE DEF L1, L2
<1>4. issues' \in Seq(Issue) /\ (issues' = <<>> <=> issues = <<>> /\ FieldKept(doc, phase, at))
    BY <1>1, <1>2, <1>3, EmptyConcat
<1>5. at' = at + 1 /\ UNCHANGED <<doc, phase, sub, seen, verdict>>
    BY DEF CheckField
<1>6. VTypeInv' /\ SeenInv' /\ VerdictInv'
    BY <1>1, <1>4, <1>5 DEF ValidateInv, VTypeInv, SeenInv, VerdictInv, Phases, Unreadable
<1>7. /\ HeadPart' <=> HeadPart
      /\ DependencyPart' <=> DependencyPart
      /\ CapabilityPart' <=> CapabilityPart
      /\ CompatPart' <=> CompatPart
    BY <1>1, <1>5 DEF HeadPart, DependencyPart, CapabilityPart, CompatPart, PastHead,
        PastCapabilities, PastCompat, PastDependency, PastCapability,
        HeadKept, DependencyKept, CapabilityKept, CompatKept
<1>8. ScopePart' <=> ScopePart
    BY <1>1, <1>5 DEF ScopePart, PastScope, PastCapabilities, ScopeKept
<1>9. InputPart' /\ OutputPart' <=> InputPart /\ OutputPart /\ FieldKept(doc, phase, at)
    <2>1. Len(doc.inputs) \in Nat /\ Len(doc.outputs) \in Nat
        BY <1>1 DEF Document
    <2>2. CASE phase = "inputs"
        BY <1>1, <1>5, <2>1, <2>2 DEF InputPart, OutputPart, PastInput, PastOutput, FieldKept
    <2>3. CASE phase = "outputs"
        BY <1>1, <1>5, <2>1, <2>3 DEF InputPart, OutputPart, PastInput, PastOutput, FieldKept
    <2>4. QED BY <1>1, <2>2, <2>3
<1>10. SoFar' <=> SoFar /\ FieldKept(doc, phase, at)
    BY <1>7, <1>8, <1>9 DEF SoFar
<1>11. QED BY <1>1, <1>4, <1>5, <1>6, <1>10 DEF ValidateInv, ExactInv

LEMMA NextListStep == ValidateInv /\ NextList => ValidateInv'
<1> SUFFICES ASSUME ValidateInv, NextList PROVE ValidateInv'
    OBVIOUS
<1>1. /\ doc \in Document /\ issues \in Seq(Issue) /\ verdict = "none" /\ at \in Nat \ {0}
      /\ phase \in {"dependencies", "capabilities", "inputs", "outputs"}
    BY DEF ValidateInv, VTypeInv, VerdictInv, NextList, Following
<1>2. /\ doc' = doc /\ issues' = issues /\ at' = 1 /\ sub' = 1 /\ seen' = {}
      /\ phase = "dependencies" => /\ at > Len(doc.dependencies)
                                   /\ phase' = "capabilities" /\ verdict' = verdict
      /\ phase = "capabilities" => /\ at > Len(doc.capabilities)
                                   /\ phase' = "compat" /\ verdict' = verdict
      /\ phase = "inputs" => /\ at > Len(doc.inputs)
                             /\ phase' = "outputs" /\ verdict' = verdict
      /\ phase = "outputs" => /\ at > Len(doc.outputs)
                              /\ phase' = "done"
                              /\ verdict' = IF issues = <<>> THEN "valid" ELSE "invalid"
    BY DEF NextList, Following, Go
<1>3. VTypeInv' /\ SeenInv' /\ VerdictInv'
    BY <1>1, <1>2 DEF ValidateInv, VTypeInv, SeenInv, VerdictInv, Phases, Unreadable
<1>4. /\ Len(doc.dependencies) \in Nat /\ Len(doc.inputs) \in Nat /\ Len(doc.outputs) \in Nat
    BY <1>1 DEF Document
<1>5. /\ HeadPart' <=> HeadPart
      /\ CompatPart' <=> CompatPart
    BY <1>1, <1>2 DEF HeadPart, CompatPart, PastHead, PastCompat, HeadKept, CompatKept
<1>6. DependencyPart' <=> DependencyPart
    BY <1>1, <1>2, <1>4 DEF DependencyPart, PastDependency, PastCapabilities, DependencyKept
<1>7. CapabilityPart' <=> CapabilityPart
    <2>1. \A k \in 1..Len(doc.capabilities) : PastCapability(k)' <=> PastCapability(k)
        BY <1>1, <1>2, ScopesLen DEF PastCapability, PastCapabilities
    <2>2. \A k : CapabilityKept(doc, k)' <=> CapabilityKept(doc, k)
        BY <1>2 DEF CapabilityKept
    <2>3. QED BY <1>2, <2>1, <2>2 DEF CapabilityPart
<1>8. ScopePart' <=> ScopePart
    <2>1. \A k \in 1..Len(doc.capabilities) : \A j \in 1..Len(ScopeOf(doc.capabilities[k])) :
             PastScope(k, j)' <=> PastScope(k, j)
        BY <1>1, <1>2, ScopesLen DEF PastScope, PastCapabilities
    <2>2. \A k, j : ScopeKept(doc, k, j)' <=> ScopeKept(doc, k, j)
        BY <1>2 DEF ScopeKept
    <2>3. QED BY <1>2, <2>1, <2>2 DEF ScopePart
<1>9. /\ InputPart' <=> InputPart
      /\ OutputPart' <=> OutputPart
    BY <1>1, <1>2, <1>4 DEF InputPart, OutputPart, PastInput, PastOutput, FieldKept
<1>10. SoFar' <=> SoFar
    BY <1>5, <1>6, <1>7, <1>8, <1>9 DEF SoFar
<1>11. QED BY <1>1, <1>2, <1>3, <1>10 DEF ValidateInv, ExactInv

LEMMA ValidateStutter == ValidateInv /\ UNCHANGED validateVars => ValidateInv'
BY DEF validateVars, ValidateInv, VTypeInv, SeenInv, VerdictInv, Unreadable, ExactInv,
       SoFar, HeadPart, DependencyPart, CapabilityPart, ScopePart, CompatPart,
       InputPart, OutputPart, PastHead, PastCapabilities, PastCompat, PastDependency,
       PastCapability, PastScope, PastInput, PastOutput, HeadKept, DependencyKept,
       CapabilityKept, ScopeKept, CompatKept, FieldKept

LEMMA ValidateInvExact == ValidateInv => VerdictIsExact
<1> SUFFICES ASSUME ValidateInv, Done PROVE verdict = "valid" <=> ~Unreadable(doc) /\ Valid(doc)
    BY DEF VerdictIsExact
<1>1. CASE verdict = "unreadable"
    BY <1>1 DEF ValidateInv, VerdictInv
<1>2. CASE verdict # "unreadable"
    <2>1. ~Unreadable(doc) /\ (verdict = "valid" <=> SoFar)
        BY <1>2 DEF ValidateInv, VerdictInv, ExactInv, Done
    <2>2. SoFar <=> Valid(doc)
        BY DEF Done, Valid, SoFar, HeadPart, DependencyPart, CapabilityPart, ScopePart,
               CompatPart, InputPart, OutputPart, PastHead, PastCapabilities, PastCompat,
               PastDependency, PastCapability, PastScope, PastInput, PastOutput
    <2>3. QED BY <2>1, <2>2
<1>3. QED BY <1>1, <1>2

LEMMA ValidateSteps == ValidateInv /\ [ValidateNext]_validateVars => ValidateInv'
BY LoadStep, HeadStep, DependencyStep, CapabilityStep, ScopeStep, CompatStep, FieldStep,
   NextListStep, ValidateStutter DEF ValidateNext

\* A manifest is called valid exactly if it can be read and keeps every rule,
\* for lists of any length (validate, manifest.rs:286-406): at every step no
\* problem has been found exactly if what has been looked at keeps the rules.
THEOREM ValidateIsExact == ValidateSpec => []VerdictIsExact
<1>1. ValidateInit => ValidateInv
    BY InitValidates
<1>2. ValidateInv /\ [ValidateNext]_validateVars => ValidateInv'
    BY ValidateSteps
<1>3. QED BY <1>1, <1>2, ValidateInvExact, PTL DEF ValidateSpec

-----------------------------------------------------------------------------
(* What is found: lists of problems and the sets they list.                *)

\* A list without repetition of the members of a set.
Distinct(s) == \A h, k \in DOMAIN s : s[h] = s[k] => h = k
Lists(s, S) == s \in Seq(Issue) /\ Distinct(s) /\ ToSet(s) = S

LEMMA NothingLists == Lists(<<>>, {})
BY DEF Lists, Distinct, ToSet

LEMMA IfLists ==
    ASSUME NEW broken, NEW issue \in Issue
    PROVE  Lists(If(broken, issue), Breach(broken, issue))
<1>1. CASE broken
    <2>1. If(broken, issue) = <<issue>> /\ Breach(broken, issue) = {issue}
        BY <1>1 DEF If, Breach
    <2>2. <<issue>> \in Seq(Issue) /\ DOMAIN <<issue>> = {1} /\ <<issue>>[1] = issue
        OBVIOUS
    <2>3. Distinct(<<issue>>) /\ ToSet(<<issue>>) = {issue}
        BY <2>2 DEF Distinct, ToSet
    <2>4. QED BY <2>1, <2>2, <2>3 DEF Lists
<1>2. CASE ~broken
    BY <1>2, NothingLists DEF If, Breach
<1>3. QED BY <1>1, <1>2

LEMMA JoinLists ==
    ASSUME NEW s, NEW t, NEW S, NEW T, Lists(s, S), Lists(t, T), S \intersect T = {}
    PROVE  Lists(s \o t, S \union T)
<1>1. /\ s \in Seq(Issue) /\ t \in Seq(Issue) /\ s \o t \in Seq(Issue)
      /\ DOMAIN s = 1..Len(s) /\ DOMAIN t = 1..Len(t) /\ Len(s) \in Nat /\ Len(t) \in Nat
      /\ DOMAIN (s \o t) = 1..(Len(s) + Len(t))
    BY DEF Lists
<1>2. /\ \A k \in 1..Len(s) : (s \o t)[k] = s[k]
      /\ \A k \in 1..Len(t) : (s \o t)[Len(s) + k] = t[k]
      /\ \A k \in 1..(Len(s) + Len(t)) :
            k \in 1..Len(s) \/ (k - Len(s) \in 1..Len(t) /\ (s \o t)[k] = t[k - Len(s)])
    BY <1>1
<1>3. \A k \in 1..Len(s) : s[k] \in S
    BY <1>1 DEF Lists, ToSet
<1>4. \A k \in 1..Len(t) : t[k] \in T
    BY <1>1 DEF Lists, ToSet
<1> DEFINE u == s \o t
<1>5. Distinct(u)
    <2> SUFFICES ASSUME NEW h \in 1..(Len(s) + Len(t)), NEW k \in 1..(Len(s) + Len(t)), u[h] = u[k]
                 PROVE  h = k
        BY <1>1 DEF Distinct
    <2>1. CASE h \in 1..Len(s) /\ k \in 1..Len(s)
        BY <1>1, <1>2, <2>1 DEF Lists, Distinct
    <2>2. CASE h \notin 1..Len(s) /\ k \notin 1..Len(s)
        <3>1. h - Len(s) \in 1..Len(t) /\ k - Len(s) \in 1..Len(t) /\ t[h - Len(s)] = t[k - Len(s)]
            BY <1>2, <2>2
        <3>2. h - Len(s) = k - Len(s)
            BY <1>1, <3>1 DEF Lists, Distinct
        <3>3. QED BY <1>1, <3>2
    <2>3. CASE h \in 1..Len(s) /\ k \notin 1..Len(s)
        BY <1>2, <1>3, <1>4, <2>3
    <2>4. CASE h \notin 1..Len(s) /\ k \in 1..Len(s)
        BY <1>2, <1>3, <1>4, <2>4
    <2>5. QED BY <2>1, <2>2, <2>3, <2>4
<1>6. ToSet(u) = S \union T
    <2>1. ToSet(u) \subseteq S \union T
        <3>1. \A k \in 1..(Len(s) + Len(t)) : u[k] \in S \union T
            BY <1>2, <1>3, <1>4
        <3>2. QED BY <1>1, <3>1 DEF ToSet
    <2>2. S \subseteq ToSet(u)
        <3> SUFFICES ASSUME NEW b \in S PROVE b \in ToSet(u)
            OBVIOUS
        <3>1. PICK k \in 1..Len(s) : s[k] = b
            BY <1>1 DEF Lists, ToSet
        <3>2. k \in DOMAIN u /\ u[k] = b
            BY <1>1, <1>2, <3>1
        <3>3. QED BY <3>2 DEF ToSet
    <2>3. T \subseteq ToSet(u)
        <3> SUFFICES ASSUME NEW b \in T PROVE b \in ToSet(u)
            OBVIOUS
        <3>1. PICK k \in 1..Len(t) : t[k] = b
            BY <1>1 DEF Lists, ToSet
        <3>2. Len(s) + k \in DOMAIN u /\ u[Len(s) + k] = b
            BY <1>1, <1>2, <3>1
        <3>3. QED BY <3>2 DEF ToSet
    <2>4. QED BY <2>1, <2>2, <2>3
<1>7. QED BY <1>1, <1>5, <1>6 DEF Lists

LEMMA ListsCount ==
    ASSUME NEW s, NEW S, Lists(s, S)
    PROVE  Cardinality(S) = Len(s)
<1>1. s \in Seq(Issue) /\ Len(s) \in Nat /\ DOMAIN s = 1..Len(s) /\ s \in [1..Len(s) -> S]
    <2>1. s \in Seq(Issue) /\ Len(s) \in Nat /\ DOMAIN s = 1..Len(s)
        BY DEF Lists
    <2>2. \A k \in 1..Len(s) : s[k] \in S
        BY <2>1 DEF Lists, ToSet
    <2>3. s = [k \in 1..Len(s) |-> s[k]]
        BY <2>1
    <2>4. QED BY <2>1, <2>2, <2>3
<1>2. s \in Bijection(1..Len(s), S)
    <2>1. s \in Injection(1..Len(s), S)
        BY <1>1 DEF Lists, Distinct, Injection, IsInjective
    <2>2. s \in Surjection(1..Len(s), S)
        BY <1>1 DEF Lists, ToSet, Surjection
    <2>3. QED BY <2>1, <2>2 DEF Bijection
<1>3. ExistsBijection(1..Len(s), S)
    BY <1>2 DEF ExistsBijection
<1>4. QED BY <1>1, <1>3, FS_CountingElements

-----------------------------------------------------------------------------
(* What each action looks at: the list it appends has the breaches there.  *)

NameBreaches(d) == {<<"name", 0, problem>> : problem \in ToSet(NameIssues(d.spelling))}

LEMMA NameProblemsOnce ==
    ASSUME NEW s \in Seq(Char)
    PROVE  Distinct(NameIssues(s))
<1> DEFINE first == IF \E k \in DOMAIN s : s[k] = "A" THEN <<"name_charset">> ELSE <<>>
           second == IF s[1] = "-" \/ s[Len(s)] = "-" THEN <<"name_separator">> ELSE <<>>
<1>1. NameIssues(s) = IF s = <<>> THEN <<"name_empty">> ELSE first \o second
    BY DEF NameIssues
<1>2. first \in {<<"name_charset">>, <<>>} /\ second \in {<<"name_separator">>, <<>>}
    OBVIOUS
<1> HIDE DEF first, second
<1>3. Distinct(<<"name_empty">>) /\ Distinct(<<"name_charset">>)
      /\ Distinct(<<"name_separator">>) /\ Distinct(<<>>)
    BY DEF Distinct
<1>4. Distinct(<<"name_charset">> \o <<"name_separator">>)
    <2> DEFINE u == <<"name_charset">> \o <<"name_separator">>
    <2>1. DOMAIN u = 1..2 /\ u[1] = "name_charset" /\ u[2] = "name_separator"
        OBVIOUS
    <2> HIDE DEF u
    <2>2. QED BY <2>1 DEF Distinct, u
<1>5. Distinct(first \o second)
    <2>1. \A t \in Seq(NameProblems) : t \o <<>> = t /\ <<>> \o t = t
        OBVIOUS
    <2>2. first \in Seq(NameProblems) /\ second \in Seq(NameProblems)
        <3>1. <<>> \in Seq(NameProblems) /\ \A p \in NameProblems : <<p>> \in Seq(NameProblems)
            OBVIOUS
        <3>2. QED BY <1>2, <3>1 DEF NameProblems
    <2>3. CASE first = <<>>
        BY <1>2, <1>3, <2>1, <2>2, <2>3
    <2>4. CASE second = <<>>
        BY <1>2, <1>3, <2>1, <2>2, <2>4
    <2>5. QED BY <1>2, <1>4, <2>3, <2>4
<1>6. QED BY <1>1, <1>3, <1>5

LEMMA NameLists ==
    ASSUME NEW d \in Document
    PROVE  Lists([k \in DOMAIN NameIssues(d.spelling) |->
                     <<"name", 0, NameIssues(d.spelling)[k]>>],
                 NameBreaches(d))
<1> DEFINE list == [k \in DOMAIN NameIssues(d.spelling) |->
                      <<"name", 0, NameIssues(d.spelling)[k]>>]
<1>1. d.spelling \in Seq(Char)
    BY DocumentType
<1>2. list \in Seq(Issue)
    BY <1>1, NameIssueList
<1>3. Distinct(list)
    BY <1>1, NameProblemsOnce DEF Distinct
<1>4. ToSet(list) = NameBreaches(d)
    BY DEF ToSet, NameBreaches
<1>5. QED BY <1>2, <1>3, <1>4 DEF Lists

LEMMA HeadLists ==
    ASSUME NEW d \in Document
    PROVE  Lists(If(d.manifest_version \notin 1..MANIFEST_SCHEMA_VERSION,
                    <<"manifest_version", 0, "unsupported">>)
                 \o [k \in DOMAIN NameIssues(d.spelling) |->
                        <<"name", 0, NameIssues(d.spelling)[k]>>]
                 \o If(d.version # "semver", <<"version", 0, "not_semver">>),
                 HeadBreaches(d))
<1> DEFINE L1 == If(d.manifest_version \notin 1..MANIFEST_SCHEMA_VERSION,
                    <<"manifest_version", 0, "unsupported">>)
           L2 == [k \in DOMAIN NameIssues(d.spelling) |-> <<"name", 0, NameIssues(d.spelling)[k]>>]
           L3 == If(d.version # "semver", <<"version", 0, "not_semver">>)
           B1 == Breach(d.manifest_version # 1, <<"manifest_version", 0, "unsupported">>)
           B2 == NameBreaches(d)
           B3 == Breach(d.version # "semver", <<"version", 0, "not_semver">>)
<1>1. Lists(L1, B1)
    <2>1. d.manifest_version \in Nat
        BY DEF Document
    <2>2. (d.manifest_version \notin 1..MANIFEST_SCHEMA_VERSION) <=> (d.manifest_version # 1)
        BY <2>1 DEF MANIFEST_SCHEMA_VERSION
    <2>3. B1 = Breach(d.manifest_version \notin 1..MANIFEST_SCHEMA_VERSION,
                      <<"manifest_version", 0, "unsupported">>)
        BY <2>2 DEF Breach
    <2>4. <<"manifest_version", 0, "unsupported">> \in Issue
        BY DEF Issue, Fields, Problems
    <2> HIDE DEF B1
    <2>5. QED BY <2>3, <2>4, IfLists
<1>2. Lists(L2, B2)
    BY NameLists
<1>3. Lists(L3, B3)
    <2>1. <<"version", 0, "not_semver">> \in Issue
        BY DEF Issue, Fields, Problems
    <2>2. QED BY <2>1, IfLists
<1>4. B1 \intersect B2 = {} /\ (B1 \union B2) \intersect B3 = {}
    BY DEF Breach, NameBreaches
<1>5. HeadBreaches(d) = (B1 \union B2) \union B3
    BY DEF HeadBreaches, NameBreaches
<1> HIDE DEF L1, L2, L3, B1, B2, B3
<1>6. Lists(L1 \o L2, B1 \union B2)
    BY <1>1, <1>2, <1>4, JoinLists
<1>7. Lists((L1 \o L2) \o L3, (B1 \union B2) \union B3)
    BY <1>3, <1>4, <1>6, JoinLists
<1>8. QED BY <1>5, <1>7 DEF L1, L2, L3

\* The set of names met stands for the dependencies before this one.
LEMMA DependencyLists ==
    ASSUME NEW d \in Document, NEW k \in 1..Len(d.dependencies), NEW met,
           met = {d.dependencies[h].name : h \in 1..(k - 1)}
    PROVE  Lists(If(d.dependencies[k].name \in Blank, <<"dependencies", k, "empty">>)
                 \o If(d.dependencies[k].name = d.name, <<"dependencies", k, "self">>)
                 \o If(d.dependencies[k].name \in met, <<"dependencies", k, "duplicate">>)
                 \o If(d.dependencies[k].req = BadReq, <<"dependencies", k, "req">>),
                 DependencyBreaches(d, k))
<1> DEFINE x == d.dependencies[k]
           L1 == If(x.name \in Blank, <<"dependencies", k, "empty">>)
           L2 == If(x.name = d.name, <<"dependencies", k, "self">>)
           L3 == If(x.name \in met, <<"dependencies", k, "duplicate">>)
           L4 == If(x.req = BadReq, <<"dependencies", k, "req">>)
           B1 == Breach(x.name \in Blank, <<"dependencies", k, "empty">>)
           B2 == Breach(x.name = d.name, <<"dependencies", k, "self">>)
           B3 == Breach(x.name \in met, <<"dependencies", k, "duplicate">>)
           B4 == Breach(x.req = BadReq, <<"dependencies", k, "req">>)
<1>1. \A problem \in {"empty", "self", "duplicate", "req"} : <<"dependencies", k, problem>> \in Issue
    BY DEF Issue, Fields, Problems
<1>2. Lists(L1, B1) /\ Lists(L2, B2) /\ Lists(L3, B3) /\ Lists(L4, B4)
    BY <1>1, IfLists
<1>3. /\ B1 \intersect B2 = {} /\ (B1 \union B2) \intersect B3 = {}
      /\ ((B1 \union B2) \union B3) \intersect B4 = {}
    BY DEF Breach
<1>4. DependencyBreaches(d, k) = ((B1 \union B2) \union B3) \union B4
    <2>1. x.name \in met <=> \E h \in 1..(k - 1) : d.dependencies[h].name = x.name
        OBVIOUS
    <2>2. B3 = Breach(\E h \in 1..(k - 1) : d.dependencies[h].name = x.name,
                      <<"dependencies", k, "duplicate">>)
        BY <2>1 DEF Breach
    <2> HIDE DEF B3
    <2>3. QED BY <2>2 DEF DependencyBreaches
<1> HIDE DEF L1, L2, L3, L4, B1, B2, B3, B4
<1>5. Lists(L1 \o L2, B1 \union B2)
    BY <1>2, <1>3, JoinLists
<1>6. Lists((L1 \o L2) \o L3, (B1 \union B2) \union B3)
    BY <1>2, <1>3, <1>5, JoinLists
<1>7. Lists(((L1 \o L2) \o L3) \o L4, ((B1 \union B2) \union B3) \union B4)
    BY <1>2, <1>3, <1>6, JoinLists
<1>8. QED BY <1>4, <1>7 DEF L1, L2, L3, L4

LEMMA CapabilityLists ==
    ASSUME NEW d, NEW k \in Nat, NEW met,
           met = {d.capabilities[h].kind : h \in 1..(k - 1)}
    PROVE  Lists(If(d.capabilities[k].kind \in met, <<"capabilities", k, "duplicate">>),
                 CapabilityBreaches(d, k))
<1>1. <<"capabilities", k, "duplicate">> \in Issue
    BY DEF Issue, Fields, Problems
<1>2. d.capabilities[k].kind \in met
         <=> \E h \in 1..(k - 1) : d.capabilities[h].kind = d.capabilities[k].kind
    OBVIOUS
<1>3. CapabilityBreaches(d, k)
         = Breach(d.capabilities[k].kind \in met, <<"capabilities", k, "duplicate">>)
    BY <1>2 DEF CapabilityBreaches, Breach
<1>4. QED BY <1>1, <1>3, IfLists

LEMMA ScopeLists ==
    ASSUME NEW d, NEW k \in Nat, NEW j \in Nat
    PROVE  Lists(If(ScopeOf(d.capabilities[k])[j] = "blank", <<"scope", <<k, j>>, "empty">>),
                 ScopeBreaches(d, k, j))
<1>1. <<"scope", <<k, j>>, "empty">> \in Issue
    BY DEF Issue, Fields, Problems
<1>2. QED BY <1>1, IfLists DEF ScopeBreaches

LEMMA CompatLists ==
    ASSUME NEW d
    PROVE  Lists(If(d.engine = "other", <<"engine", 0, "req">>)
                 \o If(d.entrypoint = "unsafe", <<"entrypoint", 0, "unsafe">>),
                 CompatBreaches(d))
<1> DEFINE L1 == If(d.engine = "other", <<"engine", 0, "req">>)
           L2 == If(d.entrypoint = "unsafe", <<"entrypoint", 0, "unsafe">>)
           B1 == Breach(d.engine = "other", <<"engine", 0, "req">>)
           B2 == Breach(d.entrypoint = "unsafe", <<"entrypoint", 0, "unsafe">>)
<1>1. <<"engine", 0, "req">> \in Issue /\ <<"entrypoint", 0, "unsafe">> \in Issue
    BY DEF Issue, Fields, Problems
<1>2. Lists(L1, B1) /\ Lists(L2, B2)
    BY <1>1, IfLists
<1>3. B1 \intersect B2 = {}
    BY DEF Breach
<1> HIDE DEF L1, L2
<1>4. Lists(L1 \o L2, B1 \union B2)
    BY <1>2, <1>3, JoinLists
<1>5. QED BY <1>4 DEF CompatBreaches, L1, L2

LEMMA FieldLists ==
    ASSUME NEW d, NEW list \in {"inputs", "outputs"}, NEW k \in Nat
    PROVE  Lists(If(d[list][k].name = "blank", <<list, k, "empty">>)
                 \o If(d[list][k].type \notin IoTypes, <<list, k, "type">>),
                 FieldBreaches(d, list, k))
<1> DEFINE L1 == If(d[list][k].name = "blank", <<list, k, "empty">>)
           L2 == If(d[list][k].type \notin IoTypes, <<list, k, "type">>)
           B1 == Breach(d[list][k].name = "blank", <<list, k, "empty">>)
           B2 == Breach(d[list][k].type \notin IoTypes, <<list, k, "type">>)
<1>1. <<list, k, "empty">> \in Issue /\ <<list, k, "type">> \in Issue
    BY DEF Issue, Fields, Problems
<1>2. Lists(L1, B1) /\ Lists(L2, B2)
    BY <1>1, IfLists
<1>3. B1 \intersect B2 = {}
    BY DEF Breach
<1> HIDE DEF L1, L2, B1, B2
<1>4. Lists(L1 \o L2, B1 \union B2)
    BY <1>2, <1>3, JoinLists
<1>5. QED BY <1>4 DEF FieldBreaches, L1, L2, B1, B2

-----------------------------------------------------------------------------
(* The problems met so far: those of what has been looked at.              *)

HeadMet == IF PastHead THEN HeadBreaches(doc) ELSE {}
DependencyMet ==
    UNION {DependencyBreaches(doc, k) :
              k \in {h \in 1..Len(doc.dependencies) : PastDependency(h)}}
CapabilityMet ==
    UNION {CapabilityBreaches(doc, k) :
              k \in {h \in 1..Len(doc.capabilities) : PastCapability(h)}}
ScopeMet ==
    UNION {UNION {ScopeBreaches(doc, k, j) :
                     j \in {h \in 1..Len(ScopeOf(doc.capabilities[k])) : PastScope(k, h)}} :
              k \in 1..Len(doc.capabilities)}
CompatMet == IF PastCompat THEN CompatBreaches(doc) ELSE {}
InputMet ==
    UNION {FieldBreaches(doc, "inputs", k) :
              k \in {h \in 1..Len(doc.inputs) : PastInput(h)}}
OutputMet ==
    UNION {FieldBreaches(doc, "outputs", k) :
              k \in {h \in 1..Len(doc.outputs) : PastOutput(h)}}

Met ==
    HeadMet \union DependencyMet \union CapabilityMet \union ScopeMet
    \union CompatMet \union InputMet \union OutputMet

\* The list of problems has what has been met, each once.
CompleteInv ==
    /\ verdict # "unreadable" => Lists(issues, Met)
    /\ verdict = "unreadable" => issues = <<>>

\* Where a breach is found is part of it.
LEMMA HeadPlaces ==
    ASSUME NEW d, NEW b \in HeadBreaches(d)
    PROVE  b[1] \in {"manifest_version", "name", "version"}
BY DEF HeadBreaches, Breach

LEMMA DependencyPlaces ==
    ASSUME NEW d, NEW k, NEW b \in DependencyBreaches(d, k)
    PROVE  b[1] = "dependencies" /\ b[2] = k
BY DEF DependencyBreaches, Breach

LEMMA CapabilityPlaces ==
    ASSUME NEW d, NEW k, NEW b \in CapabilityBreaches(d, k)
    PROVE  b[1] = "capabilities" /\ b[2] = k
BY DEF CapabilityBreaches, Breach

LEMMA ScopePlaces ==
    ASSUME NEW d, NEW k, NEW j, NEW b \in ScopeBreaches(d, k, j)
    PROVE  b[1] = "scope" /\ b[2] = <<k, j>>
BY DEF ScopeBreaches, Breach

LEMMA CompatPlaces ==
    ASSUME NEW d, NEW b \in CompatBreaches(d)
    PROVE  b[1] \in {"engine", "entrypoint"}
BY DEF CompatBreaches, Breach

LEMMA FieldPlaces ==
    ASSUME NEW d, NEW list, NEW k, NEW b \in FieldBreaches(d, list, k)
    PROVE  b[1] = list /\ b[2] = k
BY DEF FieldBreaches, Breach

\* So it is met at that place and nowhere else.
LEMMA MetPlaces ==
    /\ \A b \in HeadMet : PastHead /\ b[1] \in {"manifest_version", "name", "version"}
    /\ \A b \in DependencyMet : b[1] = "dependencies" /\ PastDependency(b[2])
    /\ \A b \in CapabilityMet : b[1] = "capabilities" /\ PastCapability(b[2])
    /\ \A b \in ScopeMet : b[1] = "scope" /\ PastScope(b[2][1], b[2][2])
    /\ \A b \in CompatMet : PastCompat /\ b[1] \in {"engine", "entrypoint"}
    /\ \A b \in InputMet : b[1] = "inputs" /\ PastInput(b[2])
    /\ \A b \in OutputMet : b[1] = "outputs" /\ PastOutput(b[2])
<1>1. \A b \in HeadMet : PastHead /\ b[1] \in {"manifest_version", "name", "version"}
    BY HeadPlaces DEF HeadMet
<1>2. \A b \in DependencyMet : b[1] = "dependencies" /\ PastDependency(b[2])
    <2> SUFFICES ASSUME NEW b \in DependencyMet PROVE b[1] = "dependencies" /\ PastDependency(b[2])
        OBVIOUS
    <2>1. PICK k \in {h \in 1..Len(doc.dependencies) : PastDependency(h)} : b \in DependencyBreaches(doc, k)
        BY DEF DependencyMet
    <2>2. b[1] = "dependencies" /\ b[2] = k
        BY <2>1, DependencyPlaces
    <2>3. QED BY <2>1, <2>2
<1>3. \A b \in CapabilityMet : b[1] = "capabilities" /\ PastCapability(b[2])
    <2> SUFFICES ASSUME NEW b \in CapabilityMet PROVE b[1] = "capabilities" /\ PastCapability(b[2])
        OBVIOUS
    <2>1. PICK k \in {h \in 1..Len(doc.capabilities) : PastCapability(h)} : b \in CapabilityBreaches(doc, k)
        BY DEF CapabilityMet
    <2>2. b[1] = "capabilities" /\ b[2] = k
        BY <2>1, CapabilityPlaces
    <2>3. QED BY <2>1, <2>2
<1>4. \A b \in ScopeMet : b[1] = "scope" /\ PastScope(b[2][1], b[2][2])
    <2> SUFFICES ASSUME NEW b \in ScopeMet
                 PROVE  b[1] = "scope" /\ PastScope(b[2][1], b[2][2])
        OBVIOUS
    <2>1. PICK k \in 1..Len(doc.capabilities) :
             \E j \in {h \in 1..Len(ScopeOf(doc.capabilities[k])) : PastScope(k, h)} :
                b \in ScopeBreaches(doc, k, j)
        BY DEF ScopeMet
    <2>2. PICK j \in {h \in 1..Len(ScopeOf(doc.capabilities[k])) : PastScope(k, h)} :
             b \in ScopeBreaches(doc, k, j)
        BY <2>1
    <2>3. b[1] = "scope" /\ b[2] = <<k, j>> /\ PastScope(k, j)
        BY <2>2, ScopePlaces
    <2>4. QED BY <2>3
<1>5. \A b \in CompatMet : PastCompat /\ b[1] \in {"engine", "entrypoint"}
    BY CompatPlaces DEF CompatMet
<1>6. \A b \in InputMet : b[1] = "inputs" /\ PastInput(b[2])
    <2> SUFFICES ASSUME NEW b \in InputMet PROVE b[1] = "inputs" /\ PastInput(b[2])
        OBVIOUS
    <2>1. PICK k \in {h \in 1..Len(doc.inputs) : PastInput(h)} : b \in FieldBreaches(doc, "inputs", k)
        BY DEF InputMet
    <2>2. b[1] = "inputs" /\ b[2] = k
        BY <2>1, FieldPlaces
    <2>3. QED BY <2>1, <2>2
<1>7. \A b \in OutputMet : b[1] = "outputs" /\ PastOutput(b[2])
    <2> SUFFICES ASSUME NEW b \in OutputMet PROVE b[1] = "outputs" /\ PastOutput(b[2])
        OBVIOUS
    <2>1. PICK k \in {h \in 1..Len(doc.outputs) : PastOutput(h)} : b \in FieldBreaches(doc, "outputs", k)
        BY DEF OutputMet
    <2>2. b[1] = "outputs" /\ b[2] = k
        BY <2>1, FieldPlaces
    <2>3. QED BY <2>1, <2>2
<1>8. QED BY <1>1, <1>2, <1>3, <1>4, <1>5, <1>6, <1>7

\* A document that stays is broken as it was.
LEMMA BreachesStay ==
    doc' = doc =>
        /\ HeadBreaches(doc)' = HeadBreaches(doc)
        /\ CompatBreaches(doc)' = CompatBreaches(doc)
        /\ \A k : /\ DependencyBreaches(doc, k)' = DependencyBreaches(doc, k)
                  /\ CapabilityBreaches(doc, k)' = CapabilityBreaches(doc, k)
                  /\ FieldBreaches(doc, "inputs", k)' = FieldBreaches(doc, "inputs", k)
                  /\ FieldBreaches(doc, "outputs", k)' = FieldBreaches(doc, "outputs", k)
        /\ \A k, j : ScopeBreaches(doc, k, j)' = ScopeBreaches(doc, k, j)
BY DEF HeadBreaches, CompatBreaches, DependencyBreaches, CapabilityBreaches, FieldBreaches,
       ScopeBreaches

\* What has been met changes with what has been looked at.
LEMMA MetStays ==
    doc' = doc =>
        /\ (PastHead' <=> PastHead) => HeadMet' = HeadMet
        /\ (\A k \in 1..Len(doc.dependencies) : PastDependency(k)' <=> PastDependency(k))
              => DependencyMet' = DependencyMet
        /\ (\A k \in 1..Len(doc.capabilities) : PastCapability(k)' <=> PastCapability(k))
              => CapabilityMet' = CapabilityMet
        /\ (\A k \in 1..Len(doc.capabilities) : \A j \in 1..Len(ScopeOf(doc.capabilities[k])) :
                PastScope(k, j)' <=> PastScope(k, j))
              => ScopeMet' = ScopeMet
        /\ (PastCompat' <=> PastCompat) => CompatMet' = CompatMet
        /\ (\A k \in 1..Len(doc.inputs) : PastInput(k)' <=> PastInput(k)) => InputMet' = InputMet
        /\ (\A k \in 1..Len(doc.outputs) : PastOutput(k)' <=> PastOutput(k))
              => OutputMet' = OutputMet
<1> SUFFICES ASSUME doc' = doc
             PROVE  /\ (PastHead' <=> PastHead) => HeadMet' = HeadMet
                    /\ (\A k \in 1..Len(doc.dependencies) :
                            PastDependency(k)' <=> PastDependency(k))
                          => DependencyMet' = DependencyMet
                    /\ (\A k \in 1..Len(doc.capabilities) :
                            PastCapability(k)' <=> PastCapability(k))
                          => CapabilityMet' = CapabilityMet
                    /\ (\A k \in 1..Len(doc.capabilities) :
                            \A j \in 1..Len(ScopeOf(doc.capabilities[k])) :
                                PastScope(k, j)' <=> PastScope(k, j))
                          => ScopeMet' = ScopeMet
                    /\ (PastCompat' <=> PastCompat) => CompatMet' = CompatMet
                    /\ (\A k \in 1..Len(doc.inputs) : PastInput(k)' <=> PastInput(k))
                          => InputMet' = InputMet
                    /\ (\A k \in 1..Len(doc.outputs) : PastOutput(k)' <=> PastOutput(k))
                          => OutputMet' = OutputMet
    OBVIOUS
<1>1. (PastHead' <=> PastHead) => HeadMet' = HeadMet
    BY BreachesStay DEF HeadMet
<1>2. (\A k \in 1..Len(doc.dependencies) : PastDependency(k)' <=> PastDependency(k))
         => DependencyMet' = DependencyMet
    BY BreachesStay DEF DependencyMet
<1>3. (\A k \in 1..Len(doc.capabilities) : PastCapability(k)' <=> PastCapability(k))
         => CapabilityMet' = CapabilityMet
    BY BreachesStay DEF CapabilityMet
<1>4. (\A k \in 1..Len(doc.capabilities) : \A j \in 1..Len(ScopeOf(doc.capabilities[k])) :
          PastScope(k, j)' <=> PastScope(k, j)) => ScopeMet' = ScopeMet
    BY BreachesStay DEF ScopeMet, ScopeOf
<1>5. (PastCompat' <=> PastCompat) => CompatMet' = CompatMet
    BY BreachesStay DEF CompatMet
<1>6. (\A k \in 1..Len(doc.inputs) : PastInput(k)' <=> PastInput(k)) => InputMet' = InputMet
    BY BreachesStay DEF InputMet
<1>7. (\A k \in 1..Len(doc.outputs) : PastOutput(k)' <=> PastOutput(k)) => OutputMet' = OutputMet
    BY BreachesStay DEF OutputMet
<1>8. QED BY <1>1, <1>2, <1>3, <1>4, <1>5, <1>6, <1>7

-----------------------------------------------------------------------------
(* Every step adds to the list what it adds to what has been met.          *)

CountInv == ValidateInv /\ CompleteInv

LEMMA InitCounts == ValidateInit => CompleteInv
<1> SUFFICES ASSUME ValidateInit PROVE CompleteInv
    OBVIOUS
<1>1. phase = "load" /\ issues = <<>> /\ verdict = "none"
    BY DEF ValidateInit
<1>2. Met = {}
    BY <1>1, MetPlaces DEF Met, PastHead, PastDependency, PastCapability, PastScope,
       PastCapabilities, PastCompat, PastInput, PastOutput
<1>3. QED BY <1>1, <1>2, NothingLists DEF CompleteInv

LEMMA LoadCounts == CountInv /\ Load => CompleteInv'
<1> SUFFICES ASSUME CountInv, Load PROVE CompleteInv'
    OBVIOUS
<1>1. /\ phase = "load" /\ doc' = doc /\ issues' = issues /\ Lists(issues, Met)
      /\ (phase' = "done" /\ verdict' = "unreadable") \/ (phase' = "head" /\ verdict' = verdict)
      /\ verdict # "unreadable"
    BY DEF CountInv, CompleteInv, ValidateInv, VerdictInv, Load, Go
<1> USE DEF PastHead, PastDependency, PastCapability, PastScope, PastCapabilities, PastCompat,
            PastInput, PastOutput
<1>2. Met = {}
    BY <1>1, MetPlaces DEF Met
<1>3. issues = <<>>
    <2>1. issues \in Seq(Issue) /\ ToSet(issues) = {}
        BY <1>1, <1>2 DEF Lists
    <2>2. DOMAIN issues = {}
        BY <2>1 DEF ToSet
    <2>3. QED BY <2>1, <2>2
<1>4. CASE verdict' = "unreadable"
    BY <1>1, <1>3, <1>4 DEF CompleteInv
<1>5. CASE phase' = "head" /\ verdict' = verdict
    <2>1. Met' = {}
        <3>1. Met' = Met
            BY <1>1, <1>5, MetStays DEF Met
        <3>2. QED BY <1>2, <3>1
    <2>2. Lists(issues', Met')
        BY <1>1, <1>3, <2>1, NothingLists
    <2>3. QED BY <1>1, <1>5, <2>2 DEF CompleteInv
<1>6. QED BY <1>1, <1>4, <1>5

\* How each action uses the three facts about it.
LEMMA Counted ==
    ASSUME verdict' # "unreadable", Lists(issues, Met), NEW found, NEW new,
           issues' = issues \o found, Lists(found, new),
           Met' = Met \union new, Met \intersect new = {}
    PROVE  CompleteInv'
<1>1. Lists(issues \o found, Met \union new)
    BY JoinLists
<1>2. Lists(issues', Met')
    BY <1>1
<1>3. QED BY <1>2 DEF CompleteInv

LEMMA HeadCounts == CountInv /\ CheckHead => CompleteInv'
<1> SUFFICES ASSUME CountInv, CheckHead PROVE CompleteInv'
    OBVIOUS
<1> DEFINE found == If(doc.manifest_version \notin 1..MANIFEST_SCHEMA_VERSION,
                       <<"manifest_version", 0, "unsupported">>)
                    \o [k \in DOMAIN NameIssues(doc.spelling) |->
                           <<"name", 0, NameIssues(doc.spelling)[k]>>]
                    \o If(doc.version # "semver", <<"version", 0, "not_semver">>)
<1>1. /\ doc \in Document /\ doc' = doc /\ phase = "head" /\ phase' = "dependencies" /\ at' = 1
      /\ verdict # "unreadable" /\ verdict' = verdict /\ Lists(issues, Met)
    BY DEF CountInv, CompleteInv, ValidateInv, VTypeInv, VerdictInv, CheckHead, Go
<1>2. issues' = issues \o found
    BY DEF CheckHead, Found
<1>3. Lists(found, HeadBreaches(doc))
    BY <1>1, HeadLists
<1> HIDE DEF found
<1>4. HeadMet = {} /\ HeadMet' = HeadBreaches(doc)
    BY <1>1, BreachesStay DEF HeadMet, PastHead
<1>5. /\ DependencyMet' = DependencyMet /\ CapabilityMet' = CapabilityMet /\ ScopeMet' = ScopeMet
      /\ CompatMet' = CompatMet /\ InputMet' = InputMet /\ OutputMet' = OutputMet
    BY <1>1, MetStays
    DEF PastDependency, PastCapability, PastScope, PastCapabilities, PastCompat, PastInput, PastOutput
<1>6. Met' = Met \union HeadBreaches(doc)
    BY <1>4, <1>5 DEF Met
<1>7. Met \intersect HeadBreaches(doc) = {}
    BY <1>4, MetPlaces, HeadPlaces DEF Met
<1>8. QED BY <1>1, <1>2, <1>3, <1>6, <1>7, Counted

LEMMA DependencyCounts == CountInv /\ CheckDependency => CompleteInv'
<1> SUFFICES ASSUME CountInv, CheckDependency PROVE CompleteInv'
    OBVIOUS
<1> DEFINE x == doc.dependencies[at]
           found == If(x.name \in Blank, <<"dependencies", at, "empty">>)
                    \o If(x.name = doc.name, <<"dependencies", at, "self">>)
                    \o If(x.name \in seen, <<"dependencies", at, "duplicate">>)
                    \o If(x.req = BadReq, <<"dependencies", at, "req">>)
           new == DependencyBreaches(doc, at)
<1>1. /\ doc \in Document /\ doc' = doc /\ phase = "dependencies" /\ phase' = phase
      /\ at' = at + 1 /\ at \in 1..Len(doc.dependencies)
      /\ verdict # "unreadable" /\ verdict' = verdict /\ Lists(issues, Met)
      /\ seen = {doc.dependencies[h].name : h \in 1..(at - 1)}
    BY DEF CountInv, CompleteInv, ValidateInv, VTypeInv, SeenInv, VerdictInv, CheckDependency
<1>2. issues' = issues \o found
    BY <1>1 DEF CheckDependency, Found
<1>3. Lists(found, new)
    BY <1>1, DependencyLists
<1> HIDE DEF found
<1>4. /\ ~PastDependency(at)
      /\ \A k \in 1..Len(doc.dependencies) : PastDependency(k)' <=> PastDependency(k) \/ k = at
    BY <1>1 DEF PastDependency, PastCapabilities
<1>5. DependencyMet' = DependencyMet \union new
    BY <1>1, <1>4, BreachesStay DEF DependencyMet
<1>6. /\ HeadMet' = HeadMet /\ CapabilityMet' = CapabilityMet /\ ScopeMet' = ScopeMet
      /\ CompatMet' = CompatMet /\ InputMet' = InputMet /\ OutputMet' = OutputMet
    BY <1>1, MetStays
    DEF PastHead, PastCapability, PastScope, PastCapabilities, PastCompat, PastInput, PastOutput
<1>7. Met' = Met \union new
    BY <1>5, <1>6 DEF Met
<1>8. Met \intersect new = {}
    <2> SUFFICES ASSUME NEW b \in Met, b \in new PROVE FALSE
        OBVIOUS
    <2>1. b[1] = "dependencies" /\ b[2] = at
        BY DependencyPlaces
    <2>2. b \in DependencyMet
        BY <2>1, MetPlaces DEF Met
    <2>3. PastDependency(b[2])
        BY <2>2, MetPlaces
    <2>4. QED BY <1>4, <2>1, <2>3
<1>9. QED BY <1>1, <1>2, <1>3, <1>7, <1>8, Counted

LEMMA CapabilityCounts == CountInv /\ CheckCapability => CompleteInv'
<1> SUFFICES ASSUME CountInv, CheckCapability PROVE CompleteInv'
    OBVIOUS
<1> DEFINE found == If(doc.capabilities[at].kind \in seen, <<"capabilities", at, "duplicate">>)
           new == CapabilityBreaches(doc, at)
<1>1. /\ doc \in Document /\ doc' = doc /\ phase = "capabilities" /\ phase' = "scope"
      /\ at' = at /\ sub' = 1 /\ at \in 1..Len(doc.capabilities)
      /\ verdict # "unreadable" /\ verdict' = verdict /\ Lists(issues, Met)
      /\ seen = {doc.capabilities[h].kind : h \in 1..(at - 1)}
    BY DEF CountInv, CompleteInv, ValidateInv, VTypeInv, SeenInv, VerdictInv, CheckCapability
<1>2. issues' = issues \o found
    BY <1>1 DEF CheckCapability, Found
<1>3. Lists(found, new)
    <2>1. at \in Nat
        BY <1>1, ScopesLen
    <2>2. QED BY <1>1, <2>1, CapabilityLists
<1> HIDE DEF found
<1>4. /\ ~PastCapability(at)
      /\ \A k \in 1..Len(doc.capabilities) : PastCapability(k)' <=> PastCapability(k) \/ k = at
    BY <1>1 DEF PastCapability, PastCapabilities
<1>5. CapabilityMet' = CapabilityMet \union new
    BY <1>1, <1>4, BreachesStay DEF CapabilityMet
<1>6. \A k \in 1..Len(doc.capabilities) : \A j \in 1..Len(ScopeOf(doc.capabilities[k])) :
         PastScope(k, j)' <=> PastScope(k, j)
    BY <1>1, ScopesLen DEF PastScope, PastCapabilities
<1>7. /\ HeadMet' = HeadMet /\ DependencyMet' = DependencyMet /\ ScopeMet' = ScopeMet
      /\ CompatMet' = CompatMet /\ InputMet' = InputMet /\ OutputMet' = OutputMet
    BY <1>1, <1>6, MetStays
    DEF PastHead, PastDependency, PastCapabilities, PastCompat, PastInput, PastOutput
<1>8. Met' = Met \union new
    BY <1>5, <1>7 DEF Met
<1>9. Met \intersect new = {}
    <2> SUFFICES ASSUME NEW b \in Met, b \in new PROVE FALSE
        OBVIOUS
    <2>1. b[1] = "capabilities" /\ b[2] = at
        BY CapabilityPlaces
    <2>2. b \in CapabilityMet
        BY <2>1, MetPlaces DEF Met
    <2>3. PastCapability(b[2])
        BY <2>2, MetPlaces
    <2>4. QED BY <1>4, <2>1, <2>3
<1>10. QED BY <1>1, <1>2, <1>3, <1>8, <1>9, Counted

LEMMA ScopeCounts == CountInv /\ CheckScope => CompleteInv'
<1> SUFFICES ASSUME CountInv, CheckScope PROVE CompleteInv'
    OBVIOUS
<1> DEFINE scope == ScopeOf(doc.capabilities[at])
           found == If(scope[sub] = "blank", <<"scope", <<at, sub>>, "empty">>)
           new == ScopeBreaches(doc, at, sub)
<1>1. /\ doc \in Document /\ doc' = doc /\ phase = "scope"
      /\ at \in 1..Len(doc.capabilities) /\ sub \in Nat \ {0} /\ Len(scope) \in Nat
      /\ verdict # "unreadable" /\ verdict' = verdict /\ Lists(issues, Met)
    BY ScopeLen DEF CountInv, CompleteInv, ValidateInv, VTypeInv, SeenInv, VerdictInv, CheckScope
<1>2. CASE sub <= Len(scope)
    <2>1. /\ phase' = "scope" /\ at' = at /\ sub' = sub + 1
          /\ issues' = issues \o found
        BY <1>1, <1>2 DEF CheckScope, Found, Scope
    <2>2. Lists(found, new)
        BY <1>1, ScopeLists
    <2> HIDE DEF found
    <2>3. ~PastScope(at, sub)
        BY <1>1 DEF PastScope, PastCapabilities
    <2>4. \A k \in 1..Len(doc.capabilities) : \A j \in 1..Len(ScopeOf(doc.capabilities[k])) :
             PastScope(k, j)' <=> PastScope(k, j) \/ (k = at /\ j = sub)
        BY <1>1, <2>1, ScopesLen DEF PastScope, PastCapabilities
    <2>5. ScopeMet' = ScopeMet \union new
        <3>1. at \in 1..Len(doc.capabilities) /\ sub \in 1..Len(ScopeOf(doc.capabilities[at]))
            BY <1>1, <1>2
        <3>2. \A b : b \in ScopeMet <=>
                 \E k \in 1..Len(doc.capabilities) : \E j \in 1..Len(ScopeOf(doc.capabilities[k])) :
                    PastScope(k, j) /\ b \in ScopeBreaches(doc, k, j)
            BY DEF ScopeMet
        <3>3. \A b : b \in ScopeMet' <=>
                 \E k \in 1..Len(doc.capabilities) : \E j \in 1..Len(ScopeOf(doc.capabilities[k])) :
                    PastScope(k, j)' /\ b \in ScopeBreaches(doc, k, j)
            BY <1>1, BreachesStay DEF ScopeMet, ScopeOf
        <3>4. \A b : b \in ScopeMet' <=> b \in ScopeMet \/ b \in new
            BY <2>4, <3>1, <3>2, <3>3
        <3>5. QED BY <3>4
    <2>6. /\ HeadMet' = HeadMet /\ DependencyMet' = DependencyMet /\ CapabilityMet' = CapabilityMet
          /\ CompatMet' = CompatMet /\ InputMet' = InputMet /\ OutputMet' = OutputMet
        BY <1>1, <2>1, MetStays
        DEF PastHead, PastDependency, PastCapability, PastCapabilities, PastCompat, PastInput, PastOutput
    <2>7. Met' = Met \union new
        BY <2>5, <2>6 DEF Met
    <2>8. Met \intersect new = {}
        <3> SUFFICES ASSUME NEW b \in Met, b \in new PROVE FALSE
            OBVIOUS
        <3>1. b[1] = "scope" /\ b[2] = <<at, sub>>
            BY ScopePlaces
        <3>2. b \in ScopeMet
            BY <3>1, MetPlaces DEF Met
        <3>3. PastScope(b[2][1], b[2][2])
            BY <3>2, MetPlaces
        <3>4. b[2][1] = at /\ b[2][2] = sub
            BY <3>1
        <3>5. QED BY <2>3, <3>3, <3>4
    <2>9. QED BY <1>1, <2>1, <2>2, <2>7, <2>8, Counted
<1>3. CASE ~(sub <= Len(scope))
    <2>1. phase' = "capabilities" /\ at' = at + 1 /\ issues' = issues
        BY <1>3 DEF CheckScope, Scope
    <2>2. \A k \in 1..Len(doc.capabilities) : \A j \in 1..Len(ScopeOf(doc.capabilities[k])) :
             PastScope(k, j)' <=> PastScope(k, j)
        BY <1>1, <1>3, <2>1, ScopesLen DEF PastScope, PastCapabilities
    <2>3. \A k \in 1..Len(doc.capabilities) : PastCapability(k)' <=> PastCapability(k)
        BY <1>1, <2>1, ScopesLen DEF PastCapability, PastCapabilities
    <2>4. /\ HeadMet' = HeadMet /\ DependencyMet' = DependencyMet /\ CapabilityMet' = CapabilityMet
          /\ ScopeMet' = ScopeMet
          /\ CompatMet' = CompatMet /\ InputMet' = InputMet /\ OutputMet' = OutputMet
        BY <1>1, <2>1, <2>2, <2>3, MetStays
        DEF PastHead, PastDependency, PastCapabilities, PastCompat, PastInput, PastOutput
    <2>5. Met' = Met
        BY <2>4 DEF Met
    <2>6. Lists(issues', Met')
        BY <1>1, <2>1, <2>5
    <2>7. QED BY <1>1, <2>6 DEF CompleteInv
<1>4. QED BY <1>2, <1>3

LEMMA CompatCounts == CountInv /\ CheckCompat => CompleteInv'
<1> SUFFICES ASSUME CountInv, CheckCompat PROVE CompleteInv'
    OBVIOUS
<1> DEFINE found == If(doc.engine = "other", <<"engine", 0, "req">>)
                    \o If(doc.entrypoint = "unsafe", <<"entrypoint", 0, "unsafe">>)
           new == CompatBreaches(doc)
<1>1. /\ doc \in Document /\ doc' = doc /\ phase = "compat" /\ phase' = "inputs" /\ at' = 1
      /\ verdict # "unreadable" /\ verdict' = verdict /\ Lists(issues, Met)
    BY DEF CountInv, CompleteInv, ValidateInv, VTypeInv, VerdictInv, CheckCompat, Go
<1>2. issues' = issues \o found
    BY DEF CheckCompat, Found
<1>3. Lists(found, new)
    BY CompatLists
<1> HIDE DEF found
<1>4. CompatMet' = CompatMet \union new /\ ~PastCompat
    BY <1>1, BreachesStay DEF CompatMet, PastCompat
<1>5. \A k \in 1..Len(doc.inputs) : PastInput(k)' <=> PastInput(k)
    <2>1. Len(doc.inputs) \in Nat
        BY <1>1 DEF Document
    <2>2. QED BY <1>1, <2>1 DEF PastInput
<1>6. /\ HeadMet' = HeadMet /\ DependencyMet' = DependencyMet /\ CapabilityMet' = CapabilityMet
      /\ ScopeMet' = ScopeMet /\ InputMet' = InputMet /\ OutputMet' = OutputMet
    BY <1>1, <1>5, MetStays
    DEF PastHead, PastDependency, PastCapability, PastScope, PastCapabilities, PastOutput
<1>7. Met' = Met \union new
    BY <1>4, <1>6 DEF Met
<1>8. Met \intersect new = {}
    <2> SUFFICES ASSUME NEW b \in Met, b \in new PROVE FALSE
        OBVIOUS
    <2>1. b[1] \in {"engine", "entrypoint"}
        BY CompatPlaces
    <2>2. b \in CompatMet
        BY <2>1, MetPlaces DEF Met
    <2>3. QED BY <1>4, <2>2, MetPlaces
<1>9. QED BY <1>1, <1>2, <1>3, <1>7, <1>8, Counted

LEMMA FieldCounts == CountInv /\ CheckField => CompleteInv'
<1> SUFFICES ASSUME CountInv, CheckField PROVE CompleteInv'
    OBVIOUS
<1> DEFINE found == If(doc[phase][at].name = "blank", <<phase, at, "empty">>)
                    \o If(doc[phase][at].type \notin IoTypes, <<phase, at, "type">>)
           new == FieldBreaches(doc, phase, at)
<1>1. /\ doc \in Document /\ doc' = doc /\ phase \in {"inputs", "outputs"} /\ phase' = phase
      /\ at \in Nat \ {0} /\ at <= Len(doc[phase]) /\ at' = at + 1
      /\ verdict # "unreadable" /\ verdict' = verdict /\ Lists(issues, Met)
    BY DEF CountInv, CompleteInv, ValidateInv, VTypeInv, VerdictInv, CheckField
<1>2. issues' = issues \o found
    BY DEF CheckField, Found
<1>3. Lists(found, new)
    BY <1>1, FieldLists
<1> HIDE DEF found
<1>4. /\ HeadMet' = HeadMet /\ DependencyMet' = DependencyMet /\ CapabilityMet' = CapabilityMet
      /\ ScopeMet' = ScopeMet /\ CompatMet' = CompatMet
    BY <1>1, MetStays
    DEF PastHead, PastDependency, PastCapability, PastScope, PastCapabilities, PastCompat
<1>5. Len(doc.inputs) \in Nat /\ Len(doc.outputs) \in Nat
    BY <1>1 DEF Document
<1>6. CASE phase = "inputs"
    <2>1. /\ ~PastInput(at) /\ at \in 1..Len(doc.inputs)
          /\ \A k \in 1..Len(doc.inputs) : PastInput(k)' <=> PastInput(k) \/ k = at
          /\ \A k \in 1..Len(doc.outputs) : PastOutput(k)' <=> PastOutput(k)
        BY <1>1, <1>5, <1>6 DEF PastInput, PastOutput
    <2>2. InputMet' = InputMet \union new
        BY <1>1, <1>6, <2>1, BreachesStay DEF InputMet
    <2>3. OutputMet' = OutputMet
        BY <1>1, <2>1, MetStays
    <2>4. Met' = Met \union new
        BY <1>4, <2>2, <2>3 DEF Met
    <2>5. Met \intersect new = {}
        <3> SUFFICES ASSUME NEW b \in Met, b \in new PROVE FALSE
            OBVIOUS
        <3>1. b[1] = "inputs" /\ b[2] = at
            BY <1>6, FieldPlaces
        <3>2. b \in InputMet
            BY <3>1, MetPlaces DEF Met
        <3>3. PastInput(b[2])
            BY <3>2, MetPlaces
        <3>4. QED BY <2>1, <3>1, <3>3
    <2>6. QED BY <1>1, <1>2, <1>3, <2>4, <2>5, Counted
<1>7. CASE phase = "outputs"
    <2>1. /\ ~PastOutput(at) /\ at \in 1..Len(doc.outputs)
          /\ \A k \in 1..Len(doc.inputs) : PastInput(k)' <=> PastInput(k)
          /\ \A k \in 1..Len(doc.outputs) : PastOutput(k)' <=> PastOutput(k) \/ k = at
        BY <1>1, <1>5, <1>7 DEF PastInput, PastOutput
    <2>2. OutputMet' = OutputMet \union new
        BY <1>1, <1>7, <2>1, BreachesStay DEF OutputMet
    <2>3. InputMet' = InputMet
        BY <1>1, <2>1, MetStays
    <2>4. Met' = Met \union new
        BY <1>4, <2>2, <2>3 DEF Met
    <2>5. Met \intersect new = {}
        <3> SUFFICES ASSUME NEW b \in Met, b \in new PROVE FALSE
            OBVIOUS
        <3>1. b[1] = "outputs" /\ b[2] = at
            BY <1>7, FieldPlaces
        <3>2. b \in OutputMet
            BY <3>1, MetPlaces DEF Met
        <3>3. PastOutput(b[2])
            BY <3>2, MetPlaces
        <3>4. QED BY <2>1, <3>1, <3>3
    <2>6. QED BY <1>1, <1>2, <1>3, <2>4, <2>5, Counted
<1>8. QED BY <1>1, <1>6, <1>7

LEMMA NextListCounts == CountInv /\ NextList => CompleteInv'
<1> SUFFICES ASSUME CountInv, NextList PROVE CompleteInv'
    OBVIOUS
<1>1. /\ doc \in Document /\ verdict = "none" /\ at \in Nat \ {0} /\ Lists(issues, Met)
      /\ phase \in {"dependencies", "capabilities", "inputs", "outputs"}
    BY DEF CountInv, CompleteInv, ValidateInv, VTypeInv, VerdictInv, NextList, Following
<1>2. /\ doc' = doc /\ issues' = issues /\ at' = 1 /\ sub' = 1 /\ verdict' # "unreadable"
      /\ phase = "dependencies" => at > Len(doc.dependencies) /\ phase' = "capabilities"
      /\ phase = "capabilities" => at > Len(doc.capabilities) /\ phase' = "compat"
      /\ phase = "inputs" => at > Len(doc.inputs) /\ phase' = "outputs"
      /\ phase = "outputs" => at > Len(doc.outputs) /\ phase' = "done"
    BY <1>1 DEF NextList, Following, Go
<1>3. /\ Len(doc.dependencies) \in Nat /\ Len(doc.inputs) \in Nat /\ Len(doc.outputs) \in Nat
    BY <1>1 DEF Document
<1>4. \A k \in 1..Len(doc.dependencies) : PastDependency(k)' <=> PastDependency(k)
    BY <1>1, <1>2, <1>3 DEF PastDependency, PastCapabilities
<1>5. \A k \in 1..Len(doc.capabilities) : PastCapability(k)' <=> PastCapability(k)
    BY <1>1, <1>2, ScopesLen DEF PastCapability, PastCapabilities
<1>6. \A k \in 1..Len(doc.capabilities) : \A j \in 1..Len(ScopeOf(doc.capabilities[k])) :
         PastScope(k, j)' <=> PastScope(k, j)
    BY <1>1, <1>2, ScopesLen DEF PastScope, PastCapabilities
<1>7. /\ \A k \in 1..Len(doc.inputs) : PastInput(k)' <=> PastInput(k)
      /\ \A k \in 1..Len(doc.outputs) : PastOutput(k)' <=> PastOutput(k)
    BY <1>1, <1>2, <1>3 DEF PastInput, PastOutput
<1>8. (PastHead' <=> PastHead) /\ (PastCompat' <=> PastCompat)
    BY <1>1, <1>2 DEF PastHead, PastCompat
<1>9. Met' = Met
    BY <1>2, <1>4, <1>5, <1>6, <1>7, <1>8, MetStays DEF Met
<1>10. Lists(issues', Met')
    BY <1>1, <1>2, <1>9
<1>11. QED BY <1>2, <1>10 DEF CompleteInv

LEMMA CountStutter == CompleteInv /\ UNCHANGED validateVars => CompleteInv'
<1> SUFFICES ASSUME CompleteInv, UNCHANGED validateVars PROVE CompleteInv'
    OBVIOUS
<1>1. UNCHANGED <<doc, phase, at, sub, issues, verdict>>
    BY DEF validateVars
<1>2. Met' = Met
    BY <1>1, MetStays
    DEF Met, PastHead, PastDependency, PastCapability, PastScope, PastCapabilities, PastCompat,
        PastInput, PastOutput
<1>3. Lists(issues, Met) => Lists(issues', Met')
    BY <1>1, <1>2
<1>4. QED BY <1>1, <1>3 DEF CompleteInv

LEMMA CountSteps == CountInv /\ [ValidateNext]_validateVars => CountInv'
<1> SUFFICES ASSUME CountInv, [ValidateNext]_validateVars PROVE CompleteInv'
    BY ValidateSteps DEF CountInv
<1>1. QED BY LoadCounts, HeadCounts, DependencyCounts, CapabilityCounts, ScopeCounts, CompatCounts,
             FieldCounts, NextListCounts, CountStutter DEF ValidateNext, CountInv

-----------------------------------------------------------------------------
\* At the end everything has been looked at.
LEMMA AllMet == Done => Met = Broken(doc)
<1> SUFFICES ASSUME Done PROVE Met = Broken(doc)
    OBVIOUS
<1>1. /\ PastHead /\ PastCompat /\ PastCapabilities
      /\ \A k : PastDependency(k) /\ PastCapability(k) /\ PastInput(k) /\ PastOutput(k)
      /\ \A k, j : PastScope(k, j)
    BY DEF Done, PastHead, PastDependency, PastCapability, PastScope, PastCapabilities,
           PastCompat, PastInput, PastOutput
<1>2. HeadMet = HeadBreaches(doc) /\ CompatMet = CompatBreaches(doc)
    BY <1>1 DEF HeadMet, CompatMet
<1>3. /\ DependencyMet = UNION {DependencyBreaches(doc, k) : k \in 1..Len(doc.dependencies)}
      /\ CapabilityMet = UNION {CapabilityBreaches(doc, k) : k \in 1..Len(doc.capabilities)}
    BY <1>1 DEF DependencyMet, CapabilityMet
<1>4. ScopeMet = UNION {UNION {ScopeBreaches(doc, k, j) :
                                  j \in 1..Len(ScopeOf(doc.capabilities[k]))} :
                           k \in 1..Len(doc.capabilities)}
    BY <1>1 DEF ScopeMet
<1>5. /\ InputMet = UNION {FieldBreaches(doc, "inputs", k) : k \in 1..Len(doc.inputs)}
      /\ OutputMet = UNION {FieldBreaches(doc, "outputs", k) : k \in 1..Len(doc.outputs)}
    BY <1>1 DEF InputMet, OutputMet
<1>6. QED BY <1>2, <1>3, <1>4, <1>5 DEF Met, Broken

LEMMA CountInvTellsAll == CountInv => IssuesAreComplete
<1> SUFFICES ASSUME CountInv, Done
             PROVE  /\ Cardinality(ToSet(issues)) = Len(issues)
                    /\ ToSet(issues) = IF verdict = "unreadable" THEN {} ELSE Broken(doc)
    BY DEF IssuesAreComplete
<1>1. CASE verdict = "unreadable"
    <2>1. Lists(issues, {})
        BY <1>1, NothingLists DEF CountInv, CompleteInv
    <2>2. QED BY <1>1, <2>1, ListsCount DEF Lists
<1>2. CASE verdict # "unreadable"
    <2>1. Lists(issues, Broken(doc))
        BY <1>2, AllMet DEF CountInv, CompleteInv
    <2>2. QED BY <1>2, <2>1, ListsCount DEF Lists
<1>3. QED BY <1>1, <1>2

\* Validation tells everything that is broken, each problem once and in no
\* case more than that, for lists of any length (validate, manifest.rs:286-406):
\* at every step the list has the breaches of what has been looked at.
THEOREM ValidateTellsAll == ValidateSpec => []IssuesAreComplete
<1>1. ValidateInit => CountInv
    BY InitValidates, InitCounts DEF CountInv
<1>2. CountInv /\ [ValidateNext]_validateVars => CountInv'
    BY CountSteps
<1>3. QED BY <1>1, <1>2, CountInvTellsAll, PTL DEF ValidateSpec

\* Which breaches are of the schema's own rules.
LEMMA CoveredBreaches ==
    ASSUME NEW d \in Document
    PROVE  (\A b \in Broken(d) : ~Covered(b))
           <=> /\ d.manifest_version = 1
               /\ Pattern(d.spelling)
               /\ \A k \in 1..Len(d.inputs) : d.inputs[k].type \in IoTypes
               /\ \A k \in 1..Len(d.outputs) : d.outputs[k].type \in IoTypes
<1> DEFINE Clear(S) == \A b \in S : ~Covered(b)
<1> USE DEF Covered, SchemaFields, Breach
<1>1. Clear(HeadBreaches(d)) <=> d.manifest_version = 1 /\ Pattern(d.spelling)
    <2>1. Clear(NameBreaches(d)) <=> NameIssues(d.spelling) = <<>>
        <3>1. \A b \in NameBreaches(d) : Covered(b)
            BY DEF NameBreaches
        <3>2. NameBreaches(d) = {} <=> NameIssues(d.spelling) = <<>>
            <4>1. NameIssues(d.spelling) \in Seq(NameProblems)
                BY DocumentType, NameIssuesType
            <4>2. NameBreaches(d) = {} <=> DOMAIN NameIssues(d.spelling) = {}
                BY DEF NameBreaches, ToSet
            <4>3. QED BY <4>1, <4>2
        <3>3. QED BY <3>1, <3>2
    <2>2. NameIssues(d.spelling) = <<>> <=> Pattern(d.spelling)
        BY DocumentType, NameRuleIsThePattern
    <2>3. Clear(Breach(d.manifest_version # 1, <<"manifest_version", 0, "unsupported">>))
             <=> d.manifest_version = 1
        OBVIOUS
    <2>4. Clear(Breach(d.version # "semver", <<"version", 0, "not_semver">>))
        OBVIOUS
    <2>5. HeadBreaches(d)
             = (Breach(d.manifest_version # 1, <<"manifest_version", 0, "unsupported">>)
                \union NameBreaches(d))
               \union Breach(d.version # "semver", <<"version", 0, "not_semver">>)
        BY DEF HeadBreaches, NameBreaches
    <2>6. \A R, S, T : Clear((R \union S) \union T) <=> Clear(R) /\ Clear(S) /\ Clear(T)
        OBVIOUS
    <2> HIDE DEF Clear, Covered, Breach
    <2>7. QED BY <2>1, <2>2, <2>3, <2>4, <2>5, <2>6
<1>2. \A k : Clear(DependencyBreaches(d, k))
    BY DEF DependencyBreaches
<1>3. \A k : Clear(CapabilityBreaches(d, k))
    BY DEF CapabilityBreaches
<1>4. \A k, j : Clear(ScopeBreaches(d, k, j))
    BY DEF ScopeBreaches
<1>5. Clear(CompatBreaches(d))
    BY DEF CompatBreaches
<1>6. ASSUME NEW list \in {"inputs", "outputs"}, NEW k
      PROVE  Clear(FieldBreaches(d, list, k)) <=> d[list][k].type \in IoTypes
    <2> DEFINE B1 == Breach(d[list][k].name = "blank", <<list, k, "empty">>)
               B2 == Breach(d[list][k].type \notin IoTypes, <<list, k, "type">>)
    <2>1. Clear(B1)
        BY <1>6
    <2>2. Clear(B2) <=> d[list][k].type \in IoTypes
        BY <1>6
    <2>3. FieldBreaches(d, list, k) = B1 \union B2
        BY DEF FieldBreaches
    <2>4. \A S, T : Clear(S \union T) <=> Clear(S) /\ Clear(T)
        OBVIOUS
    <2> HIDE DEF Clear, B1, B2
    <2>5. QED BY <2>1, <2>2, <2>3, <2>4
<1> HIDE DEF Covered, Breach
<1>7. ASSUME \A b \in Broken(d) : ~Covered(b)
      PROVE  /\ Clear(HeadBreaches(d))
             /\ \A k \in 1..Len(d.inputs) : Clear(FieldBreaches(d, "inputs", k))
             /\ \A k \in 1..Len(d.outputs) : Clear(FieldBreaches(d, "outputs", k))
    BY <1>7 DEF Broken
<1>8. ASSUME Clear(HeadBreaches(d)),
             \A k \in 1..Len(d.inputs) : Clear(FieldBreaches(d, "inputs", k)),
             \A k \in 1..Len(d.outputs) : Clear(FieldBreaches(d, "outputs", k))
      PROVE  \A b \in Broken(d) : ~Covered(b)
    BY <1>2, <1>3, <1>4, <1>5, <1>8 DEF Broken
<1> HIDE DEF Clear
<1>9. /\ d["inputs"] = d.inputs /\ d["outputs"] = d.outputs
    OBVIOUS
<1>10. /\ \A k : Clear(FieldBreaches(d, "inputs", k)) <=> d.inputs[k].type \in IoTypes
       /\ \A k : Clear(FieldBreaches(d, "outputs", k)) <=> d.outputs[k].type \in IoTypes
    BY <1>6, <1>9
<1>11. QED BY <1>1, <1>7, <1>8, <1>10

LEMMA CountInvAgrees == CountInv => SchemaAgrees
<1> DEFINE passes == verdict # "unreadable" /\ \A k \in DOMAIN issues : ~Covered(issues[k])
<1> SUFFICES ASSUME CountInv, Done
             PROVE  /\ SchemaAccepts(doc) => passes
                    /\ Plain(doc) /\ passes => SchemaAccepts(doc)
    BY DEF SchemaAgrees
<1>1. doc \in Document /\ doc.manifest_version \in Nat
    BY DEF CountInv, ValidateInv, VTypeInv, Document
<1>2. /\ DOMAIN doc.capabilities = 1..Len(doc.capabilities)
      /\ DOMAIN doc.inputs = 1..Len(doc.inputs)
      /\ DOMAIN doc.outputs = 1..Len(doc.outputs)
    BY <1>1, DocumentType
<1>3. doc.manifest_version \in 1..MANIFEST_SCHEMA_VERSION <=> doc.manifest_version = 1
    BY <1>1 DEF MANIFEST_SCHEMA_VERSION
<1>4. SchemaAccepts(doc) => ~Unreadable(doc)
    BY DEF SchemaAccepts, Unreadable, SchemaKinds
<1>5. verdict = "unreadable" <=> Unreadable(doc)
    BY DEF CountInv, ValidateInv, VerdictInv, Done
<1>6. SchemaAccepts(doc)
         <=> /\ ~Unreadable(doc) /\ Plain(doc)
             /\ doc.manifest_version = 1 /\ Pattern(doc.spelling)
             /\ \A k \in 1..Len(doc.inputs) : doc.inputs[k].type \in IoTypes
             /\ \A k \in 1..Len(doc.outputs) : doc.outputs[k].type \in IoTypes
    BY <1>2, <1>3 DEF SchemaAccepts, Unreadable, Plain, SchemaKinds, SchemaTypes, IoTypes
<1>7. verdict # "unreadable" =>
         ((\A k \in DOMAIN issues : ~Covered(issues[k])) <=> \A b \in Broken(doc) : ~Covered(b))
    <2> SUFFICES ASSUME verdict # "unreadable"
                 PROVE  (\A k \in DOMAIN issues : ~Covered(issues[k]))
                        <=> \A b \in Broken(doc) : ~Covered(b)
        OBVIOUS
    <2>1. ToSet(issues) = Broken(doc)
        BY AllMet DEF CountInv, CompleteInv, Lists
    <2>2. QED BY <2>1 DEF ToSet
<1>8. QED BY <1>1, <1>5, <1>6, <1>7, CoveredBreaches

\* What the program passes and what the published schema accepts is the same,
\* for what the schema has rules about and documents written plainly
\* (json_schema, manifest.rs:456).
THEOREM SchemaAndProgramAgree == ValidateSpec => []SchemaAgrees
<1>1. ValidateInit => CountInv
    BY InitValidates, InitCounts DEF CountInv
<1>2. CountInv /\ [ValidateNext]_validateVars => CountInv'
    BY CountSteps
<1>3. QED BY <1>1, <1>2, CountInvAgrees, PTL DEF ValidateSpec

=============================================================================
