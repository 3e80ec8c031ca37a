------------------------------- MODULE MCLock -------------------------------
EXTENDS Lock

\* Indexes the registry can write: no name and version twice, in any order.
UniqueIndexes ==
    {s \in BoundedSeq([name : 2..3, version : 1..3, sha256 : {"x"}], 3) :
        \A a, b \in DOMAIN s :
            s[a].name = s[b].name /\ s[a].version = s[b].version => a = b}

\* Distinct builds have distinct hashes.
MCIndexes ==
    {[k \in DOMAIN s |-> [s[k] EXCEPT !.sha256 = <<s[k].name, s[k].version>>]] :
        s \in UniqueIndexes}

\* Name 1 is blank, 2 and 3 are those the registry has builds of.
MCBlank == {1}
MCReqs == {{1}, {1, 2}, {2, 3}}
MCBadReq == {0}
MCVersions == 1..3
MCHashes == (2..3) \X (1..3)

Base == [json |-> TRUE, unknown |-> FALSE, manifest_version |-> 1,
         name |-> 4, spelling |-> <<"a">>, version |-> "semver",
         dependencies |-> <<>>, capabilities |-> <<>>, engine |-> "absent",
         entrypoint |-> "absent", inputs |-> <<>>, outputs |-> <<>>]

Dependencies == [name : 2..3, req : MCReqs \union {MCBadReq}]

\* Manifests are not validated before `lock`: a name may occur twice, with
\* another between, and be the skill's own.
Depending ==
    {[Base EXCEPT !.dependencies = d, !.name = n] :
        d \in BoundedSeq(Dependencies, 2)
              \union {<<[name |-> 2, req |-> {1}], [name |-> 3, req |-> {1, 2}],
                        [name |-> 2, req |-> {2, 3}]>>},
        n \in 3..4}

\* A section varied around a manifest with nothing wrong.
Named == {[Base EXCEPT !.spelling = s, !.manifest_version = v, !.version = w] :
            s \in BoundedSeq(Char, 3), v \in 0..2, w \in {"semver", "other"}}
Empowered ==
    {[Base EXCEPT !.capabilities = c] :
        c \in BoundedSeq([kind : {"net", "exec", "other"}, misspelt : BOOLEAN,
                          scope : {<<>>, <<"text">>, <<"text", "blank">>}], 2)
              \union {<<[kind |-> k, scope |-> <<>>, misspelt |-> FALSE],
                        [kind |-> "net", scope |-> <<"blank">>, misspelt |-> FALSE],
                        [kind |-> k, scope |-> <<>>, misspelt |-> FALSE]>> :
                          k \in CapabilityKinds}}
Typed ==
    {[Base EXCEPT !.inputs = x, !.outputs = y] :
        x \in BoundedSeq(IoField({"string", "file", "other"}), 2),
        y \in BoundedSeq(IoField({"string", "other"}), 1)}

\* Sections with problems together.
Mixed ==
    [json : BOOLEAN, unknown : BOOLEAN, manifest_version : {0, 1}, name : {1},
     spelling : {<<"a">>, <<"-", "A">>}, version : {"semver", "other"},
     dependencies : {<<>>, <<[name |-> 1, req |-> MCBadReq], [name |-> 1, req |-> {1}]>>},
     capabilities : {<<>>, <<[kind |-> "env", scope |-> <<"blank">>, misspelt |-> FALSE]>>},
     engine : {"absent", "null", "req", "other"},
     entrypoint : {"absent", "null", "safe", "unsafe"},
     inputs : {<<>>, <<[name |-> "blank", type |-> "other"]>>}, outputs : {<<>>}]

Documented == Named \union Empowered \union Typed \union Mixed
MCDocuments == Depending \union Documented

\* What is in the registry matters to the dependencies alone.
MCCases == [document : Depending, index : MCIndexes]
              \union [document : Documented, index : {<<>>}]
=============================================================================
