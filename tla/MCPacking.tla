----------------------------- MODULE MCPacking -----------------------------
EXTENDS Packing

\* assets/a, assets/icons/b, skill.json and tool.md, in this order.
MCFiles == 1..4
MCDirs == {Root, "assets", "icons"}
MCWay == <<<<Root, "assets">>, <<Root, "assets", "icons">>, <<Root>>, <<Root>>>>

\* Two valid manifests, one that breaks a rule, one that is not JSON.
MCContents == {"v1", "v2", "rule_broken", "text"}
MCJson == {"v1", "v2", "rule_broken"}
MCValid == {"v1", "v2"}
MCMetaOf == [c \in MCJson |-> c]
=============================================================================
