----------------------------- MODULE MCAgentState -----------------------------
(***************************************************************************)
(* Instances of AgentState for TLC.                                        *)
(***************************************************************************)
EXTENDS AgentState

\* Two rules with files of their own, and two that share one: the names
\* "GPU Hot" and "gpu-hot" are both legal and have the same slug.
TwoRules   == {"psu.12v", "psu-12v"}
OwnSlugs   == [r \in TwoRules |-> r]
TwoRanks   == [r \in TwoRules |-> IF r = "psu.12v" THEN {1, 2} ELSE {2}]
AlikeRules == {"GPU Hot", "gpu-hot"}
SameSlug   == [r \in AlikeRules |-> "gpu-hot"]
SameRank   == [r \in AlikeRules |-> {1}]
=============================================================================
