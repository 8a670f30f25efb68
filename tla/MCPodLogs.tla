------------------------------ MODULE MCPodLogs ------------------------------
(* Small instances of PodLogs: a label that two namespaces use, and one that    *)
(* only one of them uses.                                                       *)
EXTENDS PodLogs

TwoLabels  == {"api", "db"}
LabelOf(t) == t[2]
MixedTargets == {<<"hs1", "api">>, <<"hs2", "api">>, <<"hs1", "db">>}
=============================================================================
