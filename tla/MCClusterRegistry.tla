------------------------- MODULE MCClusterRegistry -------------------------
(* TLC instances of ClusterRegistry: one environment cluster.              *)
EXTENDS ClusterRegistry, TLC

CONSTANTS e1, p1, p2

MCAlias == {e1, p1, p2}
MCEnvSeq == <<e1>>
Symmetry == Permutations(Request) \cup Permutations(Session)
=============================================================================
