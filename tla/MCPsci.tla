------------------------------ MODULE MCPsci ------------------------------
(* Instances of Psci for TLC: the topology of MT7981, and a larger tree. *)
EXTENDS Psci

\* One system, one cluster, two CPUs (plat_topology.c)
Mt7981Nodes == {"system", "cluster"}
Mt7981Ancestor == [c \in CPUs |-> <<"cluster", "system">>]

\* One system with a cluster of two CPUs and a cluster of one
TwoClusterNodes == {"system", "cluster0", "cluster1"}
TwoClusterAncestor ==
    [c \in CPUs |-> <<IF c = 2 THEN "cluster1" ELSE "cluster0", "system">>]

SuccessOnly == {"SUCCESS"}
SuccessOrFail == {"SUCCESS", "INTERN_FAIL"}
=============================================================================
