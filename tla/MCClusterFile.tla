---------------------------- MODULE MCClusterFile ----------------------------
(* ClusterFile on small instances.                                         *)
EXTENDS ClusterFile, TLC

CONSTANTS k1, k2, p1, p2, c1, c2, n1, n2

Symmetry == Permutations(Call) \cup Permutations(Process)
            \cup Permutations(Cluster) \cup Permutations(Node)
            \cup Permutations(VmId) \cup Permutations(Ip)
=============================================================================
