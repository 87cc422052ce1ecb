------------------------------ MODULE MCCluster ------------------------------
(* Instances of Cluster. *)
EXTENDS Cluster, TLC

Symmetry == Permutations(Nodes)
=============================================================================
