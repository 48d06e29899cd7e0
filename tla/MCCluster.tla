------------------------------ MODULE MCCluster ------------------------------
(* Small instance of Cluster: three servers that disagree on the threshold. *)
EXTENDS Cluster, TLC

CONSTANTS a, b, c

MCServer == {a, b, c}
MCReported == (a :> 2) @@ (b :> 2) @@ (c :> 3)
=============================================================================
