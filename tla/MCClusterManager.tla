--------------------------- MODULE MCClusterManager ---------------------------
(* Small instance of ClusterManager: A has three servers and needs two of   *)
(* them; B and Z share one server, which B needs and Z, whose threshold is  *)
(* 0, does not: up to five combinations for SIGN_CONCURRENCY places.        *)
EXTENDS ClusterManager, TLC

CONSTANTS a1, a2, a3, b1, A, B, Z

MCClusters == {A, B, Z}
MCServer == {a1, a2, a3, b1}
MCServersOf == (A :> {a1, a2, a3}) @@ (B :> {b1}) @@ (Z :> {b1})
MCThreshold == (A :> 2) @@ (B :> 1) @@ (Z :> 0)
=============================================================================
