---------------------------- MODULE MCEvmVerifier ----------------------------
(* Three servers, one of which may lie and another may send long errors     *)
(* with wide characters, on a chain that reorganises, one that does not and *)
(* one that the code does not list.                                         *)
EXTENDS EvmVerifier, TLC

CONSTANTS s1, s2, s3

MCServer == {s1, s2, s3}
MCFaulty == {s3}
MCWide == {s2}
MCDepth == (8453 :> 1) @@ (56 :> 0) @@ (777 :> 0)
MCChains == DOMAIN MCDepth
=============================================================================
