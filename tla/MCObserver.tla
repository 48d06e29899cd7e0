----------------------------- MODULE MCObserver -----------------------------
(* A chain with two servers of one domain and a third of another, which   *)
(* serves a second chain too.                                              *)
EXTENDS Observer, TLC

CONSTANTS c1, c2, s1, s2, s3, quiknode, drpc

MCChain == {c1, c2}
MCServer == {s1, s2, s3}
MCServers == c1 :> <<s1, s2, s3>> @@ c2 :> <<s3>>
MCThreshold == c1 :> 2 @@ c2 :> 1
MCDomain == s1 :> quiknode @@ s2 :> quiknode @@ s3 :> drpc
=============================================================================
