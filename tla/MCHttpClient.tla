---------------------------- MODULE MCHttpClient ----------------------------
(* Two servers; bodies shorter, as long and longer than four bytes, cut     *)
(* between characters and through one.                                      *)
EXTENDS HttpClient

CONSTANTS s1, s2

Text(n, inside) == [bytes |-> n, boundaries |-> {0, n} \cup inside]

MCServer == {s1, s2}
MCJson == {Text(2, {1}), Text(5, {1, 2, 3, 4}), Text(6, {1, 4, 5})}
MCBodies ==
  MCJson \cup {Text(4, {1, 2, 3}), Text(4, {2}), Text(4, {1}), Text(5, {2, 3})}
=============================================================================
