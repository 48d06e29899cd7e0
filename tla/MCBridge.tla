------------------------------ MODULE MCBridge ------------------------------
(* Two requests at a time, about two transfers to one receiver on TON and   *)
(* one like the second on an EVM chain, and one on Solana whose amount  *)
(* u64 does not hold.                                                       *)
EXTENDS Bridge, TLC

CONSTANTS r1, r2, u

MCRequest == {r1, r2}
MCReceiver == {u}
AnyRequest == Permutations(MCRequest)
On(chain_id, nonce, amount) ==
  [chain_id |-> chain_id, nonce |-> nonce, receiver |-> u, amount |-> amount]
MCActions == {On(TON_V2, 1, 1), On(TON_V2, 2, 1), On(56, 2, 1), On(Solana, 2, 3)}
=============================================================================
