----------------------------- MODULE MCRpcFetch -----------------------------
(* Files without chains, with NEAR alone, with an empty list, with Ankr's   *)
(* own Ethereum server; QuickNode endpoints of both forms and a foreign one. *)
EXTENDS RpcFetch, TLC

Own == [host |-> "example.org", prefix |-> <<"near">>, path |-> << >>]
MCFiles ==
  {NoChains, 0 :> <<Own>>, 0 :> <<Own>> @@ 2222 :> << >>,
   0 :> <<Own>> @@ 1 :> <<AnkrEndpoints[1]>>}
MCBases ==
  {[host |-> "quiknode.pro", prefix |-> <<"some-account">>, path |-> << >>],
   [host |-> "quiknode.pro", prefix |-> <<"some-account", "ethereum-mainnet">>, path |-> << >>],
   [host |-> "example.com", prefix |-> <<"ethereum">>, path |-> << >>]}
=============================================================================
