---------------------------- MODULE MCValidation ----------------------------
(* Small instance of Validation: two methods, on pairs of chains that cover *)
(* every arm of the dispatch and every kind of input; one EVM and one       *)
(* Cosmos chain that the code does not list by name, one chain without      *)
(* configuration and one without servers, inputs that are of another kind   *)
(* than their chain's, and inputs whose values do not fit.                  *)
EXTENDS Validation, TLC

CONSTANTS m1, m2

MCMethod == {m1, m2}

MCProtocol ==
  (0 :> "near") @@ (1001 :> "solana") @@ (1100 :> "stellar") @@ (1117 :> "ton")
    @@ (8453 :> "evm") @@ (10 :> "evm") @@ (777 :> "evm") @@ (4444118 :> "cosmos") @@ (44445 :> "cosmos")
MCConfigured == DOMAIN MCProtocol
MCEmpty == {10}

In(form, types, misfit) == [form |-> form, types |-> types, misfit |-> misfit]
EvmIn == In("list", {"bytes32", "bytes"}, FALSE)
StellarIn == In("list", {"string", "bytes"}, FALSE)
OnlyBytes == In("list", {"bytes"}, FALSE)
ShortWord == In("list", {"bytes32", "uint128"}, TRUE)
Mixed == In("list", {"bytes32", "u128"}, FALSE)
Neither == In("other", {}, FALSE)
Object(kind) == In(kind, {}, FALSE)
LargeDeposit == In("solana", {}, TRUE)

MCCalls ==
  {<<[to |-> Direct, with |-> Neither], [to |-> 8453, with |-> EvmIn]>>,
   <<[to |-> 1117, with |-> Object("ton")], [to |-> 1100, with |-> StellarIn]>>,
   <<[to |-> 1111, with |-> Object("ton")], [to |-> 1001, with |-> Object("solana")]>>,
   <<[to |-> 4444118, with |-> Object("cosmos")], [to |-> 56, with |-> EvmIn]>>,
   <<[to |-> 44445, with |-> Object("cosmos")], [to |-> 777, with |-> EvmIn]>>,
   <<[to |-> 0, with |-> EvmIn], [to |-> 8453, with |-> Object("ton")]>>,
   <<[to |-> 4444777, with |-> Object("cosmos")], [to |-> 1117, with |-> EvmIn]>>,
   <<[to |-> 8453, with |-> OnlyBytes], [to |-> 1100, with |-> OnlyBytes]>>,
   <<[to |-> 8453, with |-> ShortWord], [to |-> 1100, with |-> Mixed]>>,
   <<[to |-> 10, with |-> ShortWord], [to |-> 1001, with |-> LargeDeposit]>>}

Read(lists, failures) == [lists |-> lists, reading |-> failures]
Readings ==
  {Read({<<m1, m2>>}, {}), Read({<<m1>>}, {}), Read({<< >>}, {}), Read({}, {"fails"}),
   Read({<<m2, m1>>, <<m2>>}, {"fails", "panics"})}
Steady == {{"yes"}, {"no", "fails"}}
Answers == Steady \cup {Answer}

MCWorlds ==
  {[chainOf |-> (m1 :> c[1].to) @@ (m2 :> c[2].to),
    input |-> (m1 :> c[1].with) @@ (m2 :> c[2].with),
    near |-> near, chain |-> chain, lists |-> r.lists, reading |-> r.reading] :
     c \in MCCalls, near \in [MCMethod -> Answers], chain \in [MCMethod -> Answers],
     r \in Readings}

MCProofs == {<< >>, <<m1>>, <<m2>>, <<m1, m2>>, <<m2, m1>>}
=============================================================================
