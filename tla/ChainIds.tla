------------------------------ MODULE ChainIds ------------------------------
(***************************************************************************)
(* Chain ids.  A ChainId is the u64 it is converted to and from; the chains *)
(* the code knows by name are those of ExtendedChainId.                     *)
(***************************************************************************)
EXTENDS Integers

ChainId == Nat

Near == 0
Solana == 1001
Stellar == 1100
Ton == 1111
TON_V2 == 1117

(***************************************************************************)
(* is_cosmos: the decimal digits start with 4444.  The powers are enough   *)
(* for ids below 2^32, which all the ids the code lists are.               *)
(***************************************************************************)
PowersOfTen == {1, 10, 100, 1000, 10000, 100000}
IsCosmos(id) == \E p \in PowersOfTen : id \div p = 4444

(***************************************************************************)
(* The listed chains, by what ExtendedChainId::can_reorg says of them.     *)
(***************************************************************************)
Reorganising ==
  {1, 10, 8453, 137, 42161, 324, 59144, 5000, 143, 10143, 9745, 6342, 4326, 14}

Deterministic ==
  {0, 36900, 56, 43114, 8217, 2222, 1313161554, 196, 80094, 2741, 999, 1100, 1117, 1001,
   534352, 4444118, 4444119, 57073}

ExtendedChainId == Reorganising \cup Deterministic
=============================================================================
