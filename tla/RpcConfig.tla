----------------------------- MODULE RpcConfig ------------------------------
(***************************************************************************)
(* The RPC configuration of one chain, `ChainValidationConfig`: how many   *)
(* servers must agree and which servers are asked, and the rule            *)
(* `validate_chain_config` that a configuration is meant to satisfy.       *)
(* `servers` is a Vec, so one URL may occur in several slots.              *)
(***************************************************************************)
EXTENDS Naturals, Sequences

CONSTANTS
  Url,        \* server addresses
  Plaintext   \* the addresses that do not start with "https://"

ASSUME PlaintextAssumption == Plaintext \subseteq Url

ChainValidationConfig == [threshold : Nat, servers : Seq(Url)]

SlotsOf(c) == 1 .. Len(c.servers)

(* Faulty variants of the definitions below, for the mutation checks. *)
UniqueNeighbours(c) ==
  \A i, j \in SlotsOf(c) : j = i + 1 => c.servers[i] # c.servers[j]
HalfOrMore(c) == 2 * c.threshold >= Len(c.servers)

(***************************************************************************)
(* serde_valid's `unique_items` on the field `servers`.                    *)
(***************************************************************************)
UniqueItems(c) == \A i, j \in SlotsOf(c) : c.servers[i] = c.servers[j] => i = j

StrictMajority(c) == 2 * c.threshold > Len(c.servers)

validate_chain_config(c) ==
  /\ c.threshold # 0
  /\ Len(c.servers) >= c.threshold
  /\ StrictMajority(c)
  /\ \A i \in SlotsOf(c) : c.servers[i] \notin Plaintext

(***************************************************************************)
(* What `Validate::validate` accepts: the field rules and the custom rule. *)
(***************************************************************************)
Validated(c) == UniqueItems(c) /\ validate_chain_config(c)
=============================================================================
