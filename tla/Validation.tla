------------------------------ MODULE Validation ------------------------------
(***************************************************************************)
(* One call of Validation::verify: read the wallet's access list on NEAR,  *)
(* pair every method of it with one payload of the proof, and check all    *)
(* the pairs concurrently.  A check asks NEAR, which answers with a status *)
(* or with an AuthCall to the contract of another chain, and then asks     *)
(* that chain.  The first check to fail ends the call and drops the rest.  *)
(*                                                                         *)
(* Every question is a threshold call (module ThresholdCall): it returns   *)
(* what the chain said at some moment of the call, or an error, or the     *)
(* verifier of one of its servers panics and the whole call ends with it.  *)
(* Chains move while the request runs, so a question has a set of possible *)
(* answers, fixed per behaviour: one answer for a chain that stands still, *)
(* several for one that changes or whose servers fail now and then.        *)
(*                                                                         *)
(* The arguments for the other chain are JSON that says nothing of its     *)
(* kind: they become those of the first kind that can hold them, and the   *)
(* verifier that the chain id leads to may find that they are not its own. *)
(***************************************************************************)
EXTENDS Sequences, ChainIds

CONSTANTS
  Method,      \* authentication methods that wallets list
  Direct,      \* "NEAR decides on its own", in place of a chain id
  Worlds,      \* what the chains may answer in a behaviour, see IsWorld
  Proofs,      \* the sequences of payloads users send
  Configured,  \* chain ids with an RPC configuration
  Empty,       \* those of them, NEAR aside, with an empty list of servers
  Protocol     \* the protocol the servers of each configured chain speak

VARIABLES
  world,       \* the member of Worlds this behaviour takes place in
  proof,       \* per payload, the method it was made for
  accessList,  \* the wallet's methods, once read
  tasks,       \* one per pair: "near", "chain" or "ok"
  status       \* "reading", "verifying", "ok", "err", "panic" or "dropped"

vars == <<world, proof, accessList, tasks, status>>

-----------------------------------------------------------------------------

(***************************************************************************)
(* Validation::new panics without a configuration for these four.          *)
(***************************************************************************)
ASSUME ConfiguredAssumption ==
  /\ Configured \subseteq ChainId
  /\ {Near, Stellar, TON_V2, Solana} \subseteq Configured
  /\ Empty \subseteq Configured \ {Near}
  /\ Direct \notin ChainId

(***************************************************************************)
(* "panics": of one server's answers, http_client panics on the text       *)
(* (module HttpClient), or the verifier on the number (module EvmVerifier).*)
(***************************************************************************)
Answer == {"yes", "no", "fails", "panics"}

(***************************************************************************)
(* What the code tells apart in an AuthCall's input: its form (a list of   *)
(* arguments, the object of a kind, or neither), the types of the          *)
(* arguments, and misfit: one of the values does not fit what the verifier *)
(* makes of it before it sends anything.  That is a bytes32 that does not  *)
(* have 32 bytes for EVM, and for Solana a deposit's amount above 2^64 - 1 *)
(* or an account of more than 32 bytes, which is no seed of an address.    *)
(***************************************************************************)
EvmTypes == {"bytes32", "bytes", "uint128"}
StellarTypes == {"string", "bytes", "u128"}
ObjectKinds == {"ton", "solana", "cosmos"}
InputData == [form : {"list", "other"} \cup ObjectKinds,
              types : SUBSET (EvmTypes \cup StellarTypes),
              misfit : BOOLEAN]

(***************************************************************************)
(* near and chain: the answers about a method; lists: the access lists the *)
(* wallet may have; reading: what may come of the attempt to read one      *)
(* instead; chainOf, input: where NEAR sends the method's AuthCall and     *)
(* with what arguments.                                                    *)
(***************************************************************************)
IsWorld(w) ==
  /\ w.chainOf \in [Method -> ChainId \cup {Direct}]
  /\ w.input \in [Method -> InputData]
  /\ w.near \in [Method -> (SUBSET Answer) \ {{}}]
  /\ w.chain \in [Method -> (SUBSET Answer) \ {{}}]
  /\ w.lists \subseteq Seq(Method) /\ w.reading \subseteq {"fails", "panics"}
  /\ w.lists = {} => w.reading # {}

ASSUME WorldsAssumption == \A w \in Worlds : IsWorld(w)
ASSUME ProofsAssumption == Proofs \subseteq Seq(Method)

(***************************************************************************)
(* The convention behind the ids: those that start with 4444 were given to *)
(* Cosmos chains, the others without a name of their own to EVM chains.    *)
(***************************************************************************)
ASSUME ProtocolAssumption ==
  /\ Protocol \in [Configured -> {"near", "stellar", "cosmos", "ton", "solana", "evm"}]
  /\ Protocol[Stellar] = "stellar" /\ Protocol[Solana] = "solana" /\ Protocol[TON_V2] = "ton"
  /\ \A id \in Configured \ {Near, Stellar, Solana, Ton, TON_V2} :
       Protocol[id] = IF IsCosmos(id) THEN "cosmos" ELSE "evm"

-----------------------------------------------------------------------------
(* Faulty variants of the definitions below, for the mutation checks.      *)

SingleVerifier(kind, id) == {[kind |-> kind, chain |-> id]}
FromConfig(kind, id) == IF id \in Configured THEN SingleVerifier(kind, id) ELSE {}

EvmBeforeTon(id) ==
  CASE id = Stellar -> SingleVerifier("stellar", Stellar)
    [] IsCosmos(id) -> FromConfig("cosmos", id)
    [] id = Solana -> SingleVerifier("solana", Solana)
    [] id = Ton -> SingleVerifier("ton", TON_V2)
    [] id = Near -> {}
    [] OTHER -> FromConfig("evm", id)
AnyLength(L) == TRUE
NonEmptyDone == tasks # << >> /\ \A i \in DOMAIN tasks : tasks[i] = "ok"
StellarFirst(types) ==
  CASE types \subseteq StellarTypes -> "stellar"
    [] types \subseteq EvmTypes /\ ~(types \subseteq StellarTypes) -> "evm"
    [] OTHER -> "none"
UnwrapsInput(in, kind) == in.form \notin {"list", kind}

-----------------------------------------------------------------------------

(***************************************************************************)
(* verify_auth_method's match on the AuthCall's chain id: the verifier it  *)
(* takes, none when the chain is NEAR or has no configuration.  Arms are   *)
(* tried in the order of the code: TON_V2 and the Cosmos ids are           *)
(* ChainId::Evm too, and both are in the map of EVM verifiers.             *)
(***************************************************************************)
VerifierOf(id) ==
  CASE id = Stellar -> SingleVerifier("stellar", Stellar)
    [] IsCosmos(id) -> FromConfig("cosmos", id)
    [] id \in {Ton, TON_V2} -> SingleVerifier("ton", TON_V2)
    [] id = Solana -> SingleVerifier("solana", Solana)
    [] id = Near -> {}
    [] OTHER -> FromConfig("evm", id)

Target(i) == world.chainOf[accessList[i]]
Input(i) == world.input[accessList[i]]

(***************************************************************************)
(* The first variant of InputData that can hold the arguments, in the      *)
(* order they are declared in; types are the only tags that a list has.    *)
(***************************************************************************)
ListKind(types) ==
  CASE types \subseteq EvmTypes -> "evm"
    [] types \subseteq StellarTypes /\ ~(types \subseteq EvmTypes) -> "stellar"
    [] OTHER -> "none"

Kind(in) ==
  CASE in.form = "list" -> ListKind(in.types)
    [] in.form \in ObjectKinds -> in.form
    [] OTHER -> "none"

(***************************************************************************)
(* The EVM and the Solana verifier convert their arguments before any      *)
(* request: Word::from_slice panics on a slice of another length, the      *)
(* downcast of the amount on one above 2^64 - 1, and find_program_address  *)
(* on a seed that is too long.                                             *)
(***************************************************************************)
Converting == {"evm", "solana"}
ConversionPanics(in, kind) == kind \in Converting /\ Kind(in) = kind /\ in.misfit

(***************************************************************************)
(* A verifier takes only arguments of its own kind, gets answers only from *)
(* servers that speak its protocol, and as an EVM verifier only on chains  *)
(* that ExtendedChainId lists.  What goes wrong goes wrong on every server.*)
(***************************************************************************)
Takes(v, in) == Kind(in) = v.kind
Speaks(v) == v.kind = Protocol[v.chain]
BlockIsKnown(v) == v.kind = "evm" => v.chain \in ExtendedChainId

(***************************************************************************)
(* TON and Solana verifiers know no "no": what is not so is an error.      *)
(* Stellar and Solana verifiers have clients of their own, and an error of *)
(* those is only an error.                                                 *)
(***************************************************************************)
UsesHttpClient(v) == v.kind \in {"evm", "ton", "cosmos"}

Verdict(v, answer) ==
  CASE answer = "no" /\ v.kind \in {"ton", "solana"} -> "fails"
    [] answer = "panics" /\ ~UsesHttpClient(v) -> "fails"
    [] OTHER -> answer

(***************************************************************************)
(* An AuthCall whose input is of no kind is no answer at all.              *)
(***************************************************************************)
Heard(i, answer) ==
  IF answer = "yes" /\ Target(i) # Direct /\ Kind(Input(i)) = "none" THEN "fails" ELSE answer

NearSays(i) ==
  IF proof[i] = accessList[i]
    THEN {Heard(i, answer) : answer \in world.near[proof[i]]}
    ELSE {"no"} \cup (world.near[accessList[i]] \cap {"fails", "panics"})

(***************************************************************************)
(* A request is sent to a chain with servers, in the verifier's own kind   *)
(* of arguments.  A conversion that panics does so for the first server.   *)
(***************************************************************************)
Sent(i, v) ==
  /\ v.chain \notin Empty /\ BlockIsKnown(v)
  /\ Takes(v, Input(i)) /\ ~ConversionPanics(Input(i), v.kind)

ChainSays(i, v) ==
  CASE v.chain \notin Empty /\ ConversionPanics(Input(i), v.kind) -> {"panics"}
    [] Sent(i, v) /\ Speaks(v) -> {Verdict(v, answer) : answer \in world.chain[accessList[i]]}
    [] OTHER -> {"fails"}

(***************************************************************************)
(* ThresholdVerifier::verify puts the chain's name in its error.  It asks  *)
(* the first verifier for it, and panics when there is none; EVM and       *)
(* Cosmos verifiers panic when ExtendedChainId does not list the chain.    *)
(***************************************************************************)
HasName(v) ==
  /\ v.chain \notin Empty
  /\ v.kind \in {"evm", "cosmos"} => v.chain \in ExtendedChainId

SameLength(L) == Len(proof) = Len(L)

(***************************************************************************)
(* The pairs of `zip`, as long as the shorter side.                        *)
(***************************************************************************)
Zipped(L) == 1 .. IF Len(L) < Len(proof) THEN Len(L) ELSE Len(proof)

-----------------------------------------------------------------------------

Init ==
  /\ world \in Worlds
  /\ proof \in Proofs
  /\ accessList = << >>
  /\ tasks = << >>
  /\ status = "reading"

Unread == status = "reading"
Verifying == status = "verifying"

End(outcome) ==
  /\ status' = outcome
  /\ UNCHANGED <<world, proof, accessList, tasks>>

Progress(i, stage) ==
  /\ tasks' = [tasks EXCEPT ![i] = stage]
  /\ UNCHANGED <<world, proof, accessList, status>>

ReadWallet(L) ==
  /\ Unread /\ L \in world.lists /\ SameLength(L)
  /\ accessList' = L
  /\ tasks' = [i \in Zipped(L) |-> "near"]
  /\ status' = "verifying"
  /\ UNCHANGED <<world, proof>>

LengthDiffers(L) ==
  /\ Unread /\ L \in world.lists /\ ~SameLength(L)
  /\ End("err")

WalletUnread == Unread /\ "fails" \in world.reading /\ End("err")

WalletPanics == Unread /\ "panics" \in world.reading /\ End("panic")

(***************************************************************************)
(* NEAR's answer to check i, and the dispatch that follows without a pause.*)
(***************************************************************************)
NearApproves(i) == Verifying /\ tasks[i] = "near" /\ "yes" \in NearSays(i)

NearResult(i) ==
  /\ NearApproves(i) /\ Target(i) = Direct
  /\ Progress(i, "ok")

NearAuthCall(i) ==
  /\ NearApproves(i) /\ Target(i) # Direct /\ VerifierOf(Target(i)) # {}
  /\ Progress(i, "chain")

Unroutable(i) ==
  /\ NearApproves(i) /\ Target(i) # Direct /\ VerifierOf(Target(i)) = {}
  /\ End("err")

NearRefuses(i) ==
  /\ Verifying /\ tasks[i] = "near" /\ NearSays(i) \cap {"no", "fails"} # {}
  /\ End("err")

NearPanics(i) ==
  /\ Verifying /\ tasks[i] = "near" /\ "panics" \in NearSays(i)
  /\ End("panic")

ChainApproves(i) ==
  /\ Verifying /\ tasks[i] = "chain"
  /\ \E v \in VerifierOf(Target(i)) : "yes" \in ChainSays(i, v)
  /\ Progress(i, "ok")

ChainRefuses(i) ==
  /\ Verifying /\ tasks[i] = "chain"
  /\ \E v \in VerifierOf(Target(i)) :
       \/ "no" \in ChainSays(i, v)
       \/ "fails" \in ChainSays(i, v) /\ HasName(v)
  /\ End("err")

ChainPanics(i) ==
  /\ Verifying /\ tasks[i] = "chain"
  /\ \E v \in VerifierOf(Target(i)) :
       \/ "panics" \in ChainSays(i, v)
       \/ "fails" \in ChainSays(i, v) /\ ~HasName(v)
  /\ End("panic")

Done == \A i \in DOMAIN tasks : tasks[i] = "ok"

AllVerified == Verifying /\ Done /\ End("ok")

(***************************************************************************)
(* The service's timeout, or the client, drops the request.                *)
(***************************************************************************)
Drop == (Unread \/ Verifying) /\ End("dropped")

Ended == ~Unread /\ ~Verifying /\ UNCHANGED vars

Check(i) ==
  \/ NearResult(i) \/ NearAuthCall(i) \/ Unroutable(i) \/ NearRefuses(i) \/ NearPanics(i)
  \/ ChainApproves(i) \/ ChainRefuses(i) \/ ChainPanics(i)

Step ==
  \/ \E L \in world.lists : ReadWallet(L) \/ LengthDiffers(L)
  \/ WalletUnread \/ WalletPanics
  \/ \E i \in DOMAIN tasks : Check(i)
  \/ AllVerified

Next == Step \/ Drop \/ Ended

Spec == Init /\ [][Next]_vars

(***************************************************************************)
(* Threshold calls end (ThresholdCall!Termination), so the checks go on.   *)
(***************************************************************************)
FairSpec == Spec /\ WF_vars(Step)

-----------------------------------------------------------------------------

(***************************************************************************)
(* Every variable holds a value of its type; once the list is read there   *)
(* is a check for every method of it.                                      *)
(***************************************************************************)
TypeOK ==
  /\ IsWorld(world) /\ proof \in Seq(Method)
  /\ accessList \in Seq(Method)
  /\ status \in {"reading", "verifying", "ok", "err", "panic", "dropped"}
  /\ tasks \in [DOMAIN accessList -> {"near", "chain", "ok"}]

(***************************************************************************)
(* The chain that an id means, whatever the code does with it.             *)
(***************************************************************************)
Home(id) == IF id = Ton THEN TON_V2 ELSE id

Approved(m) ==
  /\ "yes" \in world.near[m]
  /\ world.chainOf[m] # Direct =>
       /\ world.chainOf[m] # Near /\ Home(world.chainOf[m]) \in Configured
       /\ "yes" \in world.chain[m]

(***************************************************************************)
(* verify succeeds only if the wallet, at the moment its list was read,    *)
(* had a list every method of which was approved by NEAR, for the payload  *)
(* made for it, and by the chain NEAR named: no order of the concurrent    *)
(* checks and no length of the proof skips one of them.                    *)
(***************************************************************************)
VerifiedByAll ==
  status = "ok" =>
    /\ accessList \in world.lists /\ proof = accessList
    /\ \A i \in DOMAIN accessList : Approved(accessList[i])

(***************************************************************************)
(* A proof that NEAR and the chains approve throughout is never turned     *)
(* down: every supported chain id is routed to the verifier that speaks    *)
(* its chain's protocol, arguments that NEAR's contract wrote for that     *)
(* chain are taken as such, and no check depends on another.  Excepted are *)
(* Stellar's arguments without a type that only Stellar has: they are      *)
(* taken for EVM's.                                                        *)
(***************************************************************************)
Supported(id) ==
  /\ id \notin {Direct, Near} /\ Home(id) \in Configured \ Empty
  /\ Protocol[Home(id)] = "evm" => id \in ExtendedChainId

WrittenFor(kind, in) ==
  CASE kind = "evm" -> in.form = "list" /\ in.types \subseteq EvmTypes /\ ~in.misfit
    [] kind = "stellar" ->
         /\ in.form = "list" /\ in.types \subseteq StellarTypes
         /\ ~(in.types \subseteq EvmTypes)
    [] kind = "solana" -> in.form = "solana" /\ ~in.misfit
    [] OTHER -> in.form = kind

AlwaysApproved(m) ==
  /\ world.near[m] = {"yes"}
  /\ \/ world.chainOf[m] = Direct
     \/ /\ Supported(world.chainOf[m])
        /\ WrittenFor(Protocol[Home(world.chainOf[m])], world.input[m])
        /\ world.chain[m] = {"yes"}

Deserved ==
  /\ world.reading = {} /\ world.lists = {proof}
  /\ \A i \in DOMAIN proof : AlwaysApproved(proof[i])

RejectedForCause == status \in {"err", "panic"} => ~Deserved

(***************************************************************************)
(* A refusal is an error the caller sees.  What panics instead is a server *)
(* of NEAR whose answer cannot be cut for the error, or a check that NEAR  *)
(* approved: on a chain that has no servers or that ExtendedChainId does   *)
(* not list, with EVM or Solana arguments that do not fit, or on such an   *)
(* answer of a server that http_client asks.                               *)
(***************************************************************************)
ChainHasNoName(id) == Home(id) \in (Configured \ ExtendedChainId) \cup Empty

DoesNotFit(in) == Kind(in) \in {"evm", "solana"} /\ in.misfit

ChainServerPanics(m) ==
  "panics" \in world.chain[m] /\ world.chainOf[m] \notin {Stellar, Solana}

CheckMayPanic(m) ==
  \/ "panics" \in world.near[m]
  \/ /\ "yes" \in world.near[m] /\ world.chainOf[m] # Direct
     /\ \/ ChainHasNoName(world.chainOf[m])
        \/ DoesNotFit(world.input[m])
        \/ ChainServerPanics(m)

PanicsForCause ==
  status = "panic" =>
    \/ "panics" \in world.reading
    \/ \E i \in DOMAIN accessList : CheckMayPanic(accessList[i])

(***************************************************************************)
(* Every call ends.                                                        *)
(***************************************************************************)
Termination == <>(~Unread /\ ~Verifying)
=============================================================================
