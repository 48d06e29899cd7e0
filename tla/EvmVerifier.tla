----------------------------- MODULE EvmVerifier -----------------------------
(***************************************************************************)
(* ThresholdVerifier<EvmVerifier>::verify on a chain that keeps growing    *)
(* and may replace its newest blocks.  Each server is asked twice: for the *)
(* number of its newest block, then to run the contract at the block       *)
(* BLOCK_DELAY below it.  The server moves on between the two questions.   *)
(*                                                                         *)
(* A node's chain is a prefix it will never replace, followed by at most   *)
(* Depth[chain] blocks that it still may.  The prefixes of correct servers *)
(* agree and only grow; the replaceable blocks may hold anything.  A URL   *)
(* that spreads requests over nodes with different prefixes is not correct *)
(* in this sense and belongs to Faulty.                                    *)
(*                                                                         *)
(* A server's panic ends the whole call.  The arguments are taken to have  *)
(* been converted: a bytes32 of another length panics before any request   *)
(* is sent (ConversionPanics of module Validation).                        *)
(***************************************************************************)
EXTENDS ChainIds, Sequences, FiniteSets

CONSTANTS
  Server,          \* the verifiers of the chain, one per URL
  Threshold,       \* how many of them must agree
  Faulty,          \* servers that may answer anything
  Wide,            \* servers whose errors may be cut inside a character
  Chains,          \* the chain ids verifiers are built for
  Depth,           \* per chain, how many blocks nodes may still replace
  WordSize,        \* 2^64, block numbers are u64
  MaxBlocks        \* bound on the length of the irreversible chain

VARIABLES
  chain,    \* the verifier's chain_id
  blocks,   \* what the contract says at each irreversible block, from block 0
  base,     \* per server, how many irreversible blocks it has
  stage,    \* per server: "waiting", "numbering", "calling" or "done"
  block,    \* per server, the BlockSpecifier of its open eth_call
  answers,  \* per server
  verdict   \* of the call

vars == <<chain, blocks, base, stage, block, answers, verdict>>

BLOCK_DELAY == 1

Latest == WordSize  \* the one BlockSpecifier that is not a u64
Said == {"yes", "no"}
Correct == Server \ Faulty

ASSUME ServerAssumption == IsFiniteSet(Server) /\ Faulty \cup Wide \subseteq Server
ASSUME ThresholdAssumption == Threshold \in Nat \ {0} /\ Threshold <= Cardinality(Server)
ASSUME FaultyAssumption == Cardinality(Faulty) < Threshold
ASSUME BoundsAssumption ==
  /\ MaxBlocks \in Nat \ {0}
  /\ WordSize \in Nat /\ WordSize > MaxBlocks + BLOCK_DELAY

(***************************************************************************)
(* can_reorg's classification, and the comment on BLOCK_DELAY: reverts     *)
(* reach no further than the newest block.                                 *)
(***************************************************************************)
ASSUME DepthAssumption ==
  /\ Chains \subseteq ChainId
  /\ Depth \in [Chains -> Nat]
  /\ \A c \in Chains : Depth[c] <= IF c \in Reorganising THEN BLOCK_DELAY ELSE 0

-----------------------------------------------------------------------------
(* Faulty variants of the definitions below, for the mutation checks.      *)

NoDelay(n) == n
MoreThanThreshold(v) == Cardinality({s \in Server : answers[s] = v}) >= Threshold
OneShort(v) == Cardinality({s \in Server : answers[s] = v}) + 2 >= Threshold
OnlyReorganisingNamed == IF chain \in Reorganising THEN "err" ELSE "panic"

-----------------------------------------------------------------------------

Running == verdict = "none"
Open == {s \in Server : stage[s] \in {"numbering", "calling"}}

Init ==
  /\ chain \in Chains
  /\ blocks \in {<<v>> : v \in Said}
  /\ base = [s \in Server |-> 1]
  /\ stage = [s \in Server |-> "waiting"]
  /\ block = [s \in Server |-> Latest]
  /\ answers = [s \in Server |-> "none"]
  /\ verdict = "none"

(***************************************************************************)
(* While the call runs, the chain adds an irreversible block, possibly     *)
(* changing the contract's mind; a server catches up.                      *)
(***************************************************************************)
Grow(v) ==
  /\ Len(blocks) < MaxBlocks
  /\ blocks' = Append(blocks, v)
  /\ UNCHANGED <<chain, base, stage, block, answers, verdict>>

CatchUp(s, n) ==
  /\ n > base[s] /\ n <= Len(blocks)
  /\ base' = [base EXCEPT ![s] = n]
  /\ UNCHANGED <<chain, blocks, stage, block, answers, verdict>>

(***************************************************************************)
(* One of the `threshold` places for open requests is taken.  On a chain   *)
(* that cannot reorganise get_block returns `latest` without asking.       *)
(***************************************************************************)
Begin(s) ==
  /\ Running
  /\ stage[s] = "waiting"
  /\ Cardinality(Open) < Threshold
  /\ stage' = [stage EXCEPT ![s] = IF chain \in Deterministic THEN "calling" ELSE "numbering"]
  /\ UNCHANGED <<chain, blocks, base, block, answers, verdict>>

(***************************************************************************)
(* The numbers s may give its newest block.                                *)
(***************************************************************************)
Heads(s) ==
  IF s \in Faulty THEN 0 .. MaxBlocks ELSE base[s] - 1 .. base[s] - 1 + Depth[chain]

(***************************************************************************)
(* block_number - BLOCK_DELAY in u64: below zero a debug build panics, a   *)
(* release build wraps around.                                             *)
(***************************************************************************)
Underflows(n) == n < BLOCK_DELAY
SaferBlock(n) == IF Underflows(n) THEN n + WordSize - BLOCK_DELAY ELSE n - BLOCK_DELAY

BlockNumbered(s, n) ==
  /\ Running
  /\ stage[s] = "numbering"
  /\ chain \in Reorganising
  /\ n \in Heads(s)
  /\ stage' = [stage EXCEPT ![s] = "calling"]
  /\ block' = [block EXCEPT ![s] = SaferBlock(n)]
  /\ verdict' = "none" \/ (verdict' = "panic" /\ Underflows(n))
  /\ UNCHANGED <<chain, blocks, base, answers>>

(***************************************************************************)
(* What a correct server may say of the contract at block n, at its newest *)
(* block: what it will say forever if the block is irreversible, anything  *)
(* if it is not.  Of a block it does not have it says nothing.             *)
(***************************************************************************)
SaidAt(s, n) ==
  IF n < base[s] THEN {blocks[n + 1]} ELSE {v \in Said : n < base[s] + Depth[chain]}

Replies(s) ==
  CASE s \in Faulty -> Said
    [] block[s] = Latest -> UNION {SaidAt(s, n) : n \in Heads(s)}
    [] OTHER -> SaidAt(s, block[s])

-----------------------------------------------------------------------------

Voters(v) == {s \in Server : answers[s] = v}
Reached(v) == Cardinality(Voters(v)) + 1 >= Threshold
AllAnswered(a) == \A s \in Server : a[s] # "none"

(***************************************************************************)
(* Without consensus the error names the chain: chain_id() panics on a     *)
(* chain ExtendedChainId does not list.                                    *)
(***************************************************************************)
NoConsensus == IF chain \in ExtendedChainId THEN "err" ELSE "panic"

Settle(s, answer) ==
  /\ stage' = [stage EXCEPT ![s] = "done"]
  /\ block' = [block EXCEPT ![s] = Latest]
  /\ answers' = [answers EXCEPT ![s] = answer]
  /\ verdict' = IF answer \in Said /\ Reached(answer) THEN answer
                ELSE IF AllAnswered(answers') THEN NoConsensus
                ELSE "none"
  /\ UNCHANGED <<chain, blocks, base>>

EthCall(s, v) ==
  /\ Running
  /\ stage[s] = "calling"
  /\ v \in Replies(s)
  /\ Settle(s, v)

(***************************************************************************)
(* Either request errs, times out or is answered with something that is    *)
(* not understood, and the error is built; on a chain that is not listed   *)
(* get_block fails before it asks.                                         *)
(***************************************************************************)
Fails(s) ==
  /\ Running
  /\ s \in Open
  /\ Settle(s, "fails")

(***************************************************************************)
(* The same, but what a server that was asked sent is long and has a       *)
(* character across one of the cuts of snip_bytes (module HttpClient):     *)
(* building the error panics, and the call ends with this verifier.        *)
(***************************************************************************)
SnipPanics(s) ==
  /\ Running
  /\ s \in Open /\ s \in Wide \cup Faulty
  /\ chain \in ExtendedChainId
  /\ verdict' = "panic"
  /\ UNCHANGED <<chain, blocks, base, stage, block, answers>>

Drop ==
  /\ Running
  /\ verdict' = "dropped"
  /\ UNCHANGED <<chain, blocks, base, stage, block, answers>>

Ended == ~Running /\ UNCHANGED vars

Progress(s) ==
  \/ Begin(s)
  \/ \E n \in 0 .. MaxBlocks + BLOCK_DELAY : BlockNumbered(s, n)
  \/ \E v \in Said : EthCall(s, v)
  \/ Fails(s) \/ SnipPanics(s)

World ==
  /\ Running
  /\ \/ \E v \in Said : Grow(v)
     \/ \E s \in Server, n \in 1 .. MaxBlocks : CatchUp(s, n)

Next == World \/ (\E s \in Server : Progress(s)) \/ Drop \/ Ended

Spec == Init /\ [][Next]_vars

-----------------------------------------------------------------------------

(***************************************************************************)
(* Every variable holds a value of its type.                               *)
(***************************************************************************)
TypeOK ==
  /\ chain \in Chains
  /\ blocks \in Seq(Said) /\ Len(blocks) \in 1 .. MaxBlocks
  /\ base \in [Server -> 1 .. MaxBlocks] /\ \A s \in Server : base[s] <= Len(blocks)
  /\ stage \in [Server -> {"waiting", "numbering", "calling", "done"}]
  /\ block \in [Server -> 0 .. WordSize]
  /\ answers \in [Server -> Said \cup {"none", "fails"}]
  /\ verdict \in Said \cup {"none", "err", "panic", "dropped"}

(***************************************************************************)
(* get_block's purpose: what a correct server says of the contract is what *)
(* the contract said at a block that is never replaced, whatever the chain *)
(* did between the two requests.                                           *)
(***************************************************************************)
AnswersAreFinal ==
  \A s \in Correct : answers[s] \in Said => \E n \in 1 .. base[s] : answers[s] = blocks[n]

(***************************************************************************)
(* The call's answer was the contract's at some irreversible block: fewer  *)
(* than `threshold` faulty servers cannot approve for it.                  *)
(***************************************************************************)
VerdictIsFinal == verdict \in Said => \E n \in 1 .. Len(blocks) : verdict = blocks[n]

(***************************************************************************)
(* While the contract keeps its mind the call finds no consensus only if   *)
(* too many servers failed or lied to leave `threshold` correct ones.      *)
(***************************************************************************)
SteadyContract == \A n \in 1 .. Len(blocks) : blocks[n] = blocks[1]
NoConsensusForCause ==
  verdict = "err" /\ SteadyContract =>
    Cardinality({s \in Server : s \in Faulty \/ answers[s] = "fails"})
      > Cardinality(Server) - Threshold

(***************************************************************************)
(* A call panics only when its last server has failed on a chain that is   *)
(* not listed, or while a server's answer is awaited that cannot be cut,   *)
(* or that names the first block as the newest on a chain that reorganises.*)
(***************************************************************************)
ChainHasNoName == chain \notin ExtendedChainId /\ AllAnswered(answers')
AwaitsText == chain \in ExtendedChainId /\ Open \cap (Wide \cup Faulty) # {}
AwaitsGenesis ==
  chain \in Reorganising /\ \E s \in Open : stage[s] = "numbering" /\ base[s] = BLOCK_DELAY

PanicsForCause ==
  [][verdict' = "panic" /\ Running => ChainHasNoName \/ AwaitsText \/ AwaitsGenesis]_vars
=============================================================================
