-------------------------- MODULE EvmVerifierProofs --------------------------
(***************************************************************************)
(* Theorems about EvmVerifier, for any number of servers, any threshold,   *)
(* any chain and any minority of faulty servers below the threshold.       *)
(***************************************************************************)
EXTENDS EvmVerifier, FiniteSetTheorems, TLAPS

(***************************************************************************)
(* The inductive invariant.  A correct server is only asked about blocks   *)
(* it will never replace: `latest` of a chain that cannot reorganise, a    *)
(* block below its irreversible head, or a wrapped number nobody has.      *)
(***************************************************************************)
CallsAreFinal ==
  \A s \in Correct : stage[s] = "calling" =>
    \/ block[s] = Latest /\ chain \in Deterministic
    \/ block[s] < base[s]
    \/ block[s] > MaxBlocks /\ block[s] < Latest

DoneMeansAnswered == \A s \in Server : stage[s] = "done" <=> answers[s] # "none"

WaitingIsLatest == \A s \in Server : stage[s] \in {"waiting", "numbering"} => block[s] = Latest

Undecided ==
  verdict \in {"none", "err"} => \A v \in Said : Cardinality(Voters(v)) < Threshold

ErrorsComeLast == verdict = "err" => \A s \in Server : answers[s] # "none"

IInv ==
  /\ TypeOK /\ CallsAreFinal /\ AnswersAreFinal /\ DoneMeansAnswered
  /\ WaitingIsLatest /\ VerdictIsFinal /\ Undecided /\ ErrorsComeLast

-----------------------------------------------------------------------------

LEMMA ChainFacts ==
  /\ Reorganising \cap Deterministic = {}
  /\ \A c \in Chains : /\ Depth[c] \in Nat /\ Depth[c] <= BLOCK_DELAY
                       /\ c \notin Reorganising => Depth[c] = 0
<1>1. Reorganising \cap Deterministic = {}
  BY DEF Reorganising, Deterministic
<1>2. ASSUME NEW c \in Chains
      PROVE  /\ Depth[c] \in Nat /\ Depth[c] <= BLOCK_DELAY
             /\ c \notin Reorganising => Depth[c] = 0
  <2>1. Depth[c] \in Nat /\ Depth[c] <= IF c \in Reorganising THEN BLOCK_DELAY ELSE 0
    BY DepthAssumption
  <2>2. CASE c \in Reorganising
    BY <2>1, <2>2
  <2>3. CASE c \notin Reorganising
    BY <2>1, <2>3 DEF BLOCK_DELAY
  <2> QED
    BY <2>2, <2>3
<1> QED
  BY <1>1, <1>2

(***************************************************************************)
(* A set of servers that is at least `threshold` large has a correct one.  *)
(***************************************************************************)
LEMMA ThresholdHasCorrect ==
  ASSUME NEW S \in SUBSET Server, Cardinality(S) >= Threshold
  PROVE  \E s \in S : s \in Correct
<1>1. IsFiniteSet(Faulty) /\ Cardinality(Faulty) \in Nat
  BY ServerAssumption, FS_Subset, FS_CardinalityType
<1>2. CASE S \subseteq Faulty
  <2>1. Cardinality(S) <= Cardinality(Faulty) /\ Cardinality(S) \in Nat
    BY <1>1, <1>2, FS_Subset, FS_CardinalityType
  <2> QED
    BY <1>1, <2>1, FaultyAssumption, ThresholdAssumption
<1> QED
  BY <1>2 DEF Correct

LEMMA VotersCount ==
  ASSUME NEW v
  PROVE  IsFiniteSet(Voters(v)) /\ Cardinality(Voters(v)) \in Nat
  BY ServerAssumption, FS_Subset, FS_CardinalityType DEF Voters

(***************************************************************************)
(* An answer adds one to the voters of what was said and to no others.     *)
(***************************************************************************)
LEMMA CountingVotes ==
  ASSUME TypeOK, NEW s \in Server, answers[s] = "none", NEW answer \in Said \cup {"fails"},
         answers' = [answers EXCEPT ![s] = answer], NEW v \in Said
  PROVE  /\ v = answer => /\ Voters(v)' = Voters(v) \cup {s}
                          /\ Cardinality(Voters(v)') = Cardinality(Voters(v)) + 1
         /\ v # answer => Voters(v)' = Voters(v)
<1>1. v # "none"
  BY DEF Said
<1>2. v = answer => Voters(v)' = Voters(v) \cup {s}
  BY DEF Voters, TypeOK
<1>3. s \notin Voters(v)
  BY <1>1 DEF Voters
<1>4. Cardinality(Voters(v) \cup {s}) = Cardinality(Voters(v)) + 1
  BY <1>3, VotersCount, FS_AddElement
<1>5. v # answer => Voters(v)' = Voters(v)
  BY <1>1 DEF Voters, TypeOK
<1> QED
  BY <1>2, <1>4, <1>5

(***************************************************************************)
(* What a correct server may say is what an irreversible block says.       *)
(***************************************************************************)
LEMMA RepliesAreFinal ==
  ASSUME TypeOK, CallsAreFinal, NEW s \in Correct, stage[s] = "calling", NEW v \in Replies(s)
  PROVE  \E n \in 1 .. base[s] : v = blocks[n]
<1>1. /\ s \in Server /\ s \notin Faulty /\ chain \in Chains
      /\ base[s] \in 1 .. MaxBlocks /\ block[s] \in 0 .. WordSize
      /\ MaxBlocks \in Nat /\ WordSize \in Nat /\ MaxBlocks + BLOCK_DELAY < WordSize
  BY BoundsAssumption DEF Correct, TypeOK
<1>2. Depth[chain] \in Nat /\ Depth[chain] <= 1
  BY <1>1, ChainFacts DEF BLOCK_DELAY
<1>3. CASE block[s] = Latest /\ chain \in Deterministic
  <2>1. Depth[chain] = 0
    BY <1>1, <1>3, ChainFacts
  <2>2. PICK n \in base[s] - 1 .. base[s] - 1 : v \in SaidAt(s, n)
    BY <1>1, <1>3, <2>1 DEF Replies, Heads
  <2>3. n = base[s] - 1 /\ n + 1 \in 1 .. base[s] /\ n < base[s]
    BY <1>1
  <2> QED
    BY <2>2, <2>3 DEF SaidAt
<1>4. CASE block[s] < base[s]
  <2>1. block[s] # Latest /\ block[s] + 1 \in 1 .. base[s]
    BY <1>1, <1>4 DEF Latest, BLOCK_DELAY
  <2> QED
    BY <1>1, <1>4, <2>1 DEF Replies, SaidAt
<1>5. CASE block[s] > MaxBlocks /\ block[s] < Latest
  <2>1. block[s] # Latest
    BY <1>1, <1>5 DEF Latest
  <2>2. ~(block[s] < base[s]) /\ ~(block[s] < base[s] + Depth[chain])
    BY <1>1, <1>2, <1>5
  <2> QED
    BY <1>1, <2>1, <2>2 DEF Replies, SaidAt
<1> QED
  BY <1>3, <1>4, <1>5 DEF CallsAreFinal

-----------------------------------------------------------------------------

LEMMA InitIInv == Init => IInv
<1> SUFFICES ASSUME Init
             PROVE  IInv
  OBVIOUS
<1>1. TypeOK
  <2>1. PICK v \in Said : blocks = <<v>>
    BY DEF Init
  <2>2. Len(blocks) = 1 /\ blocks \in Seq(Said)
    BY <2>1
  <2> QED
    BY <2>2, BoundsAssumption DEF Init, TypeOK, Latest
<1>2. \A v \in Said : Voters(v) = {}
  BY DEF Init, Voters, Said
<1>3. Undecided
  BY <1>2, FS_EmptySet, ThresholdAssumption DEF Undecided
<1> QED
  BY <1>1, <1>3
     DEF Init, IInv, CallsAreFinal, AnswersAreFinal, Correct, Said, DoneMeansAnswered,
         VerdictIsFinal, ErrorsComeLast, WaitingIsLatest

(***************************************************************************)
(* The chain moves: what was irreversible stays what it is.                *)
(***************************************************************************)
LEMMA WorldStep ==
  ASSUME IInv, World
  PROVE  IInv'
<1>1. /\ UNCHANGED <<chain, stage, block, answers, verdict>>
      /\ Running
  BY DEF World, Grow, CatchUp
<1>2. /\ blocks' \in Seq(Said) /\ Len(blocks') \in 1 .. MaxBlocks /\ Len(blocks) <= Len(blocks')
      /\ \A n \in 1 .. Len(blocks) : blocks'[n] = blocks[n]
  <2>1. /\ blocks \in Seq(Said) /\ Len(blocks) \in 1 .. MaxBlocks /\ MaxBlocks \in Nat
    BY BoundsAssumption DEF IInv, TypeOK
  <2>2. CASE \E v \in Said : Grow(v)
    <3>1. PICK v \in Said : blocks' = Append(blocks, v) /\ Len(blocks) < MaxBlocks
      BY <2>2 DEF Grow
    <3>2. /\ blocks' \in Seq(Said) /\ Len(blocks') = Len(blocks) + 1
          /\ \A n \in 1 .. Len(blocks) : blocks'[n] = blocks[n]
      BY <2>1, <3>1
    <3> QED
      BY <2>1, <3>1, <3>2
  <2>3. CASE blocks' = blocks
    BY <2>1, <2>3
  <2> QED
    BY <2>2, <2>3 DEF World, CatchUp
<1>3. \A s \in Server : /\ base'[s] \in 1 .. MaxBlocks
                        /\ base[s] <= base'[s] /\ base'[s] <= Len(blocks')
  <2>1. CASE \E v \in Said : Grow(v)
    BY <2>1, <1>2 DEF IInv, TypeOK, Grow
  <2>2. CASE \E s \in Server, n \in 1 .. MaxBlocks : CatchUp(s, n)
    BY <2>2, <1>2 DEF IInv, TypeOK, CatchUp
  <2> QED
    BY <2>1, <2>2 DEF World
<1>4. base' \in [Server -> 1 .. MaxBlocks]
  BY <1>3 DEF IInv, TypeOK, World, Grow, CatchUp
<1>5. TypeOK'
  BY <1>1, <1>2, <1>3, <1>4 DEF IInv, TypeOK
<1>6. \A s \in Server : base[s] \in 1 .. MaxBlocks /\ base[s] <= Len(blocks)
                        /\ block[s] \in 0 .. WordSize
  BY DEF IInv, TypeOK
<1>7. CallsAreFinal'
  BY <1>1, <1>3, <1>6, BoundsAssumption DEF IInv, CallsAreFinal, Correct
<1>8. AnswersAreFinal'
  <2> SUFFICES ASSUME NEW s \in Correct, answers[s] \in Said
               PROVE  \E n \in 1 .. base'[s] : answers[s] = blocks'[n]
    BY <1>1 DEF AnswersAreFinal
  <2>1. PICK n \in 1 .. base[s] : answers[s] = blocks[n]
    BY DEF IInv, AnswersAreFinal
  <2>2. s \in Server
    BY DEF Correct
  <2>3. n \in 1 .. base'[s] /\ blocks'[n] = blocks[n]
    BY <1>2, <1>3, <1>6, <2>2
  <2> QED
    BY <2>1, <2>3
<1>9. Undecided' /\ DoneMeansAnswered' /\ WaitingIsLatest' /\ ErrorsComeLast' /\ VerdictIsFinal'
  BY <1>1 DEF IInv, Undecided, Voters, WaitingIsLatest, DoneMeansAnswered, ErrorsComeLast, VerdictIsFinal, Running, Said
<1> QED
  BY <1>5, <1>7, <1>8, <1>9 DEF IInv

(***************************************************************************)
(* A server is asked: the number it gives leads to an irreversible block.  *)
(***************************************************************************)
LEMMA AskStep ==
  ASSUME IInv, NEW s \in Server,
         Begin(s) \/ \E n \in 0 .. MaxBlocks + BLOCK_DELAY : BlockNumbered(s, n)
  PROVE  IInv'
<1> USE DEF IInv
<1>1. CASE Begin(s)
  <2>1. stage'[s] \in {"numbering", "calling"} /\ stage[s] = "waiting"
    BY <1>1 DEF Begin, TypeOK
  <2>2. TypeOK'
    BY <1>1, <2>1 DEF Begin, TypeOK
  <2>3. CallsAreFinal'
    <3>1. block[s] = Latest
      BY <1>1 DEF Begin, WaitingIsLatest
    <3> QED
      BY <1>1, <3>1 DEF Begin, CallsAreFinal, TypeOK
  <2>4. DoneMeansAnswered'
    BY <1>1, <2>1 DEF Begin, DoneMeansAnswered, TypeOK
  <2>5. WaitingIsLatest'
    BY <1>1 DEF Begin, WaitingIsLatest, TypeOK
  <2> QED
    BY <1>1, <2>2, <2>3, <2>4, <2>5
       DEF Begin, AnswersAreFinal, VerdictIsFinal, Undecided, Voters, ErrorsComeLast
<1>2. ASSUME NEW n \in 0 .. MaxBlocks + BLOCK_DELAY, BlockNumbered(s, n)
      PROVE  IInv'
  <2>0. /\ MaxBlocks \in Nat /\ WordSize \in Nat /\ WordSize > MaxBlocks + 1 /\ BLOCK_DELAY = 1
        /\ base[s] \in 1 .. MaxBlocks
    BY BoundsAssumption DEF BLOCK_DELAY, TypeOK
  <2>1. SaferBlock(n) \in 0 .. WordSize
    BY <2>0 DEF SaferBlock, Underflows
  <2>2. TypeOK'
    BY <1>2, <2>1 DEF BlockNumbered, TypeOK
  <2>3. s \in Correct => SaferBlock(n) < base[s] \/ (SaferBlock(n) > MaxBlocks /\ SaferBlock(n) < Latest)
    <3> SUFFICES ASSUME s \in Correct
                 PROVE  SaferBlock(n) < base[s] \/ (SaferBlock(n) > MaxBlocks /\ SaferBlock(n) < Latest)
      OBVIOUS
    <3>1. Depth[chain] \in Nat /\ Depth[chain] <= 1
      BY ChainFacts DEF TypeOK, BLOCK_DELAY
    <3>2. n <= base[s] - 1 + Depth[chain]
      BY <1>2, <2>0, <3>1 DEF BlockNumbered, Heads, Correct
    <3> QED
      BY <2>0, <3>1, <3>2 DEF SaferBlock, Underflows, Latest
  <2>4. CallsAreFinal'
    BY <1>2, <2>3 DEF BlockNumbered, CallsAreFinal, TypeOK
  <2>5. DoneMeansAnswered' /\ WaitingIsLatest'
    BY <1>2 DEF BlockNumbered, DoneMeansAnswered, WaitingIsLatest, TypeOK
  <2>6. Undecided' /\ VerdictIsFinal' /\ ErrorsComeLast'
    BY <1>2 DEF BlockNumbered, Running, Undecided, Voters, VerdictIsFinal, ErrorsComeLast, Said
  <2> QED
    BY <1>2, <2>2, <2>4, <2>5, <2>6 DEF BlockNumbered, AnswersAreFinal
<1> QED
  BY <1>1, <1>2

(***************************************************************************)
(* An answer or an error is counted and may decide the call.               *)
(***************************************************************************)
LEMMA SettleStep ==
  ASSUME IInv, Running, NEW s \in Open, NEW answer \in Said \cup {"fails"}, Settle(s, answer),
         s \in Correct /\ answer \in Said => \E n \in 1 .. base[s] : answer = blocks[n]
  PROVE  IInv'
<1> USE DEF IInv
<1>1. s \in Server /\ answers[s] = "none" /\ answer # "none"
  BY DEF Open, DoneMeansAnswered, Said
<1>2. /\ answers' = [answers EXCEPT ![s] = answer]
      /\ UNCHANGED <<chain, blocks, base>>
  BY DEF Settle
<1>3. TypeOK'
  <2>1. verdict' \in Said \cup {"none", "err", "panic"}
    BY DEF Settle, NoConsensus
  <2> QED
    BY <1>1, <1>2, <2>1, BoundsAssumption DEF Settle, TypeOK, Latest
<1>4. CallsAreFinal' /\ WaitingIsLatest'
  BY <1>1, <1>2 DEF Settle, CallsAreFinal, WaitingIsLatest, TypeOK
<1>5. DoneMeansAnswered'
  BY <1>1, <1>2 DEF Settle, DoneMeansAnswered, TypeOK
<1>6. AnswersAreFinal'
  BY <1>1, <1>2 DEF AnswersAreFinal, TypeOK, Correct
<1>7. ErrorsComeLast'
  BY <1>1, <1>2 DEF Settle, ErrorsComeLast, AllAnswered, NoConsensus, Said
<1>8. VerdictIsFinal'
  <2> SUFFICES ASSUME verdict' \in Said
               PROVE  \E n \in 1 .. Len(blocks) : verdict' = blocks[n]
    BY <1>2 DEF VerdictIsFinal
  <2>1. verdict' = answer /\ answer \in Said /\ Reached(answer)
    BY DEF Settle, NoConsensus, Said
  <2>2. Cardinality(Voters(answer)') = Cardinality(Voters(answer)) + 1
    BY <1>1, <1>2, <2>1, CountingVotes
  <2>3. Voters(answer)' \in SUBSET Server /\ Cardinality(Voters(answer)') >= Threshold
    BY <2>1, <2>2 DEF Reached, Voters
  <2>4. PICK t \in Voters(answer)' : t \in Correct
    BY <2>3, ThresholdHasCorrect
  <2>5. answers'[t] = answer /\ t \in Server
    BY <2>4 DEF Voters, Correct
  <2>6. PICK n \in 1 .. base[t] : answer = blocks[n]
    BY <1>2, <1>6, <2>1, <2>4, <2>5 DEF AnswersAreFinal
  <2>7. n \in 1 .. Len(blocks)
    BY <2>5 DEF TypeOK
  <2> QED
    BY <2>1, <2>6, <2>7
<1>9. Undecided'
  <2> SUFFICES ASSUME verdict' \in {"none", "err"}, NEW v \in Said
               PROVE  Cardinality(Voters(v)') < Threshold
    BY DEF Undecided
  <2>1. Cardinality(Voters(v)) < Threshold /\ Cardinality(Voters(v)) \in Nat
    BY VotersCount DEF Undecided, Running
  <2>2. CASE v = answer
    <3>1. ~Reached(v)
      BY <2>2 DEF Settle, Said
    <3>2. Cardinality(Voters(v)') = Cardinality(Voters(v)) + 1
      BY <1>1, <1>2, <2>2, CountingVotes
    <3> QED
      BY <2>1, <3>1, <3>2, ThresholdAssumption DEF Reached
  <2>3. CASE v # answer
    BY <1>1, <1>2, <2>1, <2>3, CountingVotes
  <2> QED
    BY <2>2, <2>3
<1> QED
  BY <1>3, <1>4, <1>5, <1>6, <1>7, <1>8, <1>9

LEMMA NextIInv == IInv /\ [Next]_vars => IInv'
<1> SUFFICES ASSUME IInv, [Next]_vars
             PROVE  IInv'
  OBVIOUS
<1>1. ASSUME NEW s \in Server, NEW v \in Said, EthCall(s, v)
      PROVE  IInv'
  <2>1. s \in Open /\ Running /\ Settle(s, v)
    BY <1>1 DEF EthCall, Open
  <2>2. s \in Correct => \E n \in 1 .. base[s] : v = blocks[n]
    BY <1>1, RepliesAreFinal DEF EthCall, IInv
  <2> QED
    BY <2>1, <2>2, SettleStep
<1>2. ASSUME NEW s \in Server, Fails(s)
      PROVE  IInv'
  <2>1. "fails" \notin Said
    BY DEF Said
  <2> QED
    BY <1>2, <2>1, SettleStep DEF Fails
<1>3. ASSUME verdict' \in {"dropped", "panic"},
             UNCHANGED <<chain, blocks, base, stage, block, answers>>
      PROVE  IInv'
  BY <1>3 DEF IInv, TypeOK, CallsAreFinal, AnswersAreFinal, DoneMeansAnswered,
              WaitingIsLatest, VerdictIsFinal, Undecided, ErrorsComeLast, Said
<1>4. CASE UNCHANGED vars
  BY <1>4 DEF vars, IInv, TypeOK, CallsAreFinal, AnswersAreFinal, DoneMeansAnswered,
              WaitingIsLatest, VerdictIsFinal, Undecided, Voters, ErrorsComeLast
<1> QED
  BY <1>1, <1>2, <1>3, <1>4, WorldStep, AskStep DEF Next, Progress, SnipPanics, Drop, Ended

-----------------------------------------------------------------------------

(***************************************************************************)
(* The invariant holds in every reachable state.                           *)
(***************************************************************************)
THEOREM InductiveInvariant == Spec => []IInv
  BY InitIInv, NextIInv, PTL DEF Spec

(***************************************************************************)
(* The variables of a call keep their types; in particular block numbers   *)
(* stay within a u64 below the first block.                                *)
(***************************************************************************)
THEOREM TypeCorrect == Spec => []TypeOK
<1>1. IInv => TypeOK
  BY DEF IInv
<1> QED
  BY <1>1, InductiveInvariant, PTL

(***************************************************************************)
(* get_block: the delay of one block is enough for a server whose chain    *)
(* replaces at most its newest block, however it moves between the calls.  *)
(***************************************************************************)
THEOREM FinalAnswers == Spec => []AnswersAreFinal
<1>1. IInv => AnswersAreFinal
  BY DEF IInv
<1> QED
  BY <1>1, InductiveInvariant, PTL

(***************************************************************************)
(* Fewer than `threshold` faulty servers cannot make the call return what  *)
(* the contract never said.                                                *)
(***************************************************************************)
THEOREM FinalVerdict == Spec => []VerdictIsFinal
<1>1. IInv => VerdictIsFinal
  BY DEF IInv
<1> QED
  BY <1>1, InductiveInvariant, PTL

(***************************************************************************)
(* Without consensus on a contract that keeps its mind, more servers than  *)
(* the call can spare failed or lied.                                      *)
(***************************************************************************)
THEOREM NoConsensusIsEarned == Spec => []NoConsensusForCause
<1>1. IInv => NoConsensusForCause
  <2> SUFFICES ASSUME IInv, verdict = "err", SteadyContract
               PROVE  Cardinality({s \in Server : s \in Faulty \/ answers[s] = "fails"})
                        > Cardinality(Server) - Threshold
    BY DEF NoConsensusForCause
  <2> DEFINE Good == {s \in Correct : answers[s] \in Said}
             v == blocks[1]
  <2>1. v \in Said /\ Len(blocks) \in Nat /\ Len(blocks) >= 1
    BY BoundsAssumption DEF IInv, TypeOK
  <2>2. ASSUME NEW s \in Good
        PROVE  s \in Voters(v)
    <3>1. s \in Server /\ base[s] \in 1 .. MaxBlocks /\ base[s] <= Len(blocks)
      BY DEF IInv, TypeOK, Correct
    <3>2. PICK n \in 1 .. base[s] : answers[s] = blocks[n]
      BY DEF IInv, AnswersAreFinal
    <3>3. n \in 1 .. Len(blocks)
      BY <2>1, <3>1, BoundsAssumption
    <3> QED
      BY <3>1, <3>2, <3>3 DEF SteadyContract, Voters
  <2>3. Cardinality(Voters(v)) < Threshold
    BY <2>1 DEF IInv, Undecided
  <2>4. IsFiniteSet(Voters(v)) /\ Cardinality(Voters(v)) \in Nat
    BY VotersCount
  <2>5. IsFiniteSet(Good) /\ Cardinality(Good) <= Cardinality(Voters(v)) /\ Cardinality(Good) \in Nat
    <3>1. Good \in SUBSET Voters(v)
      BY <2>2
    <3> HIDE DEF Good, v
    <3> QED
      BY <2>4, <3>1, FS_Subset, FS_CardinalityType
  <2>6. {s \in Server : s \in Faulty \/ answers[s] = "fails"} = Server \ Good
    BY DEF IInv, ErrorsComeLast, TypeOK, Correct, Said
  <2>7. Server \cap Good = Good
    BY DEF Correct
  <2>8. Cardinality(Server \ Good) = Cardinality(Server) - Cardinality(Good)
    <3> HIDE DEF Good
    <3> QED
      BY <2>7, ServerAssumption, FS_Difference
  <2>9. Cardinality(Server) \in Nat
    BY ServerAssumption, FS_CardinalityType
  <2> HIDE DEF Good, v
  <2> QED
    BY <2>3, <2>4, <2>5, <2>6, <2>8, <2>9, ThresholdAssumption
<1> QED
  BY <1>1, InductiveInvariant, PTL

(***************************************************************************)
(* A panic has one of three causes: a chain without a name of its own all  *)
(* of whose servers failed, a text that cannot be cut, or a first block.   *)
(***************************************************************************)
THEOREM PanicsExplained == Spec => PanicsForCause
<1> DEFINE Cause == ChainHasNoName \/ AwaitsText \/ AwaitsGenesis
<1>1. ASSUME IInv, [Next]_vars, verdict' = "panic", Running
      PROVE  Cause
  <2>1. verdict' # verdict
    BY <1>1 DEF Running
  <2>2. ASSUME NEW s \in Server, NEW n \in 0 .. MaxBlocks + BLOCK_DELAY, BlockNumbered(s, n)
        PROVE  Cause
    <3>1. /\ s \in Open /\ stage[s] = "numbering" /\ chain \in Reorganising
          /\ n < BLOCK_DELAY /\ n \in Heads(s)
      BY <1>1, <2>1, <2>2 DEF BlockNumbered, Open, Underflows, Running
    <3>2. CASE s \notin Faulty
      <4>1. Depth[chain] \in Nat /\ base[s] \in 1 .. MaxBlocks
        BY <1>1, ChainFacts DEF IInv, TypeOK
      <4>2. base[s] = BLOCK_DELAY
        BY <3>1, <3>2, <4>1, BoundsAssumption DEF Heads, BLOCK_DELAY
      <4> QED
        BY <3>1, <4>2 DEF AwaitsGenesis
    <3>3. CASE s \in Faulty
      BY <3>1, <3>3 DEF AwaitsText, ExtendedChainId
    <3> QED
      BY <3>2, <3>3
  <2>3. ASSUME NEW s \in Server, NEW answer, Settle(s, answer)
        PROVE  Cause
    BY <1>1, <2>1, <2>3 DEF Settle, NoConsensus, Said, ChainHasNoName
  <2>4. ASSUME NEW s \in Server, SnipPanics(s)
        PROVE  Cause
    BY <2>4 DEF SnipPanics, AwaitsText
  <2> QED
    BY <1>1, <2>1, <2>2, <2>3, <2>4
       DEF Next, World, Grow, CatchUp, Progress, Begin, EthCall, Fails, Drop, Ended, vars
<1>2. IInv /\ [Next]_vars => [verdict' = "panic" /\ Running => Cause]_vars
  BY <1>1
<1> QED
  BY <1>2, InductiveInvariant, PTL DEF Spec, PanicsForCause
=============================================================================
