------------------------- MODULE ThresholdCallProofs -------------------------
(***************************************************************************)
(* Theorems about ThresholdCall for every set of configurations, every set *)
(* of answers and every number of servers; and, from the section on        *)
(* HttpClient on, about the requests that a call's task makes: for any     *)
(* finite set of servers, any texts they may send and any LOG_SNIP_MAX.    *)
(***************************************************************************)
EXTENDS ThresholdCall, HttpClient, FiniteSetTheorems, TLAPS

(***************************************************************************)
(* The inductive invariant.  While the call runs, the votes are exactly    *)
(* the answers of the slots that left the buffer, and no answer has        *)
(* reached the threshold; the outcome records why the loop was left.       *)
(***************************************************************************)
Counted(v) == {s \in Slots \ (waiting \cup inflight) : answers[s] = v}

SlotsDisjoint == waiting \cap inflight = {} /\ waiting \cap invoked = {}

VotesAreCounted == Running => \A v \in Values : votes[v] = Counted(v)

VotesAreBacked == \A v \in Values : votes[v] \subseteq Oracle!Backing(v)

NotReachedYet ==
  Running /\ config.threshold > 0 => \A v \in Values : ~Reached(votes[v])

BufferBounded == Cardinality(inflight) <= config.threshold

AcceptedReached == status = "ok" => result \in Values /\ Reached(votes[result])

IInv ==
  /\ TypeOK
  /\ SlotsDisjoint
  /\ VotesAreCounted
  /\ VotesAreBacked
  /\ NotReachedYet
  /\ BufferBounded
  /\ AcceptedReached
  /\ RejectionIsRight
  /\ ZeroThresholdNeverDecides

-----------------------------------------------------------------------------

(***************************************************************************)
(* What a configuration is, and that its slots are finitely many.          *)
(***************************************************************************)
LEMMA SlotFacts ==
  ASSUME TypeOK
  PROVE  /\ config.threshold \in Nat
         /\ config.servers \in Seq(Url)
         /\ \A s \in Slots : config.servers[s] \in Url
         /\ IsFiniteSet(Slots)
         /\ \A S \in SUBSET Slots : IsFiniteSet(S) /\ Cardinality(S) \in Nat
<1>1. config \in ChainValidationConfig
  BY ConfigsAssumption DEF TypeOK
<1>2. config.threshold \in Nat /\ config.servers \in Seq(Url)
  BY <1>1 DEF ChainValidationConfig
<1>3. \A s \in Slots : config.servers[s] \in Url
  BY <1>2 DEF Slots, SlotsOf
<1>4. IsFiniteSet(Slots)
  BY <1>2, FS_Interval DEF Slots, SlotsOf
<1>5. \A S \in SUBSET Slots : IsFiniteSet(S) /\ Cardinality(S) \in Nat
  BY <1>4, FS_Subset, FS_CardinalityType
<1>6. QED
  BY <1>2, <1>3, <1>4, <1>5

(***************************************************************************)
(* The oracle's terms in the terms of this module.                         *)
(***************************************************************************)
LEMMA OracleTerms ==
  /\ Oracle!Slots = Slots
  /\ \A v : Oracle!Backing(v) = {s \in Slots : answers[s] = v}
  /\ \A v : Oracle!Reaches(v) <=> Cardinality(Oracle!Backing(v)) >= config.threshold
BY DEF Oracle!Slots, Oracle!SlotsOf, Oracle!Backing, Oracle!Reaches, Slots, SlotsOf,
       Cardinality, Oracle!Cardinality

(***************************************************************************)
(* No step of a call changes its configuration or what the servers would   *)
(* answer, so what the oracle says of it never changes either.             *)
(***************************************************************************)
LEMMA StableTerms ==
  ASSUME UNCHANGED <<config, answers>>
  PROVE  /\ Slots' = Slots
         /\ \A v : Oracle!Backing(v)' = Oracle!Backing(v)
         /\ \A v : Oracle!Reaches(v)' <=> Oracle!Reaches(v)
BY DEF Slots, Oracle!Slots, Oracle!Backing, Oracle!Reaches

(***************************************************************************)
(* Every step keeps the types.                                             *)
(***************************************************************************)
LEMMA TypeStep == TypeOK /\ [Next]_vars => TypeOK'
<1> SUFFICES ASSUME TypeOK, [Next]_vars
             PROVE  TypeOK'
  OBVIOUS
<1> USE DEF TypeOK, Slots
<1>1. ASSUME NEW s \in Slots, Pull(s)
      PROVE  TypeOK'
  BY <1>1 DEF Pull
<1>2. ASSUME NEW s \in Slots, Invoke(s)
      PROVE  TypeOK'
  BY <1>2 DEF Invoke
<1>3. ASSUME NEW s \in Slots, CountVote(s)
      PROVE  TypeOK'
  BY <1>3 DEF CountVote, Entry, VoteIds
<1>4. ASSUME NEW s \in Slots, ReturnVote(s)
      PROVE  TypeOK'
  BY <1>4 DEF ReturnVote, Entry, VoteIds
<1>5. ASSUME NEW s \in Slots, CountError(s)
      PROVE  TypeOK'
  <2>1. config.servers[s] \in Url
    BY SlotFacts
  <2>2. QED
    BY <1>5, <2>1 DEF CountError, ErrorId
<1>6. CASE NoConsensus
  BY <1>6 DEF NoConsensus
<1>7. CASE Drop
  BY <1>7 DEF Drop
<1>8. CASE UNCHANGED vars
  BY <1>8 DEF vars
<1>9. QED
  BY <1>1, <1>2, <1>3, <1>4, <1>5, <1>6, <1>7, <1>8 DEF Next, Advance, Ended

(***************************************************************************)
(* The variables of a call keep their types.                               *)
(***************************************************************************)
THEOREM TypeCorrect == Spec => []TypeOK
<1>1. Init => TypeOK
  BY DEF Init, TypeOK
<1>2. QED
  BY <1>1, TypeStep, PTL DEF Spec

-----------------------------------------------------------------------------

(***************************************************************************)
(* Adding one slot to a set of slots, or removing one, moves its           *)
(* cardinality by one.                                                     *)
(***************************************************************************)
LEMMA SlotCounting ==
  ASSUME TypeOK, NEW S \in SUBSET Slots, NEW s \in Slots
  PROVE  /\ s \notin S => Cardinality(S \cup {s}) = Cardinality(S) + 1
         /\ Cardinality(S \ {s}) <= Cardinality(S)
         /\ Cardinality({}) = 0
         /\ Cardinality(S) = 0 <=> S = {}
<1>1. IsFiniteSet(S) /\ Cardinality(S) \in Nat
  BY SlotFacts
<1>2. s \notin S => Cardinality(S \cup {s}) = Cardinality(S) + 1
  BY <1>1, FS_AddElement
<1>3. Cardinality(S \ {s}) <= Cardinality(S)
  <2>1. Cardinality(S \ {s}) = IF s \in S THEN Cardinality(S) - 1 ELSE Cardinality(S)
    BY <1>1, FS_RemoveElement
  <2>2. QED
    BY <1>1, <2>1
<1>4. Cardinality({}) = 0 /\ (Cardinality(S) = 0 <=> S = {})
  BY <1>1, FS_EmptySet
<1>5. QED
  BY <1>2, <1>3, <1>4

(***************************************************************************)
(* A verifier of the Vec only answers when the threshold is positive: with *)
(* threshold 0 the buffer has no room for anybody.                         *)
(***************************************************************************)
LEMMA BufferNeedsThreshold ==
  ASSUME TypeOK, BufferBounded, inflight # {}
  PROVE  config.threshold > 0
<1>1. Cardinality(inflight) \in Nat /\ Cardinality(inflight) # 0 /\ config.threshold \in Nat
  <2>1. IsFiniteSet(inflight)
    BY SlotFacts DEF TypeOK
  <2>2. QED
    BY <2>1, SlotFacts, FS_EmptySet DEF TypeOK
<1>2. QED
  BY <1>1 DEF BufferBounded

LEMMA InitIInv == Init => IInv
<1> SUFFICES ASSUME Init
             PROVE  IInv
  OBVIOUS
<1>1. TypeOK
  BY DEF Init, TypeOK
<1>2. config.threshold \in Nat /\ Cardinality({}) = 0
  BY <1>1, SlotFacts, FS_EmptySet
<1>3. NotReachedYet
  BY <1>2 DEF Init, NotReachedYet, Reached
<1>4. BufferBounded
  BY <1>2 DEF Init, BufferBounded
<1>5. VotesAreCounted
  BY DEF Init, VotesAreCounted, Counted
<1>6. QED
  BY <1>1, <1>3, <1>4, <1>5
     DEF Init, IInv, SlotsDisjoint, VotesAreBacked, AcceptedReached,
         RejectionIsRight, ZeroThresholdNeverDecides

(***************************************************************************)
(* A counted answer: the slot is new among the voters, so the entry is one *)
(* longer, and it is exactly the slots counted after the step.             *)
(***************************************************************************)
LEMMA VoteFacts ==
  ASSUME IInv, NEW s \in Slots, Yields(s), answers[s] \in Values
  PROVE  /\ Entry(s) = {t \in Slots \ (waiting \cup (inflight \ {s})) : answers[t] = answers[s]}
         /\ Entry(s) \subseteq Oracle!Backing(answers[s])
         /\ config.threshold > 0
<1> USE DEF IInv
<1>1. s \in inflight /\ s \notin waiting /\ Running
  BY DEF Yields, SlotsDisjoint
<1>2. votes[answers[s]] = {t \in Slots \ (waiting \cup inflight) : answers[t] = answers[s]}
  BY <1>1 DEF VotesAreCounted, Counted
<1>3. Entry(s) = {t \in Slots \ (waiting \cup (inflight \ {s})) : answers[t] = answers[s]}
  BY <1>1, <1>2 DEF Entry, VoteIds
<1>4. Entry(s) \subseteq Oracle!Backing(answers[s])
  BY <1>3, OracleTerms
<1>5. QED
  BY <1>1, <1>3, <1>4, BufferNeedsThreshold

(***************************************************************************)
(* The invariant survives every step.                                      *)
(***************************************************************************)
LEMMA NextIInv == IInv /\ [Next]_vars => IInv'
<1> SUFFICES ASSUME IInv, [Next]_vars
             PROVE  IInv'
  OBVIOUS
<1>0. TypeOK'
  BY TypeStep DEF IInv
<1>a. UNCHANGED <<config, answers>>
  BY DEF Next, Advance, Pull, Invoke, CountVote, ReturnVote, CountError, NoConsensus, Drop, Ended, vars
<1>b. /\ Slots' = Slots
      /\ \A v : Oracle!Backing(v)' = Oracle!Backing(v)
      /\ \A v : Oracle!Reaches(v)' <=> Oracle!Reaches(v)
  BY <1>a, StableTerms
<1>c. Cardinality(inflight) \in Nat /\ config.threshold \in Nat
  BY SlotFacts DEF IInv, TypeOK
<1> USE DEF IInv
<1>1. ASSUME NEW s \in Slots, Pull(s)
      PROVE  IInv'
  <2> USE <1>1 DEF Pull
  <2>1. SlotsDisjoint'
    BY DEF SlotsDisjoint, Pull
  <2>2. VotesAreCounted'
    <3>1. \A v \in Values : Counted(v)' = Counted(v)
      BY <1>a, <1>b DEF Counted
    <3>2. QED
      BY <3>1 DEF VotesAreCounted, Running
  <2>3. BufferBounded'
    <3>1. Cardinality(inflight \cup {s}) = Cardinality(inflight) + 1
      BY SlotCounting DEF SlotsDisjoint, TypeOK
    <3>2. QED
      BY <3>1, <1>c DEF BufferBounded, HasRoom
  <2>4. VotesAreBacked' /\ NotReachedYet' /\ AcceptedReached'
    BY <1>b DEF VotesAreBacked, NotReachedYet, AcceptedReached, Reached, Running
  <2>5. QED
    BY <1>0, <1>b, <2>1, <2>2, <2>3, <2>4
       DEF RejectionIsRight, ZeroThresholdNeverDecides
<1>2. ASSUME NEW s \in Slots, Invoke(s)
      PROVE  IInv'
  <2> USE <1>2 DEF Invoke
  <2>1. SlotsDisjoint'
    BY DEF SlotsDisjoint
  <2>2. VotesAreCounted'
    BY <1>b DEF VotesAreCounted, Counted, Running
  <2>3. BufferBounded'
    BY DEF BufferBounded
  <2>4. VotesAreBacked' /\ NotReachedYet' /\ AcceptedReached'
    BY <1>b DEF VotesAreBacked, NotReachedYet, AcceptedReached, Reached, Running
  <2>5. QED
    BY <1>0, <1>b, <2>1, <2>2, <2>3, <2>4
       DEF RejectionIsRight, ZeroThresholdNeverDecides
<1>3. ASSUME NEW s \in Slots, CountVote(s)
      PROVE  IInv'
  <2> USE <1>3 DEF CountVote
  <2>1. /\ Entry(s) = {t \in Slots \ (waiting \cup inflight') : answers[t] = answers[s]}
        /\ Entry(s) \subseteq Oracle!Backing(answers[s])
        /\ config.threshold > 0
    BY VoteFacts
  <2>2. s \in inflight /\ s \notin waiting /\ Running
    BY DEF Yields, SlotsDisjoint
  <2>3. \A v \in Values : votes'[v] = IF v = answers[s] THEN Entry(s) ELSE votes[v]
    BY DEF TypeOK
  <2>4. SlotsDisjoint'
    BY DEF SlotsDisjoint
  <2>5. VotesAreCounted'
    <3>1. \A v \in Values : v # answers[s] => Counted(v)' = Counted(v)
      BY <1>a, <1>b DEF Counted
    <3>2. Counted(answers[s])' = Entry(s)
      BY <1>a, <1>b, <2>1 DEF Counted
    <3>3. QED
      BY <1>a, <2>2, <2>3, <3>1, <3>2 DEF VotesAreCounted
  <2>6. VotesAreBacked'
    BY <1>b, <2>1, <2>3 DEF VotesAreBacked
  <2>7. NotReachedYet'
    BY <2>2, <2>3 DEF NotReachedYet, Reached
  <2>8. BufferBounded'
    <3>1. Cardinality(inflight \ {s}) <= Cardinality(inflight) /\ Cardinality(inflight \ {s}) \in Nat
      BY SlotCounting, SlotFacts DEF TypeOK
    <3>2. QED
      BY <3>1, <1>c DEF BufferBounded
  <2>9. QED
    BY <1>0, <1>b, <2>2, <2>4, <2>5, <2>6, <2>7, <2>8
       DEF RejectionIsRight, ZeroThresholdNeverDecides, AcceptedReached, Running
<1>4. ASSUME NEW s \in Slots, ReturnVote(s)
      PROVE  IInv'
  <2> USE <1>4 DEF ReturnVote
  <2>1. Entry(s) \subseteq Oracle!Backing(answers[s]) /\ config.threshold > 0
    BY VoteFacts
  <2>2. \A v \in Values : votes'[v] = IF v = answers[s] THEN Entry(s) ELSE votes[v]
    BY DEF TypeOK
  <2>3. VotesAreBacked'
    BY <1>b, <2>1, <2>2 DEF VotesAreBacked
  <2>4. AcceptedReached'
    BY <2>2 DEF AcceptedReached, Reached
  <2>5. BufferBounded'
    BY <1>c, FS_EmptySet DEF BufferBounded
  <2>6. ZeroThresholdNeverDecides'
    BY <2>1, <1>c DEF ZeroThresholdNeverDecides
  <2>7. QED
    BY <1>0, <2>3, <2>4, <2>5, <2>6
       DEF SlotsDisjoint, VotesAreCounted, NotReachedYet, RejectionIsRight, Running
<1>5. ASSUME NEW s \in Slots, CountError(s)
      PROVE  IInv'
  <2> USE <1>5 DEF CountError
  <2>1. SlotsDisjoint'
    BY DEF SlotsDisjoint
  <2>2. VotesAreCounted'
    <3>1. \A v \in Values : Counted(v)' = Counted(v)
      BY <1>a, <1>b, ValuesAssumption DEF Counted
    <3>2. QED
      BY <3>1 DEF VotesAreCounted, Running
  <2>3. BufferBounded'
    <3>1. Cardinality(inflight \ {s}) <= Cardinality(inflight) /\ Cardinality(inflight \ {s}) \in Nat
      BY SlotCounting, SlotFacts DEF TypeOK
    <3>2. QED
      BY <3>1, <1>c DEF BufferBounded
  <2>4. VotesAreBacked' /\ NotReachedYet' /\ AcceptedReached'
    BY <1>b DEF VotesAreBacked, NotReachedYet, AcceptedReached, Reached, Running
  <2>5. QED
    BY <1>0, <1>b, <2>1, <2>2, <2>3, <2>4
       DEF RejectionIsRight, ZeroThresholdNeverDecides
<1>6. CASE NoConsensus
  <2> USE <1>6 DEF NoConsensus
  <2>1. \A v \in Values : ~Oracle!Reaches(v)
    <3>1. \A v \in Values : votes[v] = Oracle!Backing(v)
      BY OracleTerms DEF VotesAreCounted, Counted
    <3>2. \A v \in Values : ~Reached(votes[v])
      BY DEF NotReachedYet, Polls
    <3>3. QED
      BY <3>1, <3>2, OracleTerms DEF Reached
  <2>2. RejectionIsRight'
    BY <1>b, <2>1 DEF RejectionIsRight
  <2>3. ZeroThresholdNeverDecides'
    BY <1>c DEF ZeroThresholdNeverDecides, Polls
  <2>4. QED
    BY <1>0, <1>b, <2>2, <2>3
       DEF SlotsDisjoint, VotesAreCounted, VotesAreBacked, NotReachedYet, BufferBounded,
           AcceptedReached, Running
<1>7. CASE Drop
  <2> USE <1>7 DEF Drop
  <2>1. BufferBounded'
    BY <1>c, FS_EmptySet DEF BufferBounded
  <2>2. QED
    BY <1>0, <1>b, <2>1
       DEF SlotsDisjoint, VotesAreCounted, VotesAreBacked, NotReachedYet, RejectionIsRight,
           AcceptedReached, ZeroThresholdNeverDecides, Running
<1>8. CASE UNCHANGED vars
  BY <1>0, <1>8, <1>b
     DEF vars, SlotsDisjoint, VotesAreCounted, Counted, VotesAreBacked, NotReachedYet, Reached,
         BufferBounded, RejectionIsRight, AcceptedReached, ZeroThresholdNeverDecides, Running
<1>9. QED
  BY <1>1, <1>2, <1>3, <1>4, <1>5, <1>6, <1>7, <1>8 DEF Next, Advance, Ended

THEOREM InductiveInvariant == Spec => []IInv
BY InitIInv, NextIInv, PTL DEF Spec

-----------------------------------------------------------------------------

(***************************************************************************)
(* Votes that reached the threshold are backed by enough slots.            *)
(***************************************************************************)
LEMMA BackedFromInv == IInv => AcceptedIsBacked
<1> SUFFICES ASSUME IInv, status = "ok"
             PROVE  result \in Values /\ Oracle!Reaches(result)
  BY DEF AcceptedIsBacked
<1>1. result \in Values /\ Cardinality(votes[result]) >= config.threshold
  BY DEF IInv, AcceptedReached, Reached
<1>2. votes[result] \subseteq Oracle!Backing(result) /\ Oracle!Backing(result) \subseteq Slots
  BY <1>1, OracleTerms DEF IInv, VotesAreBacked
<1>3. /\ IsFiniteSet(Oracle!Backing(result))
      /\ Cardinality(Oracle!Backing(result)) \in Nat
      /\ Cardinality(votes[result]) \in Nat
      /\ config.threshold \in Nat
  BY <1>1, <1>2, SlotFacts DEF IInv, TypeOK
<1>4. Cardinality(votes[result]) <= Cardinality(Oracle!Backing(result))
  BY <1>2, <1>3, FS_Subset
<1>5. QED
  BY <1>1, <1>3, <1>4, OracleTerms

(***************************************************************************)
(* Two answers cannot both be backed by a strict majority of the slots.    *)
(***************************************************************************)
LEMMA OneMajority ==
  ASSUME TypeOK, StrictMajority(config),
         NEW v \in Values, NEW w \in Values, Oracle!Reaches(v), Oracle!Reaches(w)
  PROVE  v = w
<1> DEFINE V == Oracle!Backing(v)
           W == Oracle!Backing(w)
<1>1. V \subseteq Slots /\ W \subseteq Slots
  BY OracleTerms
<1>2. /\ Cardinality(V) \in Nat /\ Cardinality(V) >= config.threshold
      /\ Cardinality(W) \in Nat /\ Cardinality(W) >= config.threshold
  BY <1>1, SlotFacts, OracleTerms
<1>3. IsFiniteSet(Slots) /\ Cardinality(Slots) = Len(config.servers) /\ Len(config.servers) \in Nat
  <2>1. Len(config.servers) \in Nat
    BY SlotFacts
  <2>2. Slots = 1 .. Len(config.servers)
    BY DEF Slots, SlotsOf
  <2>3. /\ IsFiniteSet(1 .. Len(config.servers))
        /\ Cardinality(1 .. Len(config.servers)) = Len(config.servers)
    BY <2>1, FS_Interval
  <2>4. QED
    BY <2>1, <2>2, <2>3
<1>4. Cardinality(V) + Cardinality(W) > Cardinality(Slots)
  BY <1>2, <1>3, SlotFacts DEF StrictMajority
<1>5. V \cap W # {}
  BY <1>1, <1>3, <1>4, FS_MajoritiesIntersect
<1>6. QED
  BY <1>5, OracleTerms

(***************************************************************************)
(* AcceptedIsBacked, for every configuration: fewer than `threshold`       *)
(* servers cannot make threshold_call return their answer.                 *)
(***************************************************************************)
THEOREM Integrity == Spec => []AcceptedIsBacked
BY InductiveInvariant, BackedFromInv, PTL

(***************************************************************************)
(* RejectionIsRight, for every configuration: threshold_call never reports *)
(* "No consensus" when an answer has enough backers.                       *)
(***************************************************************************)
THEOREM Completeness == Spec => []RejectionIsRight
<1>1. IInv => RejectionIsRight
  BY DEF IInv
<1>2. QED
  BY <1>1, InductiveInvariant, PTL

(***************************************************************************)
(* OutcomeIsUnique: the guarantee that the comment of                      *)
(* validate_chain_config gives for a strict majority.                      *)
(***************************************************************************)
THEOREM Uniqueness == Spec => []OutcomeIsUnique
<1>1. IInv => OutcomeIsUnique
  <2> SUFFICES ASSUME IInv, Validated(config), status = "ok", NEW v \in Values, Oracle!Reaches(v)
               PROVE  v = result
    BY DEF OutcomeIsUnique
  <2>1. result \in Values /\ Oracle!Reaches(result)
    BY BackedFromInv DEF AcceptedIsBacked
  <2>2. StrictMajority(config)
    BY DEF Validated, validate_chain_config
  <2>3. QED
    BY <2>1, <2>2, OneMajority DEF IInv
<1>2. QED
  BY <1>1, InductiveInvariant, PTL

(***************************************************************************)
(* AcceptedByDistinctServers: what unique_items adds to the majority.      *)
(***************************************************************************)
THEOREM DistinctServers == Spec => []AcceptedByDistinctServers
<1>1. IInv => AcceptedByDistinctServers
  <2> SUFFICES ASSUME IInv, Validated(config), status = "ok"
               PROVE  Cardinality({config.servers[s] : s \in votes[result]}) >= config.threshold
    BY DEF AcceptedByDistinctServers
  <2> DEFINE S == votes[result]
             T == {config.servers[s] : s \in S}
             url == [s \in S |-> config.servers[s]]
  <2>1. S \subseteq Slots /\ IsFiniteSet(S) /\ Cardinality(S) >= config.threshold
    BY SlotFacts DEF IInv, TypeOK, AcceptedReached, Reached
  <2>2. UniqueItems(config)
    BY DEF Validated
  <2>3. url \in Bijection(S, T)
    <3>1. url \in [S -> T]
      OBVIOUS
    <3>2. \A s, t \in S : url[s] = url[t] => s = t
      BY <2>1, <2>2 DEF UniqueItems, Slots
    <3>3. \A u \in T : \E s \in S : url[s] = u
      OBVIOUS
    <3>4. QED
      BY <3>1, <3>2, <3>3 DEF Bijection, Injection, Surjection, IsInjective
  <2>4. Cardinality(T) = Cardinality(S)
    <3>1. ExistsBijection(S, T)
      BY <2>3 DEF ExistsBijection
    <3>2. QED
      BY <2>1, <3>1, FS_Bijection
  <2>5. QED
    BY <2>1, <2>4
<1>2. QED
  BY <1>1, InductiveInvariant, PTL

(***************************************************************************)
(* ZeroThresholdNeverDecides, for every configuration with threshold 0.    *)
(***************************************************************************)
THEOREM ZeroThreshold == Spec => []ZeroThresholdNeverDecides
<1>1. IInv => ZeroThresholdNeverDecides
  BY DEF IInv
<1>2. QED
  BY <1>1, InductiveInvariant, PTL

-----------------------------------------------------------------------------

(***************************************************************************)
(* Every step of a call is a step of the oracle, or changes nothing it     *)
(* can see.                                                                *)
(***************************************************************************)
LEMMA StepRefines == IInv /\ IInv' /\ [Next]_vars => [Oracle!OracleNext]_(Oracle!ovars)
<1> SUFFICES ASSUME IInv, IInv', [Next]_vars
             PROVE  [Oracle!OracleNext]_(Oracle!ovars)
  OBVIOUS
<1> USE DEF Oracle!ovars
<1>1. ASSUME NEW s \in Slots, Pull(s) \/ Invoke(s) \/ CountVote(s) \/ CountError(s)
      PROVE  UNCHANGED Oracle!ovars
  BY <1>1 DEF Pull, Invoke, CountVote, CountError
<1>2. ASSUME NEW s \in Slots, ReturnVote(s)
      PROVE  Oracle!Accept(answers[s])
  <2>1. AcceptedIsBacked'
    BY BackedFromInv, PTL
  <2>2. QED
    BY <1>2, <2>1, VoteFacts, StableTerms DEF ReturnVote, AcceptedIsBacked, Oracle!Accept, Yields, Running
<1>3. CASE NoConsensus
  <2>1. RejectionIsRight'
    BY DEF IInv
  <2>2. \A v \in Values : ~Oracle!Reaches(v)
    BY <1>3, <2>1, StableTerms DEF NoConsensus, RejectionIsRight
  <2>3. Oracle!Reject
    BY <1>3, <2>2, OracleTerms DEF NoConsensus, Oracle!Reject, Running, Polls
  <2>4. QED
    BY <2>3 DEF Oracle!OracleNext
<1>4. CASE Drop
  BY <1>4 DEF Drop, Running, Oracle!Abandon, Oracle!OracleNext
<1>5. CASE UNCHANGED vars
  BY <1>5 DEF vars
<1>6. ASSUME NEW s \in Slots, ReturnVote(s)
      PROVE  Oracle!OracleNext
  BY <1>2, <1>6 DEF Oracle!OracleNext, ReturnVote
<1>7. QED
  BY <1>1, <1>3, <1>4, <1>5, <1>6 DEF Next, Advance, Ended

(***************************************************************************)
(* threshold_call implements the atomic oracle (the property Implements):  *)
(* what composes with it may reason with one decision per call.            *)
(***************************************************************************)
THEOREM Refinement == Spec => Implements
<1>1. Init => Oracle!OracleInit
  BY OracleTerms DEF Init, Oracle!OracleInit
<1>2. QED
  BY <1>1, StepRefines, InductiveInvariant, PTL DEF Spec, Implements, Oracle!OracleSpec

-----------------------------------------------------------------------------

(***************************************************************************)
(* The request bound needs two more facts: a slot that was invoked is      *)
(* still in the buffer or has been counted, and what RequestsAreBounded    *)
(* says of an agreeing set of servers.                                     *)
(***************************************************************************)
AgreementBound ==
  \A v \in Values :
    config.threshold > 0 /\ Slots \subseteq Oracle!Backing(v) =>
      Cardinality(invoked) <= 2 * config.threshold - 1

(***************************************************************************)
(* While the call runs and everyone agrees on v, whoever was invoked is in *)
(* the buffer or has voted for v, and fewer than `threshold` have.         *)
(***************************************************************************)
LEMMA AgreementWhileRunning ==
  ASSUME IInv, Running
  PROVE  AgreementBound
<1> SUFFICES ASSUME NEW v \in Values, config.threshold > 0, Slots \subseteq Oracle!Backing(v)
             PROVE  Cardinality(invoked) <= 2 * config.threshold - 1
  BY DEF AgreementBound
<1>1. invoked \subseteq inflight \cup votes[v]
  BY OracleTerms DEF IInv, VotesAreCounted, Counted, SlotsDisjoint, TypeOK
<1>2. /\ inflight \in SUBSET Slots /\ votes[v] \in SUBSET Slots
      /\ IsFiniteSet(inflight) /\ IsFiniteSet(votes[v])
      /\ Cardinality(inflight) \in Nat /\ Cardinality(votes[v]) \in Nat
      /\ config.threshold \in Nat
  BY SlotFacts DEF IInv, TypeOK
<1>3. Cardinality(inflight) <= config.threshold /\ Cardinality(votes[v]) < config.threshold
  BY <1>2 DEF IInv, BufferBounded, NotReachedYet, Reached
<1>4. /\ IsFiniteSet(inflight \cup votes[v])
      /\ Cardinality(inflight \cup votes[v]) <= Cardinality(inflight) + Cardinality(votes[v])
  <2>1. /\ IsFiniteSet(inflight \cup votes[v])
        /\ Cardinality(inflight \cup votes[v])
             = Cardinality(inflight) + Cardinality(votes[v]) - Cardinality(inflight \cap votes[v])
    BY <1>2, FS_Union
  <2>2. Cardinality(inflight \cap votes[v]) \in Nat
    BY <1>2, FS_Intersection, FS_CardinalityType
  <2>3. QED
    BY <1>2, <2>1, <2>2
<1>5. Cardinality(invoked) <= Cardinality(inflight \cup votes[v])
  BY <1>1, <1>4, FS_Subset
<1>6. Cardinality(invoked) \in Nat /\ Cardinality(inflight \cup votes[v]) \in Nat
  BY <1>4, SlotFacts, FS_CardinalityType DEF IInv, TypeOK
<1>7. QED
  BY <1>2, <1>3, <1>4, <1>5, <1>6

(***************************************************************************)
(* RequestsAreBounded, for every configuration: at most `threshold` open   *)
(* requests, and at most 2 * threshold - 1 in total when everyone agrees.  *)
(***************************************************************************)
THEOREM BoundedRequests == Spec => []RequestsAreBounded
<1>1. Init => AgreementBound
  BY InitIInv, AgreementWhileRunning DEF Init, Running
<1>2. AgreementBound /\ IInv /\ IInv' /\ [Next]_vars => AgreementBound'
  <2> SUFFICES ASSUME AgreementBound, IInv, IInv', [Next]_vars
               PROVE  AgreementBound'
    OBVIOUS
  <2>1. CASE Running'
    BY <2>1, AgreementWhileRunning, PTL
  <2>2. CASE ~Running'
    <3>1. UNCHANGED <<config, answers, invoked>>
      BY <2>2 DEF Next, Advance, Pull, Invoke, CountVote, ReturnVote, CountError,
                  NoConsensus, Drop, Ended, vars, Running
    <3>2. QED
      BY <3>1, StableTerms DEF AgreementBound
  <2>3. QED
    BY <2>1, <2>2
<1>3. IInv /\ AgreementBound => RequestsAreBounded
  BY DEF IInv, BufferBounded, AgreementBound, RequestsAreBounded
<1>4. QED
  BY <1>1, <1>2, <1>3, InductiveInvariant, PTL DEF Spec

-----------------------------------------------------------------------------
(***************************************************************************)
(* HttpClient.                                                             *)
(***************************************************************************)
Failed == {s \in Server : request[s] = "RequestFailed"}

(***************************************************************************)
(* Types of the variables.                                                 *)
(***************************************************************************)
Statuses == {"unsent", "sent", "success", "non-success"} \cup Outcomes

HttpTypeOK ==
  /\ request \in [Server -> Statuses]
  /\ DOMAIN body = Server /\ \A s \in Server : IsText(body[s])
  /\ DOMAIN snip = Server
  /\ total \in Nat /\ fails \in Nat
  /\ task \in {"running", "panicked", "finished"}

(***************************************************************************)
(* The inductive invariant.  A failure is counted in the step that ends    *)
(* the request or, when quoting the body panics, in the one that ends      *)
(* them all.                                                               *)
(***************************************************************************)
CountIsRight ==
  \/ fails = Cardinality(Failed)
  \/ task = "panicked" /\ fails = Cardinality(Failed) + 1

PanicHasCause ==
  task = "panicked" =>
    \E s \in Server :
      /\ request[s] = "non-success" \/ body[s] \notin Json
      /\ Splits(body[s])

HttpIInv == HttpTypeOK /\ CountIsRight /\ PanicHasCause

-----------------------------------------------------------------------------

LEMMA FailedIsCounted == IsFiniteSet(Failed) /\ Cardinality(Failed) \in Nat
  BY HttpAssumption, FS_Subset, FS_CardinalityType DEF Failed

(***************************************************************************)
(* A text that is cut inside a character is long and has a character of    *)
(* several bytes.                                                          *)
(***************************************************************************)
LEMMA CutInsideCharacter ==
  ASSUME NEW b, IsText(b), Splits(b)
  PROVE  /\ b.bytes > LOG_SNIP_MAX
         /\ \E n \in 0 .. b.bytes : n \notin b.boundaries
<1>1. b.bytes \in Nat /\ LOG_SNIP_MAX \in Nat /\ b.bytes > LOG_SNIP_MAX
  BY HttpAssumption DEF IsText, Splits, IsLong
<1>2. Half \in 0 .. LOG_SNIP_MAX
  BY <1>1 DEF Half
<1>3. Half \in 0 .. b.bytes /\ b.bytes - Half \in 0 .. b.bytes
  BY <1>1, <1>2
<1>4. Half \notin b.boundaries \/ b.bytes - Half \notin b.boundaries
  BY DEF Splits
<1> QED
  BY <1>1, <1>3, <1>4

LEMMA NoTextIsText == IsText(NoText)
  BY DEF IsText, NoText

(***************************************************************************)
(* How the set of failed requests changes when one request moves on.       *)
(***************************************************************************)
LEMMA MovesOn ==
  ASSUME request \in [Server -> Statuses], NEW s \in Server, NEW ending,
         request[s] # "RequestFailed",
         request' = [request EXCEPT ![s] = ending]
  PROVE  Cardinality(Failed)' =
           IF ending = "RequestFailed" THEN Cardinality(Failed) + 1 ELSE Cardinality(Failed)
<1>1. CASE ending = "RequestFailed"
  <2>1. Failed' = Failed \cup {s} /\ s \notin Failed
    BY <1>1 DEF Failed
  <2>2. Cardinality(Failed \cup {s}) = Cardinality(Failed) + 1
    BY <2>1, FailedIsCounted, FS_AddElement
  <2> QED
    BY <1>1, <2>1, <2>2
<1>2. CASE ending # "RequestFailed"
  <2>1. Failed' = Failed
    BY <1>2 DEF Failed
  <2> QED
    BY <1>2, <2>1
<1> QED
  BY <1>1, <1>2

-----------------------------------------------------------------------------

LEMMA HttpInitInvariant == HttpInit => HttpIInv
<1> SUFFICES ASSUME HttpInit PROVE HttpIInv
  OBVIOUS
<1>1. HttpTypeOK
  BY NoTextIsText DEF HttpInit, HttpTypeOK, Statuses
<1>2. CountIsRight
  <2>1. Failed = {}
    BY DEF HttpInit, Failed
  <2> QED
    BY <2>1, FS_EmptySet DEF HttpInit, CountIsRight
<1>3. PanicHasCause
  BY DEF HttpInit, PanicHasCause
<1> QED
  BY <1>1, <1>2, <1>3 DEF HttpIInv

LEMMA SendKeeps ==
  ASSUME HttpIInv, NEW s \in Server, Send(s)
  PROVE  HttpIInv'
<1> USE DEF HttpIInv, Send, response
<1>1. HttpTypeOK'
  BY DEF HttpTypeOK, Statuses
<1>2. CountIsRight'
  <2>1. /\ request \in [Server -> Statuses] /\ request[s] # "RequestFailed"
        /\ request' = [request EXCEPT ![s] = "sent"]
    BY DEF HttpTypeOK
  <2>2. Cardinality(Failed)' = Cardinality(Failed)
    BY <2>1, MovesOn
  <2> QED
    BY <2>2 DEF CountIsRight
<1>3. PanicHasCause'
  BY DEF PanicHasCause
<1> QED
  BY <1>1, <1>2, <1>3

LEMMA TransportFailsKeeps ==
  ASSUME HttpIInv, NEW s \in Server, TransportFails(s)
  PROVE  HttpIInv'
<1> USE DEF HttpIInv, TransportFails, response
<1>1. HttpTypeOK'
  BY DEF HttpTypeOK, Statuses, Outcomes, OneMore
<1>2. CountIsRight'
  <2>1. Cardinality(Failed)' = Cardinality(Failed) + 1
    BY MovesOn DEF HttpTypeOK
  <2> QED
    BY <2>1 DEF CountIsRight, OneMore
<1>3. PanicHasCause'
  BY DEF PanicHasCause
<1> QED
  BY <1>1, <1>2, <1>3

LEMMA ReceiveKeeps ==
  ASSUME HttpIInv, NEW s \in Server, NEW ending \in {"success", "non-success"}, NEW b \in Bodies,
         Receive(s, ending, b)
  PROVE  HttpIInv'
<1> USE DEF HttpIInv, Receive, counters
<1>1. HttpTypeOK'
  BY HttpAssumption DEF HttpTypeOK, Statuses
<1>2. CountIsRight'
  <2>1. Cardinality(Failed)' = Cardinality(Failed)
    BY MovesOn DEF HttpTypeOK
  <2> QED
    BY <2>1 DEF CountIsRight
<1>3. PanicHasCause'
  BY DEF PanicHasCause
<1> QED
  BY <1>1, <1>2, <1>3

LEMMA NonSuccessKeeps ==
  ASSUME HttpIInv, NEW s \in Server, NonSuccess(s)
  PROVE  HttpIInv'
<1> USE DEF HttpIInv, NonSuccess, Quotes
<1>0. fails = Cardinality(Failed) /\ request[s] # "RequestFailed" /\ fails' = fails + 1
  BY DEF CountIsRight, OneMore
<1>1. CASE Splits(body[s])
  <2>1. request' = request /\ snip' = snip /\ task' = "panicked" /\ body' = body /\ total' = total
    BY <1>1
  <2>2. HttpTypeOK'
    BY <1>0, <2>1 DEF HttpTypeOK
  <2>3. Failed' = Failed
    BY <2>1 DEF Failed
  <2>4. CountIsRight'
    BY <1>0, <2>1, <2>3 DEF CountIsRight
  <2>5. PanicHasCause'
    BY <1>1, <2>1 DEF PanicHasCause, Splits, IsLong
  <2> QED
    BY <2>2, <2>4, <2>5
<1>2. CASE ~Splits(body[s])
  <2>1. /\ request' = [request EXCEPT ![s] = "RequestFailed"]
        /\ DOMAIN snip' = DOMAIN snip /\ task' = "running" /\ body' = body /\ total' = total
    BY <1>2
  <2>2. HttpTypeOK'
    BY <1>0, <2>1 DEF HttpTypeOK, Statuses, Outcomes
  <2>3. Cardinality(Failed)' = Cardinality(Failed) + 1
    BY <1>0, <2>1, MovesOn DEF HttpTypeOK
  <2>4. CountIsRight'
    BY <1>0, <2>3 DEF CountIsRight
  <2>5. PanicHasCause'
    BY <2>1 DEF PanicHasCause
  <2> QED
    BY <2>2, <2>4, <2>5
<1> QED
  BY <1>1, <1>2

LEMMA DecodeKeeps ==
  ASSUME HttpIInv, NEW s \in Server, Decode(s)
  PROVE  HttpIInv'
<1> USE DEF HttpIInv, Decode, response, counters
<1>1. HttpTypeOK'
  BY DEF HttpTypeOK, Statuses, Outcomes
<1>2. CountIsRight'
  <2>1. /\ request \in [Server -> Statuses] /\ request[s] # "RequestFailed"
        /\ request' = [request EXCEPT ![s] = "decoded"]
    BY DEF HttpTypeOK
  <2>2. Cardinality(Failed)' = Cardinality(Failed)
    BY <2>1, MovesOn
  <2> QED
    BY <2>2 DEF CountIsRight
<1>3. PanicHasCause'
  BY DEF PanicHasCause
<1> QED
  BY <1>1, <1>2, <1>3

LEMMA DecodeFailsKeeps ==
  ASSUME HttpIInv, NEW s \in Server, DecodeFails(s)
  PROVE  HttpIInv'
<1> USE DEF HttpIInv, DecodeFails, Quotes, counters
<1>0. fails = Cardinality(Failed) /\ request[s] # "RequestFailed"
  BY DEF CountIsRight
<1>1. CASE Splits(body[s])
  <2>1. request' = request /\ snip' = snip /\ task' = "panicked" /\ body' = body
    BY <1>1
  <2>2. HttpTypeOK'
    BY <2>1 DEF HttpTypeOK
  <2>3. Failed' = Failed
    BY <2>1 DEF Failed
  <2>4. CountIsRight'
    BY <1>0, <2>1, <2>3 DEF CountIsRight
  <2>5. PanicHasCause'
    BY <1>1, <2>1 DEF PanicHasCause, Splits, IsLong
  <2> QED
    BY <2>2, <2>4, <2>5
<1>2. CASE ~Splits(body[s])
  <2>1. /\ request' = [request EXCEPT ![s] = "JsonDecode"]
        /\ DOMAIN snip' = DOMAIN snip /\ task' = "running" /\ body' = body
    BY <1>2
  <2>2. HttpTypeOK'
    BY <2>1 DEF HttpTypeOK, Statuses, Outcomes
  <2>3. Cardinality(Failed)' = Cardinality(Failed)
    BY <1>0, <2>1, MovesOn DEF HttpTypeOK
  <2>4. CountIsRight'
    BY <1>0, <2>3 DEF CountIsRight
  <2>5. PanicHasCause'
    BY <2>1 DEF PanicHasCause
  <2> QED
    BY <2>2, <2>4, <2>5
<1> QED
  BY <1>1, <1>2

LEMMA HttpOthersKeep ==
  ASSUME HttpIInv, Finish \/ Dropped \/ UNCHANGED httpVars
  PROVE  HttpIInv'
<1> USE DEF HttpIInv, response, counters
<1>1. CASE Finish \/ Dropped
  <2>1. /\ request' = request /\ body' = body /\ snip' = snip /\ total' = total /\ fails' = fails
        /\ task = "running" /\ task' = "finished"
    BY <1>1 DEF Finish, Dropped
  <2> QED
    BY <2>1 DEF HttpTypeOK, CountIsRight, PanicHasCause, Failed
<1>2. CASE UNCHANGED httpVars
  BY <1>2 DEF httpVars, HttpTypeOK, CountIsRight, PanicHasCause, Failed
<1> QED
  BY <1>1, <1>2

LEMMA HttpNextKeeps == HttpIInv /\ [HttpNext]_httpVars => HttpIInv'
<1> SUFFICES ASSUME HttpIInv, [HttpNext]_httpVars PROVE HttpIInv'
  OBVIOUS
<1>1. ASSUME NEW s \in Server, Step(s) PROVE HttpIInv'
  BY <1>1, SendKeeps, TransportFailsKeeps, NonSuccessKeeps, DecodeKeeps, DecodeFailsKeeps DEF Step
<1>2. ASSUME NEW s \in Server, NEW ending \in {"success", "non-success"}, NEW b \in Bodies,
             Receive(s, ending, b)
      PROVE  HttpIInv'
  BY <1>2, ReceiveKeeps
<1>3. CASE Finish \/ Dropped \/ UNCHANGED httpVars
  BY <1>3, HttpOthersKeep
<1> QED
  BY <1>1, <1>2, <1>3 DEF HttpNext

THEOREM HttpInvariant == HttpSpec => []HttpIInv
  BY HttpInitInvariant, HttpNextKeeps, PTL DEF HttpSpec

-----------------------------------------------------------------------------

(***************************************************************************)
(* The variables hold values of their types.                               *)
(***************************************************************************)
THEOREM HttpTypeCorrect == HttpSpec => []HttpTypeOK
<1>1. HttpIInv => HttpTypeOK
  BY DEF HttpIInv
<1> QED
  BY <1>1, HttpInvariant, PTL

(***************************************************************************)
(* Whatever the servers send and in whichever order, every request that    *)
(* ends as RequestFailed is counted once and no other is, but for the one  *)
(* whose body made the task panic.                                         *)
(***************************************************************************)
THEOREM CounterIsRight == HttpSpec => []FailuresAreCounted
<1>1. HttpIInv => FailuresAreCounted
  BY FailedIsCounted DEF HttpIInv, HttpTypeOK, CountIsRight, FailuresAreCounted, Failed
<1> QED
  BY <1>1, HttpInvariant, PTL

(***************************************************************************)
(* Only a long text with a character of several bytes, in an error answer  *)
(* or one that does not decode, makes the task panic.                      *)
(***************************************************************************)
THEOREM PanicsForCause == HttpSpec => []PanicNeedsWideText
<1>1. ASSUME HttpIInv PROVE PanicNeedsWideText
  BY <1>1, CutInsideCharacter DEF HttpIInv, HttpTypeOK, PanicHasCause, PanicNeedsWideText
<1> QED
  BY <1>1, HttpInvariant, PTL
=============================================================================
