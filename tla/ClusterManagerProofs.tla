------------------------- MODULE ClusterManagerProofs -------------------------
(***************************************************************************)
(* Theorems about ClusterManager, for any clusters, thresholds and number  *)
(* of concurrent attempts.                                                 *)
(***************************************************************************)
EXTENDS ClusterManager, FiniteSetTheorems, TLAPS

(***************************************************************************)
(* The inductive invariant.  The two counting-down arguments: while a sign *)
(* request runs, every combination whose servers have been up throughout   *)
(* waits in the stream or is being attempted; while a key is looked for,   *)
(* every listed server that has been up throughout is still to be asked or *)
(* being asked.                                                            *)
(***************************************************************************)
AreCombinations ==
  /\ queue \subseteq AllCombinations
  /\ \A t \in attempts : t.members \in Combinations(t.cluster)
  /\ \A c \in Clusters : live[c] \subseteq ServersOf[c]

Untried ==
  request = "sign" /\ Running =>
    \A c \in Clusters : \A S \in Combinations(c) :
      S # {} /\ S \subseteq steady =>
        \/ [cluster |-> c, members |-> S] \in queue
        \/ \E t \in attempts : t.cluster = c /\ t.members = S

Unasked ==
  request = "get_public_key" /\ Running =>
    \A y \in Entries : y.server \in steady => y \in keyQueue \cup asked

AsksOneByOne ==
  /\ \A y, z \in asked : y = z
  /\ request = "sign" => keyQueue = {} /\ asked = {}

SignersAreCombination ==
  request = "sign" /\ status = "ok" => \E c \in Clusters : signers \in Combinations(c)

NothingCouldSign ==
  request = "sign" /\ status = "err" =>
    \A c \in Clusters : \A S \in Combinations(c) : ~(S # {} /\ S \subseteq steady)

Bounded == IsFiniteSet(attempts) /\ AttemptsAreBounded

IInv ==
  /\ TypeOK /\ AreCombinations /\ Untried /\ Unasked /\ AsksOneByOne
  /\ SignersAreCombination /\ NothingCouldSign /\ KeyFailureIsRight /\ Bounded

-----------------------------------------------------------------------------

(***************************************************************************)
(* What the snapshots determine does not change while they do not.         *)
(***************************************************************************)
LEMMA SnapshotTerms ==
  ASSUME live' = live
  PROVE  /\ Entries' = Entries
         /\ AllCombinations' = AllCombinations
         /\ \A c : Combinations(c)' = Combinations(c)
  BY DEF Entries, AllCombinations, Combinations

(***************************************************************************)
(* Every step leaves the request and the snapshots alone.                  *)
(***************************************************************************)
LEMMA StepKeepsSnapshots ==
  ASSUME [Next]_vars
  PROVE  request' = request /\ live' = live
  BY DEF Next, vars, SignStep, KeyStep, Env, Attempt, NoLeader, Signed, AttemptFailed,
         SignFails, Ask, KeyReturned, KeyMissed, KeyFails, GoDown, ComeBack, Drop, Ended

(***************************************************************************)
(* The combinations of a cluster: the sets of `threshold` live servers.    *)
(***************************************************************************)
LEMMA CombinationFacts ==
  ASSUME NEW c \in Clusters, live[c] \subseteq Server
  PROVE  Combinations(c) = {S \in SUBSET live[c] : Cardinality(S) = Threshold[c]}
<1>1. IsFiniteSet(live[c]) /\ Cardinality(live[c]) \in Nat
  BY FS_Subset, FS_CardinalityType, ClustersAssumption
<1>2. ASSUME NEW S \in SUBSET live[c], Cardinality(S) = Threshold[c]
      PROVE  ~(Cardinality(live[c]) < Threshold[c])
  <2>1. Cardinality(S) <= Cardinality(live[c])
    BY <1>1, FS_Subset
  <2>2. Threshold[c] \in Nat
    BY ClustersAssumption
  <2> QED
    BY <1>1, <1>2, <2>1, <2>2
<1> QED
  BY <1>2 DEF Combinations

LEMMA InitIInv == Init => IInv
<1> SUFFICES ASSUME Init PROVE IInv
  OBVIOUS
<1> USE DEF Init, Running, Nobody
<1>1. live \in [Clusters -> SUBSET Server]
  BY ClustersAssumption
<1>2. AllCombinations \subseteq [cluster : Clusters, members : SUBSET Server]
  BY <1>1 DEF AllCombinations, Combinations
<1>3. TypeOK
  BY <1>1, <1>2 DEF TypeOK
<1>4. AreCombinations
  BY DEF AreCombinations
<1>5. Untried /\ Unasked /\ AsksOneByOne
  BY DEF Untried, Unasked, AsksOneByOne, AllCombinations
<1>6. SignersAreCombination /\ NothingCouldSign /\ KeyFailureIsRight
  BY DEF SignersAreCombination, NothingCouldSign, KeyFailureIsRight
<1>7. Bounded
  BY FS_EmptySet, ConcurrencyAssumption DEF Bounded, AttemptsAreBounded
<1> QED
  BY <1>3, <1>4, <1>5, <1>6, <1>7 DEF IInv

-----------------------------------------------------------------------------

LEMMA TypeStep == TypeOK /\ AreCombinations /\ [Next]_vars => TypeOK'
<1> SUFFICES ASSUME TypeOK, AreCombinations, [Next]_vars PROVE TypeOK'
  OBVIOUS
<1>0. request' = request /\ live' = live /\ Entries' = Entries
  BY StepKeepsSnapshots, SnapshotTerms
<1> USE <1>0 DEF TypeOK
<1>1. ASSUME NEW x \in queue, Attempt(x) PROVE TypeOK'
  BY <1>1 DEF Attempt, Leaders, envVars, keyVars
<1>2. ASSUME NEW x \in queue, NoLeader(x) PROVE TypeOK'
  BY <1>2 DEF NoLeader, envVars, keyVars
<1>3. ASSUME NEW t \in attempts, Signed(t) PROVE TypeOK'
  BY <1>3 DEF Signed, envVars, keyVars
<1>4. ASSUME NEW t \in attempts, AttemptFailed(t) PROVE TypeOK'
  BY <1>4 DEF AttemptFailed, envVars, keyVars
<1>5. CASE SignFails
  BY <1>5 DEF SignFails, envVars, keyVars, signVars
<1>6. ASSUME NEW x \in keyQueue, Ask(x) PROVE TypeOK'
  BY <1>6 DEF Ask, Rest, envVars, signVars
<1>7. ASSUME NEW x \in asked, KeyReturned(x) PROVE TypeOK'
  BY <1>7 DEF KeyReturned, Nobody, Entries, envVars, signVars
<1>8. ASSUME NEW x \in asked, KeyMissed(x) PROVE TypeOK'
  BY <1>8 DEF KeyMissed, Nobody, envVars, signVars
<1>9. CASE KeyFails
  BY <1>9 DEF KeyFails, envVars, keyVars, signVars
<1>10. ASSUME NEW s \in Server, GoDown(s) \/ ComeBack(s) PROVE TypeOK'
  BY <1>10 DEF GoDown, ComeBack, keyVars, signVars
<1>11. CASE Drop
  BY <1>11 DEF Drop, Nobody, envVars
<1>12. CASE Ended \/ UNCHANGED vars
  BY <1>12 DEF Ended, vars, envVars, keyVars, signVars
<1> QED
  BY <1>1, <1>2, <1>3, <1>4, <1>5, <1>6, <1>7, <1>8, <1>9, <1>10, <1>11, <1>12
     DEF Next, SignStep, KeyStep, Env

LEMMA CombinationsStep ==
  AreCombinations /\ [Next]_vars => AreCombinations'
<1> SUFFICES ASSUME AreCombinations, [Next]_vars PROVE AreCombinations'
  OBVIOUS
<1>0. /\ live' = live /\ AllCombinations' = AllCombinations
      /\ \A c : Combinations(c)' = Combinations(c)
  BY StepKeepsSnapshots, SnapshotTerms
<1>1. queue' \subseteq queue
  BY DEF Next, vars, SignStep, KeyStep, Env, Attempt, NoLeader, Signed, AttemptFailed,
         SignFails, Ask, KeyReturned, KeyMissed, KeyFails, GoDown, ComeBack, Drop, Ended,
         signVars
<1>2. ASSUME NEW t \in attempts', t \notin attempts
      PROVE  \E x \in queue : t.cluster = x.cluster /\ t.members = x.members
  BY <1>2 DEF Next, vars, SignStep, KeyStep, Env, Attempt, NoLeader, Signed, AttemptFailed,
         SignFails, Ask, KeyReturned, KeyMissed, KeyFails, GoDown, ComeBack, Drop, Ended,
         signVars
<1>3. \A x \in queue : x.members \in Combinations(x.cluster)
  BY DEF AreCombinations, AllCombinations
<1>4. \A t \in attempts' : t.members \in Combinations(t.cluster)
  BY <1>2, <1>3 DEF AreCombinations
<1>5. \A t \in attempts' : t.members \in Combinations(t.cluster)'
  BY <1>0, <1>4
<1> QED
  BY <1>0, <1>1, <1>5 DEF AreCombinations

(***************************************************************************)
(* No step loses a combination that could still sign: it leaves the stream *)
(* for an attempt, which fails only for servers that were away.            *)
(***************************************************************************)
LEMMA UntriedStep ==
  TypeOK /\ Untried /\ [Next]_vars => Untried'
<1> SUFFICES ASSUME TypeOK, Untried, [Next]_vars,
                    request' = "sign", Running',
                    NEW c \in Clusters, NEW S \in Combinations(c)',
                    S # {}, S \subseteq steady'
             PROVE  \/ [cluster |-> c, members |-> S] \in queue'
                    \/ \E t \in attempts' : t.cluster = c /\ t.members = S
  BY DEF Untried
<1> DEFINE x0 == [cluster |-> c, members |-> S]
<1> DEFINE Tried == \E t \in attempts : t.cluster = c /\ t.members = S
<1>0. request = "sign" /\ S \in Combinations(c)
  BY StepKeepsSnapshots, SnapshotTerms
<1>1. Running /\ S \subseteq steady
  BY DEF Next, vars, SignStep, KeyStep, Env, Attempt, NoLeader, Signed, AttemptFailed,
         SignFails, Ask, KeyReturned, KeyMissed, KeyFails, GoDown, ComeBack, Drop, Ended,
         envVars, Running
<1>2. x0 \in queue \/ Tried
  BY <1>0, <1>1 DEF Untried
<1>3. ASSUME NEW x \in queue, Attempt(x)
      PROVE  x0 \in queue' \/ \E t \in attempts' : t.cluster = c /\ t.members = S
  <2>1. CASE x = x0
    <3>1. PICK leader \in Leaders(x) :
            attempts' = attempts \cup
              {[cluster |-> x.cluster, members |-> x.members, leader |-> leader]}
      BY <1>3 DEF Attempt
    <3>2. [cluster |-> c, members |-> S, leader |-> leader] \in attempts'
      BY <2>1, <3>1
    <3> QED
      BY <3>2
  <2>2. CASE x # x0
    BY <1>2, <1>3, <2>2 DEF Attempt
  <2> QED
    BY <2>1, <2>2
<1>4. ASSUME NEW x \in queue, NoLeader(x)
      PROVE  x0 \in queue' \/ \E t \in attempts' : t.cluster = c /\ t.members = S
  <2>1. x # x0
    BY <1>4 DEF NoLeader, Leaders
  <2> QED
    BY <1>2, <1>4, <2>1 DEF NoLeader
<1>5. ASSUME NEW t \in attempts, AttemptFailed(t)
      PROVE  x0 \in queue' \/ \E u \in attempts' : u.cluster = c /\ u.members = S
  <2>1. t.members # S
    BY <1>1, <1>5 DEF AttemptFailed, CanFail
  <2> QED
    BY <1>2, <1>5, <2>1 DEF AttemptFailed
<1>6. CASE queue' = queue /\ attempts' = attempts
  BY <1>2, <1>6
<1> QED
  BY <1>1, <1>3, <1>4, <1>5, <1>6
     DEF Next, vars, SignStep, KeyStep, Env, Signed, SignFails, Ask, KeyReturned, KeyMissed,
         KeyFails, GoDown, ComeBack, Drop, Ended, signVars, Running

LEMMA UnaskedStep ==
  TypeOK /\ Unasked /\ AsksOneByOne /\ [Next]_vars => Unasked'
<1> SUFFICES ASSUME TypeOK, Unasked, AsksOneByOne, [Next]_vars,
                    request' = "get_public_key", Running',
                    NEW y \in Entries', y.server \in steady'
             PROVE  y \in keyQueue' \cup asked'
  BY DEF Unasked
<1>0. request = "get_public_key" /\ y \in Entries
  BY StepKeepsSnapshots, SnapshotTerms
<1>1. Running /\ y.server \in steady
  BY DEF Next, vars, SignStep, KeyStep, Env, Attempt, NoLeader, Signed, AttemptFailed,
         SignFails, Ask, KeyReturned, KeyMissed, KeyFails, GoDown, ComeBack, Drop, Ended,
         envVars, Running
<1>2. y \in keyQueue \cup asked
  BY <1>0, <1>1 DEF Unasked
<1>3. ASSUME NEW x \in keyQueue, Ask(x) PROVE y \in keyQueue' \cup asked'
  BY <1>2, <1>3 DEF Ask, Rest, Nobody
<1>4. ASSUME NEW x \in asked, KeyMissed(x) PROVE y \in keyQueue' \cup asked'
  <2>1. asked = {x}
    BY <1>4 DEF AsksOneByOne
  <2> QED
    BY <1>1, <1>2, <1>4, <2>1 DEF KeyMissed
<1>5. CASE keyQueue' = keyQueue /\ asked' = asked
  BY <1>2, <1>5
<1> QED
  BY <1>0, <1>3, <1>4, <1>5
     DEF Next, vars, SignStep, KeyStep, Env, Attempt, NoLeader, Signed, AttemptFailed,
         SignFails, KeyReturned, KeyFails, GoDown, ComeBack, Drop, Ended, keyVars, Running

LEMMA OneByOneStep ==
  AsksOneByOne /\ [Next]_vars => AsksOneByOne'
<1> SUFFICES ASSUME AsksOneByOne, [Next]_vars PROVE AsksOneByOne'
  OBVIOUS
<1>1. request' = request
  BY StepKeepsSnapshots
<1>2. ASSUME NEW x \in keyQueue, Ask(x) PROVE AsksOneByOne'
  BY <1>1, <1>2 DEF Ask, AsksOneByOne
<1>3. CASE keyQueue' = keyQueue /\ asked' \in {asked, {}}
  BY <1>1, <1>3 DEF AsksOneByOne
<1> QED
  BY <1>2, <1>3
     DEF Next, vars, SignStep, KeyStep, Env, Attempt, NoLeader, Signed, AttemptFailed,
         SignFails, KeyReturned, KeyMissed, KeyFails, GoDown, ComeBack, Drop, Ended, keyVars,
         Nobody

LEMMA SignersStep ==
  /\ TypeOK /\ AreCombinations /\ AsksOneByOne /\ SignersAreCombination /\ [Next]_vars
  => SignersAreCombination'
<1> SUFFICES ASSUME TypeOK, AreCombinations, AsksOneByOne, SignersAreCombination,
                    [Next]_vars, request' = "sign", status' = "ok"
             PROVE  \E c \in Clusters : signers' \in Combinations(c)'
  BY DEF SignersAreCombination
<1>0. request = "sign" /\ \A c : Combinations(c)' = Combinations(c)
  BY StepKeepsSnapshots, SnapshotTerms
<1>1. ASSUME NEW t \in attempts, Signed(t)
      PROVE  \E c \in Clusters : signers' \in Combinations(c)
  BY <1>1 DEF Signed, AreCombinations, TypeOK
<1>2. CASE status = "ok" /\ signers' = signers
  BY <1>0, <1>2 DEF SignersAreCombination
<1>3. asked = {}
  BY <1>0 DEF AsksOneByOne
<1> QED
  BY <1>0, <1>1, <1>2, <1>3
     DEF Next, vars, SignStep, KeyStep, Env, Attempt, NoLeader, AttemptFailed, SignFails, Ask,
         KeyReturned, KeyMissed, KeyFails, GoDown, ComeBack, Drop, Ended, Running

(***************************************************************************)
(* Failing is right at the moment of SignFails and KeyFails, and nothing   *)
(* it is judged by changes afterwards.                                     *)
(***************************************************************************)
LEMMA FailureStep ==
  /\ Untried /\ Unasked /\ NothingCouldSign /\ KeyFailureIsRight /\ [Next]_vars
  => NothingCouldSign' /\ KeyFailureIsRight'
<1> SUFFICES ASSUME Untried, Unasked, NothingCouldSign, KeyFailureIsRight, [Next]_vars
             PROVE  NothingCouldSign' /\ KeyFailureIsRight'
  OBVIOUS
<1>0. /\ request' = request /\ live' = live
      /\ \A c : Combinations(c)' = Combinations(c)
  BY StepKeepsSnapshots, SnapshotTerms
<1>1. CASE SignFails
  <2>1. \A c \in Clusters : \A S \in Combinations(c) : ~(S # {} /\ S \subseteq steady)
    BY <1>1 DEF SignFails, NothingLeft, Untried
  <2> QED
    BY <1>0, <1>1, <2>1 DEF SignFails, NothingCouldSign, KeyFailureIsRight, envVars
<1>2. CASE KeyFails
  <2>1. \A y \in Entries : y.server \notin steady
    BY <1>2 DEF KeyFails, Unasked, Nobody
  <2>2. \A c \in Clusters : \A s \in live[c] : [cluster |-> c, server |-> s] \in Entries
    BY DEF Entries
  <2>3. \A c \in Clusters : live[c] \cap steady = {}
    BY <2>1, <2>2
  <2> QED
    BY <1>0, <1>2, <2>3 DEF KeyFails, NothingCouldSign, KeyFailureIsRight, envVars
<1>3. CASE status' # "err"
  BY <1>3 DEF NothingCouldSign, KeyFailureIsRight
<1>4. CASE status = "err" /\ steady' = steady
  BY <1>0, <1>4 DEF NothingCouldSign, KeyFailureIsRight
<1> QED
  BY <1>1, <1>2, <1>3, <1>4
     DEF Next, vars, SignStep, KeyStep, Env, Attempt, NoLeader, Signed, AttemptFailed, Ask,
         KeyReturned, KeyMissed, GoDown, ComeBack, Drop, Ended, Running, envVars

LEMMA BoundedStep ==
  Bounded /\ [Next]_vars => Bounded'
<1> SUFFICES ASSUME Bounded, [Next]_vars PROVE Bounded'
  OBVIOUS
<1>0. IsFiniteSet(attempts) /\ Cardinality(attempts) \in Nat
  BY FS_CardinalityType DEF Bounded
<1>1. ASSUME NEW x \in queue, Attempt(x) PROVE Bounded'
  <2>1. PICK t : attempts' = attempts \cup {t}
    BY <1>1 DEF Attempt
  <2>2. /\ IsFiniteSet(attempts')
        /\ Cardinality(attempts') <= Cardinality(attempts) + 1
    BY <1>0, <2>1, FS_AddElement
  <2>3. Cardinality(attempts') \in Nat
    BY <2>2, FS_CardinalityType
  <2>4. Cardinality(attempts) < SIGN_CONCURRENCY
    BY <1>1 DEF Attempt, HasRoom
  <2> QED
    BY <1>0, <2>2, <2>3, <2>4, ConcurrencyAssumption DEF Bounded, AttemptsAreBounded
<1>2. CASE attempts' \subseteq attempts
  <2>1. IsFiniteSet(attempts') /\ Cardinality(attempts') <= Cardinality(attempts)
    BY <1>0, <1>2, FS_Subset
  <2>2. Cardinality(attempts') \in Nat
    BY <2>1, FS_CardinalityType
  <2> QED
    BY <1>0, <2>1, <2>2, ConcurrencyAssumption DEF Bounded, AttemptsAreBounded
<1> QED
  BY <1>1, <1>2
     DEF Next, vars, SignStep, KeyStep, Env, NoLeader, Signed, AttemptFailed, SignFails, Ask,
         KeyReturned, KeyMissed, KeyFails, GoDown, ComeBack, Drop, Ended, signVars

LEMMA NextIInv == IInv /\ [Next]_vars => IInv'
  BY TypeStep, CombinationsStep, UntriedStep, UnaskedStep, OneByOneStep, SignersStep,
     FailureStep, BoundedStep DEF IInv

-----------------------------------------------------------------------------

(***************************************************************************)
(* The invariant holds in every reachable state.                           *)
(***************************************************************************)
THEOREM InductiveInvariant == Spec => []IInv
  BY InitIInv, NextIInv, PTL DEF Spec

(***************************************************************************)
(* The variables of a request keep their types.                            *)
(***************************************************************************)
THEOREM TypeCorrect == Spec => []TypeOK
<1>1. IInv => TypeOK
  BY DEF IInv
<1> QED
  BY <1>1, InductiveInvariant, PTL

(***************************************************************************)
(* A signature comes from `threshold` servers of a single cluster, also    *)
(* when clusters share servers and their combinations share the stream.    *)
(***************************************************************************)
THEOREM OneCluster == Spec => []SignedByOneCluster
<1>1. IInv => SignedByOneCluster
  <2> SUFFICES ASSUME IInv, request = "sign", status = "ok"
               PROVE  \E c \in Clusters : /\ signers \subseteq ServersOf[c]
                                         /\ Cardinality(signers) = Threshold[c]
    BY DEF SignedByOneCluster
  <2>1. PICK c \in Clusters : signers \in Combinations(c)
    BY DEF IInv, SignersAreCombination
  <2>2. signers \subseteq live[c] /\ Cardinality(signers) = Threshold[c]
    BY <2>1 DEF Combinations
  <2>3. live[c] \subseteq ServersOf[c]
    BY DEF IInv, AreCombinations
  <2> QED
    BY <2>2, <2>3
<1> QED
  BY <1>1, InductiveInvariant, PTL

(***************************************************************************)
(* `sign` gives up only when no cluster could have signed: whatever the    *)
(* order of the combinations, the number tried at a time, the leaders and  *)
(* the servers that came and went.                                         *)
(***************************************************************************)
THEOREM SignGivesUpLast == Spec => []SignFailureIsRight
<1>1. IInv => SignFailureIsRight
  <2> SUFFICES ASSUME IInv, request = "sign", status = "err", NEW c \in Clusters,
                      NEW S \in SUBSET (live[c] \cap steady),
                      S # {}, Cardinality(S) = Threshold[c]
               PROVE  FALSE
    BY DEF SignFailureIsRight, CouldSign
  <2>1. live[c] \subseteq Server
    BY DEF IInv, TypeOK
  <2>2. S \in Combinations(c)
    BY <2>1, CombinationFacts
  <2> QED
    BY <2>2 DEF IInv, NothingCouldSign
<1> QED
  BY <1>1, InductiveInvariant, PTL

(***************************************************************************)
(* `get_public_key` gives up only when every listed server was away.       *)
(***************************************************************************)
THEOREM KeyGivesUpLast == Spec => []KeyFailureIsRight
<1>1. IInv => KeyFailureIsRight
  BY DEF IInv
<1> QED
  BY <1>1, InductiveInvariant, PTL

(***************************************************************************)
(* At most SIGN_CONCURRENCY attempts are open.                             *)
(***************************************************************************)
THEOREM BoundedAttempts == Spec => []AttemptsAreBounded
<1>1. IInv => AttemptsAreBounded
  BY DEF IInv, Bounded
<1> QED
  BY <1>1, InductiveInvariant, PTL
=============================================================================
