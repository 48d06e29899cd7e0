---------------------------- MODULE ClusterProofs ----------------------------
(***************************************************************************)
(* Theorems about Cluster, for any servers and any thresholds they report. *)
(***************************************************************************)
EXTENDS Cluster, TLAPS

(***************************************************************************)
(* Types of the variables that the proofs speak of.                        *)
(***************************************************************************)
TypeOK ==
  /\ up \subseteq Server /\ unasked \subseteq Server
  /\ found \in Seq(Server) /\ live \in Seq(Server)
  /\ phase \in {"init", "ready", "failed"}
  /\ job \in {"none", "select", "compute", "stopped"}
  /\ threshold \in Nat

(***************************************************************************)
(* The inductive invariant.  A round may last while servers come and go,   *)
(* so nothing about `up` alone survives it: what does is that the servers  *)
(* found and the servers that are up have all been up in this round.  One  *)
(* that was found is not asked again in it, so that the list which the     *)
(* round becomes names nobody twice.                                       *)
(***************************************************************************)
RoundWasUp == up \subseteq seenUp /\ SetOf(found) \subseteq seenUp

NoRepeats(seq) == \A i, j \in DOMAIN seq : seq[i] = seq[j] => i = j

FoundOnce == NoRepeats(found) /\ SetOf(found) \cap unasked = {}
ListedOnce == NoRepeats(live)

(***************************************************************************)
(* A cluster takes part only once a server has answered: its threshold is  *)
(* one that a configured server reported.                                  *)
(***************************************************************************)
ThresholdWasReported ==
  IF phase = "ready" THEN \E s \in Server : threshold = Reported[s] ELSE threshold = 0

IInv ==
  /\ TypeOK /\ RoundWasUp /\ FoundOnce /\ ListedOnce
  /\ ThresholdWasReported /\ LiveWasUp

-----------------------------------------------------------------------------

LEMMA AppendAdds ==
  ASSUME NEW S, NEW seq \in Seq(S), NEW e \in S
  PROVE  /\ Append(seq, e) \in Seq(S)
         /\ SetOf(Append(seq, e)) \subseteq SetOf(seq) \cup {e}
         /\ NoRepeats(seq) /\ e \notin SetOf(seq) => NoRepeats(Append(seq, e))
<1>1. /\ Append(seq, e) \in Seq(S)
      /\ DOMAIN Append(seq, e) = DOMAIN seq \cup {Len(seq) + 1}
      /\ Len(seq) + 1 \notin DOMAIN seq
      /\ Append(seq, e)[Len(seq) + 1] = e
      /\ \A i \in DOMAIN seq : Append(seq, e)[i] = seq[i]
  OBVIOUS
<1> QED
  BY <1>1 DEF SetOf, NoRepeats

LEMMA EmptyListsNobody == SetOf(<< >>) = {} /\ NoRepeats(<< >>)
  BY DEF SetOf, NoRepeats

LEMMA HeadIsMember ==
  ASSUME NEW S, NEW seq \in Seq(S), seq # << >>
  PROVE  Head(seq) \in S
  OBVIOUS

LEMMA InitInvariant == Init => IInv
<1> SUFFICES ASSUME Init PROVE IInv
  OBVIOUS
<1>1. TypeOK
  BY DEF Init, TypeOK
<1>2. RoundWasUp /\ LiveWasUp
  BY EmptyListsNobody DEF Init, RoundWasUp, LiveWasUp
<1>3. ThresholdWasReported
  BY DEF Init, ThresholdWasReported
<1>4. FoundOnce /\ ListedOnce
  BY EmptyListsNobody DEF Init, FoundOnce, ListedOnce
<1> QED
  BY <1>1, <1>2, <1>3, <1>4 DEF IInv

-----------------------------------------------------------------------------

(***************************************************************************)
(* The steps that leave the lists alone.                                   *)
(***************************************************************************)
LEMMA FlipKeeps ==
  ASSUME IInv, NEW s \in Server, Flip(s)
  PROVE  IInv'
<1> USE DEF IInv, Flip, listVars, jobVars
<1>1. TypeOK'
  BY DEF TypeOK
<1>2. RoundWasUp'
  BY DEF RoundWasUp, SetOf
<1>3. LiveWasUp'
  BY DEF LiveWasUp, SetOf
<1>4. ThresholdWasReported' /\ FoundOnce' /\ ListedOnce'
  BY DEF ThresholdWasReported, FoundOnce, ListedOnce, NoRepeats, SetOf
<1> QED
  BY <1>1, <1>2, <1>3, <1>4

LEMMA ProbeKeeps ==
  ASSUME IInv, NEW s \in Server, Probe(s)
  PROVE  IInv'
<1> USE DEF IInv, Probe, listVars, jobVars
<1>1. found \in Seq(Server)
  BY DEF TypeOK
<1>2. CASE Answers(s)
  <2>1. found' = Append(found, s) /\ s \in seenUp /\ seenUp' = seenUp /\ up' = up
    BY <1>2 DEF Answers, Listed, RoundWasUp
  <2>2. /\ Append(found, s) \in Seq(Server)
        /\ SetOf(Append(found, s)) \subseteq SetOf(found) \cup {s}
        /\ NoRepeats(Append(found, s))
    BY <1>1, AppendAdds DEF FoundOnce
  <2>3. TypeOK'
    BY <2>1, <2>2 DEF TypeOK
  <2>4. SetOf(found)' = SetOf(Append(found, s))
    BY <2>1 DEF SetOf
  <2>5. RoundWasUp'
    BY <2>1, <2>2, <2>4 DEF RoundWasUp
  <2>6. LiveWasUp' /\ ThresholdWasReported' /\ ListedOnce'
    BY DEF LiveWasUp, ThresholdWasReported, SetOf, ListedOnce, NoRepeats
  <2>7. FoundOnce'
    <3>1. NoRepeats(found)'
      BY <2>1, <2>2 DEF NoRepeats
    <3>2. SetOf(Append(found, s)) \cap (unasked \ {s}) = {}
      BY <2>2 DEF FoundOnce
    <3> QED
      BY <3>1, <3>2, <2>4 DEF FoundOnce
  <2> QED
    BY <2>3, <2>5, <2>6, <2>7
<1>3. CASE ~Answers(s)
  <2>1. found' = found /\ seenUp' = seenUp /\ up' = up
    BY <1>3
  <2>2. TypeOK' /\ RoundWasUp'
    BY <2>1 DEF TypeOK, RoundWasUp, SetOf
  <2>3. LiveWasUp' /\ ThresholdWasReported' /\ ListedOnce' /\ FoundOnce'
    BY <2>1 DEF LiveWasUp, ThresholdWasReported, SetOf, ListedOnce, FoundOnce, NoRepeats
  <2> QED
    BY <2>2, <2>3
<1> QED
  BY <1>2, <1>3

(***************************************************************************)
(* A finished round becomes the list.                                      *)
(***************************************************************************)
LEMMA EndRoundKeepsList ==
  ASSUME IInv, EndRound
  PROVE  LiveWasUp' /\ ListedOnce'
<1>1. SetOf(live)' = SetOf(found)
  BY DEF EndRound, SetOf
<1>2. LiveWasUp'
  BY <1>1 DEF IInv, RoundWasUp, EndRound, LiveWasUp
<1>3. ListedOnce'
  BY DEF IInv, FoundOnce, ListedOnce, NoRepeats, EndRound
<1> QED
  BY <1>2, <1>3

LEMMA InitReadyKeeps ==
  ASSUME IInv, InitReady
  PROVE  IInv'
<1> USE DEF IInv, InitReady, EndRound, roundVars
<1>1. found \in Seq(Server) /\ found # << >>
  BY DEF TypeOK
<1>2. Head(found) \in Server
  BY <1>1, HeadIsMember
<1>3. TypeOK'
  BY <1>2, ReportedAssumption DEF TypeOK
<1>4. RoundWasUp' /\ FoundOnce'
  BY DEF RoundWasUp, FoundOnce, NoRepeats, SetOf
<1>5. LiveWasUp' /\ ListedOnce'
  BY EndRoundKeepsList
<1>6. ThresholdWasReported'
  BY <1>2 DEF ThresholdWasReported
<1> QED
  BY <1>3, <1>4, <1>5, <1>6

LEMMA JobTicksKeeps ==
  ASSUME IInv, JobTicks
  PROVE  IInv'
<1> USE DEF IInv, JobTicks, StartRound, listVars
<1>1. TypeOK'
  BY DEF TypeOK
<1>2. RoundWasUp' /\ FoundOnce'
  <2>1. SetOf(found)' = SetOf(<< >>) /\ NoRepeats(found)'
    BY DEF SetOf, NoRepeats
  <2> QED
    BY <2>1, EmptyListsNobody DEF RoundWasUp, FoundOnce
<1>3. LiveWasUp' /\ ThresholdWasReported' /\ ListedOnce'
  BY DEF LiveWasUp, ThresholdWasReported, ListedOnce, NoRepeats, SetOf
<1> QED
  BY <1>1, <1>2, <1>3

LEMMA JobWritesKeeps ==
  ASSUME IInv, JobWrites
  PROVE  IInv'
<1> USE DEF IInv, JobWrites, EndRound, roundVars
<1>1. TypeOK'
  BY DEF TypeOK
<1>2. RoundWasUp' /\ ThresholdWasReported' /\ FoundOnce'
  BY DEF RoundWasUp, ThresholdWasReported, FoundOnce, NoRepeats, SetOf
<1>3. LiveWasUp' /\ ListedOnce'
  BY EndRoundKeepsList
<1> QED
  BY <1>1, <1>2, <1>3

LEMMA OthersKeep ==
  ASSUME IInv, InitFails \/ NextTick \/ JobCancelled \/ UNCHANGED vars
  PROVE  IInv'
<1> USE DEF IInv, TypeOK, RoundWasUp, FoundOnce, ListedOnce, NoRepeats,
            ThresholdWasReported, LiveWasUp, SetOf
<1>1. CASE InitFails
  BY <1>1 DEF InitFails, roundVars, listVars, jobVars
<1>2. CASE NextTick
  BY <1>2 DEF NextTick, roundVars, listVars
<1>3. CASE JobCancelled
  BY <1>3 DEF JobCancelled, roundVars, listVars
<1>4. CASE UNCHANGED vars
  BY <1>4 DEF vars, roundVars, listVars, jobVars
<1> QED
  BY <1>1, <1>2, <1>3, <1>4

LEMMA NextKeeps == IInv /\ [Next]_vars => IInv'
<1> SUFFICES ASSUME IInv, [Next]_vars PROVE IInv'
  OBVIOUS
<1>1. ASSUME NEW s \in Server, Flip(s) PROVE IInv'
  BY <1>1, FlipKeeps
<1>2. ASSUME NEW s \in Server, Probe(s) PROVE IInv'
  BY <1>2, ProbeKeeps
<1>3. CASE InitReady
  BY <1>3, InitReadyKeeps
<1>4. CASE JobTicks
  BY <1>4, JobTicksKeeps
<1>5. CASE JobWrites
  BY <1>5, JobWritesKeeps
<1>6. CASE InitFails \/ NextTick \/ JobCancelled \/ UNCHANGED vars
  BY <1>6, OthersKeep
<1> QED
  BY <1>1, <1>2, <1>3, <1>4, <1>5, <1>6 DEF Next

THEOREM Invariant == Spec => []IInv
  BY InitInvariant, NextKeeps, PTL DEF Spec

-----------------------------------------------------------------------------

(***************************************************************************)
(* The variables hold values of their types.                               *)
(***************************************************************************)
THEOREM TypeCorrect == Spec => []TypeOK
<1>1. IInv => TypeOK
  BY DEF IInv
<1> QED
  BY <1>1, Invariant, PTL

(***************************************************************************)
(* However many servers there are and however they flap, a listed one was  *)
(* up at some moment of the round that listed it.                          *)
(***************************************************************************)
THEOREM ListIsHonest == Spec => []LiveWasUp
<1>1. IInv => LiveWasUp
  BY DEF IInv
<1> QED
  BY <1>1, Invariant, PTL

(***************************************************************************)
(* The threshold of a cluster in use is one that a server of it reported;  *)
(* before, it is zero.                                                     *)
(***************************************************************************)
THEOREM ThresholdIsReported == Spec => []ThresholdWasReported
<1>1. IInv => ThresholdWasReported
  BY DEF IInv
<1> QED
  BY <1>1, Invariant, PTL

(***************************************************************************)
(* ClusterManager takes for granted of a snapshot that it lists configured *)
(* servers, and none more often than the configuration does, so that the   *)
(* combinations of its entries are sets of servers.                        *)
(***************************************************************************)
IsSnapshot(seq) == SetOf(seq) \subseteq Server /\ NoRepeats(seq)

THEOREM ListIsSnapshot == Spec => []IsSnapshot(live)
<1>1. IInv => IsSnapshot(live)
  BY DEF IInv, TypeOK, ListedOnce, IsSnapshot, SetOf
<1> QED
  BY <1>1, Invariant, PTL

=============================================================================
