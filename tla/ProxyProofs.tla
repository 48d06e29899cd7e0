----------------------------- MODULE ProxyProofs -----------------------------
(***************************************************************************)
(* Theorems about Proxy, for any requests, bodies, clusters and limits.    *)
(***************************************************************************)
EXTENDS Proxy, FiniteSetTheorems, FunctionTheorems, TLAPS

(***************************************************************************)
(* How a request ends: the step that ends it, told by its answer.          *)
(***************************************************************************)
Justified(r, a) ==
  /\ a \in Answers \ {"none"}
  /\ a \in {"rejected", "refused", "closed"} => stage[r] # "asking"
  /\ a = "signed" => body[r].endpoint \in Signing /\ attempts[r] # {}
  /\ a = "created" => transaction[r] = "executed"
  /\ a = "timeout" => Overdue(r)

LEMMA Endings ==
  ASSUME NEW r \in Request, Ends(r) \/ Leaves(r)
  PROVE  \E a : UnderWay(r) /\ Finishes(r, a) /\ Justified(r, a)
<1> USE DEF UnderWay, At, Justified, Answers
<1>1. CASE HealthAnswered(r)
  <2>1. UnderWay(r) /\ Finishes(r, "health") /\ Justified(r, "health")
    BY <1>1 DEF HealthAnswered
  <2> QED BY <2>1
<1>2. CASE BodyRejected(r)
  <2>1. UnderWay(r) /\ Finishes(r, "rejected") /\ Justified(r, "rejected")
    BY <1>2 DEF BodyRejected, BodyComplete
  <2> QED BY <2>1
<1>3. CASE BodyPanics(r)
  <2>1. UnderWay(r) /\ Finishes(r, "closed") /\ Justified(r, "closed")
    BY <1>3 DEF BodyPanics, BodyComplete
  <2> QED BY <2>1
<1>4. CASE Refused(r)
  <2>1. UnderWay(r) /\ Finishes(r, "refused") /\ Justified(r, "refused")
    BY <1>4 DEF Refused
  <2> QED BY <2>1
<1>5. CASE VerifyPanics(r)
  <2>1. UnderWay(r) /\ Finishes(r, "closed") /\ Justified(r, "closed")
    BY <1>5 DEF VerifyPanics
  <2> QED BY <2>1
<1>6. ASSUME NEW t \in attempts[r], Answered(r, t)
      PROVE  \E a : UnderWay(r) /\ Finishes(r, a) /\ Justified(r, a)
  <2>1. CASE body[r].endpoint \in Signing
    <3>1. UnderWay(r) /\ Finishes(r, "signed") /\ Justified(r, "signed")
      BY <1>6, <2>1 DEF Answered
    <3> QED BY <3>1
  <2>2. CASE body[r].endpoint \notin Signing
    <3>1. UnderWay(r) /\ Finishes(r, "key") /\ Justified(r, "key")
      BY <1>6, <2>2 DEF Answered
    <3> QED BY <3>1
  <2> QED BY <2>1, <2>2
<1>7. CASE GivesUp(r)
  <2>1. UnderWay(r) /\ Finishes(r, "mpc error") /\ Justified(r, "mpc error")
    BY <1>7 DEF GivesUp, AllMissed
  <2> QED BY <2>1
<1>8. CASE NoWorker(r)
  <2>1. UnderWay(r) /\ Finishes(r, "closed") /\ Justified(r, "closed")
    BY <1>8 DEF NoWorker
  <2> QED BY <2>1
<1>9. CASE NearReplies(r)
  <2>1. CASE transaction[r] = "executed"
    <3>1. UnderWay(r) /\ Finishes(r, "created") /\ Justified(r, "created")
      BY <1>9, <2>1 DEF NearReplies, IntoResult
    <3> QED BY <3>1
  <2>2. CASE transaction[r] # "executed"
    <3>1. UnderWay(r) /\ Finishes(r, "near error") /\ Justified(r, "near error")
      BY <1>9, <2>2 DEF NearReplies, IntoResult
    <3> QED BY <3>1
  <2> QED BY <2>1, <2>2
<1>10. CASE NearErrs(r)
  <2>1. UnderWay(r) /\ Finishes(r, "near error") /\ Justified(r, "near error")
    BY <1>10 DEF NearErrs
  <2> QED BY <2>1
<1>11. CASE TimesOut(r)
  <2>1. UnderWay(r) /\ Finishes(r, "timeout") /\ Justified(r, "timeout")
    BY <1>11 DEF TimesOut
  <2> QED BY <2>1
<1>12. CASE Leaves(r)
  <2>1. UnderWay(r) /\ Finishes(r, "left") /\ Justified(r, "left")
    BY <1>12 DEF Leaves
  <2> QED BY <2>1
<1> QED
  BY <1>1, <1>2, <1>3, <1>4, <1>5, <1>6, <1>7, <1>8, <1>9, <1>10, <1>11, <1>12 DEF Ends

(***************************************************************************)
(* The kinds of steps: of the process, of one request, of time.            *)
(***************************************************************************)
ProcessMoves == (ProcessStep \/ Exit \/ UNCHANGED vars) /\ UNCHANGED requestVars

LEMMA StepKinds ==
  ASSUME [Next]_vars
  PROVE  \/ ProcessMoves
         \/ \E r \in Request : \E a : UnderWay(r) /\ Finishes(r, a) /\ Justified(r, a)
         \/ \E r \in Request : \E b \in Bodies[r] : Arrives(r, b)
         \/ \E r \in Request :
              \/ BodyAccepted(r) \/ Verified(r) \/ Ask(r)
              \/ \E m \in Message : RecordRead(r, m)
              \/ \E t \in attempts[r] : Missed(r, t)
              \/ Sends(r) \/ NearExecutes(r)
         \/ Tick
<1>1. CASE ProcessStep /\ UNCHANGED requestVars
  BY <1>1 DEF ProcessMoves
<1>2. CASE \E r \in Request : Ends(r) \/ Leaves(r)
  BY <1>2, Endings
<1>3. CASE Exit \/ Gone \/ UNCHANGED vars
  BY <1>3 DEF Exit, Gone, vars, ProcessMoves
<1> QED
  BY <1>1, <1>2, <1>3 DEF Next, Proceeds

(***************************************************************************)
(* Once the process serves, its clusters are what they are.                *)
(***************************************************************************)
LEMMA ClustersStay ==
  ASSUME ProcessMoves, phase \in {"serving", "stopping", "exited"}
  PROVE  cluster' = cluster /\ phase' \in {"serving", "stopping", "exited"}
<1>1. ~(phase \in Starting)
  BY DEF Starting
<1> QED
  BY <1>1 DEF ProcessMoves, ProcessStep, StartStep, KeyTyped, VerifiersBuilt, VerifiersFail,
     BeginInitialisation, Initialised, ClustersReady, AllClustersFail, Bound, BindFails,
     KilledBySignal, shutdown_signal, Goto, Exit, vars, startVars, Starting

-----------------------------------------------------------------------------

(***************************************************************************)
(* What the stage of a request says of the rest of it.                     *)
(***************************************************************************)
Life ==
  \A r \in Request :
    /\ stage[r] # "idle" => body[r] \in Body /\ phase \in {"serving", "stopping", "exited"}
    /\ stage[r] = "idle" => transaction[r] = "none"
    /\ stage[r] = "verifying" => body[r].endpoint \in Signing
    /\ stage[r] = "asking" => body[r].endpoint \in Signing \cup {"public_key"}
    /\ stage[r] = "asking" /\ body[r].endpoint = "withdraw" => record[r] # NoRecord
    /\ stage[r] = "near" => body[r].endpoint = "create_wallet"
    /\ attempts[r] # {} => stage[r] = "asking"
    /\ answer[r] # "none" => stage[r] = "ended"

(***************************************************************************)
(* Types.                                                                  *)
(***************************************************************************)
LEMMA ProcessKeepsTypes ==
  ASSUME StartTypeOK, ProcessStep \/ Exit \/ UNCHANGED vars
  PROVE  StartTypeOK'
<1> USE DEF StartTypeOK, Goto, Becomes
<1>1. CASE ProcessStep
  <2>1. ASSUME NEW c \in ClusterName, BeginInitialisation(c) \/ Initialised(c)
        PROVE  StartTypeOK'
    BY <2>1 DEF BeginInitialisation, Initialised
  <2>2. CASE ClustersReady
    BY <2>2 DEF ClustersReady, Starting
  <2> QED
    BY <1>1, <2>1, <2>2 DEF ProcessStep, StartStep, KeyTyped, VerifiersBuilt, VerifiersFail,
       AllClustersFail, Bound, BindFails, KilledBySignal, shutdown_signal, Starting
<1>2. CASE Exit
  BY <1>2 DEF Exit
<1>3. CASE UNCHANGED vars
  BY <1>3 DEF vars, startVars
<1> QED
  BY <1>1, <1>2, <1>3

LEMMA InitTypes == Init => TypeOK
  BY BodyAssumption, LimitsAssumption
  DEF Init, StartInit, TypeOK, StartTypeOK, Starting, Answers

LEMMA InitLife == Init => Life
  BY DEF Init, Life

LEMMA SignedFields ==
  ASSUME NEW b \in Body
  PROVE  /\ b.endpoint \in Endpoint /\ b.message \in Message /\ b.wallet \in Wallet
         /\ UidOf(b) \in Uid /\ WalletOf[UidOf(b)] \in Wallet /\ ProofModel(b) \in Proof
<1>1. b.endpoint \in Endpoint /\ b.message \in Message /\ b.wallet \in Wallet
      /\ b.uid \in Uid /\ b.proof \in Proof
  BY BodyAssumption
<1>2. UidOf(b) \in Uid
  BY <1>1, ConversionAssumption DEF UidOf
<1> QED
  BY <1>1, <1>2, ConversionAssumption DEF ProofModel

LEMMA MessageFields ==
  ASSUME TypeOK, NEW r \in Request, body[r] \in Body,
         body[r].endpoint = "withdraw" => record[r] # NoRecord
  PROVE  MessageOf(r) \in Message
<1>1. ProofModel(body[r]) \in Proof /\ body[r].message \in Message
  BY SignedFields
<1>2. record[r] \in Message \cup {NoRecord}
  BY DEF TypeOK
<1> QED
  BY <1>1, <1>2, ConversionAssumption DEF MessageOf

LEMMA StepTypes ==
  ASSUME TypeOK, Life, [Next]_vars
  PROVE  TypeOK'
<1> USE DEF requestVars, timeVars, historyVars, nearVars, startVars
<1>1. CASE ProcessMoves
  <2>1. StartTypeOK'
    BY <1>1, ProcessKeepsTypes DEF ProcessMoves, TypeOK
  <2> QED
    BY <1>1, <2>1 DEF ProcessMoves, TypeOK
<1>2. ASSUME NEW r \in Request, NEW a, UnderWay(r), Finishes(r, a), Justified(r, a)
      PROVE  TypeOK'
  BY <1>2, LimitsAssumption DEF Finishes, Justified, TypeOK, StartTypeOK
<1>3. ASSUME NEW r \in Request, NEW b \in Bodies[r], Arrives(r, b)
      PROVE  TypeOK'
  <2>1. b \in Body
    BY BodyAssumption
  <2> QED
    BY <1>3, <2>1 DEF Arrives, TypeOK, StartTypeOK
<1>4. ASSUME NEW r \in Request, BodyAccepted(r)
      PROVE  TypeOK'
  <2>1. FirstStage(body[r]) \in {"verifying", "asking", "near"}
    BY DEF FirstStage
  <2> QED
    BY <1>4, <2>1 DEF BodyAccepted, Enters, TypeOK, StartTypeOK
<1>5. ASSUME NEW r \in Request, Verified(r)
      PROVE  TypeOK'
  <2>1. body[r] \in Body
    BY <1>5 DEF Verified, At, Life
  <2>2. Checked(r) \in [request : Request, wallet : Wallet, message : Message, proof : Proof]
    BY <1>5, <2>1, SignedFields, MessageFields DEF Checked, Verified, Verifying
  <2> QED
    BY <1>5, <2>2 DEF Verified, Enters, TypeOK, StartTypeOK
<1>6. ASSUME NEW r \in Request, Ask(r)
      PROVE  TypeOK'
  <2>1. body[r] \in Body
    BY <1>6 DEF Ask, At, Life
  <2>2. Sent(r) \subseteq [request : Request, uid : Uid, message : Message, proof : Proof]
    BY <1>6, <2>1, SignedFields, MessageFields DEF Sent, Ask, At, Life
  <2>3. begun' \in [Request -> Nat]
    BY <1>6 DEF Ask, TypeOK
  <2>4. attempts' \in [Request -> SUBSET [number : Nat, age : 0 .. TIMEOUT]]
    <3>1. [number |-> begun[r] + 1, age |-> 0] \in [number : Nat, age : 0 .. TIMEOUT]
      BY LimitsAssumption DEF TypeOK
    <3> QED
      BY <1>6, <3>1 DEF Ask, TypeOK
  <2> QED
    BY <1>6, <2>2, <2>3, <2>4 DEF Ask, TypeOK, StartTypeOK
<1>7. ASSUME NEW r \in Request, NEW t \in attempts[r], Missed(r, t)
      PROVE  TypeOK'
  BY <1>7 DEF Missed, TypeOK, StartTypeOK
<1>8. ASSUME NEW r \in Request, Sends(r)
      PROVE  TypeOK'
  BY <1>8 DEF Sends, TypeOK, StartTypeOK
<1>9. ASSUME NEW r \in Request, NearExecutes(r)
      PROVE  TypeOK'
  <2>1. body[r] \in Body
    BY <1>9 DEF NearExecutes, Life
  <2>2. body[r].wallet \in Wallet
    BY <2>1, SignedFields
  <2> QED
    BY <1>9, <2>2 DEF NearExecutes, TypeOK, StartTypeOK
<1>10. CASE Tick
  <2>1. age' \in [Request -> 0 .. ServiceLimit]
    BY <1>10, LimitsAssumption DEF Tick, TypeOK, Older
  <2>2. ASSUME NEW r \in Request, NEW t \in attempts[r]
        PROVE  [number |-> t.number, age |-> t.age + 1] \in [number : Nat, age : 0 .. TIMEOUT]
    <3>1. t \in [number : Nat, age : 0 .. TIMEOUT]
      BY DEF TypeOK
    <3>2. UnderWay(r) /\ ~Urgent(r)
      BY <1>10 DEF Tick, UnderWay, Life
    <3>3. t.age # TIMEOUT
      BY <3>2 DEF Urgent, AttemptEnds
    <3> QED
      BY <3>1, <3>3, LimitsAssumption
  <2>3. attempts' \in [Request -> SUBSET [number : Nat, age : 0 .. TIMEOUT]]
    BY <1>10, <2>2 DEF Tick
  <2> QED
    BY <1>10, <2>1, <2>3 DEF Tick, TypeOK, StartTypeOK
<1>11. ASSUME NEW r \in Request, NEW m \in Message, RecordRead(r, m)
       PROVE  TypeOK'
  BY <1>11 DEF RecordRead, Enters, TypeOK, StartTypeOK
<1> QED
  BY <1>1, <1>2, <1>3, <1>4, <1>5, <1>6, <1>7, <1>8, <1>9, <1>10, <1>11, StepKinds

LEMMA StepLife ==
  ASSUME TypeOK, Life, [Next]_vars
  PROVE  Life'
<1> USE DEF requestVars, timeVars, historyVars, nearVars, startVars
<1>1. CASE ProcessMoves
  <2>1. phase \in {"serving", "stopping", "exited"} => phase' \in {"serving", "stopping", "exited"}
    BY <1>1, ClustersStay
  <2> QED
    BY <1>1, <2>1 DEF ProcessMoves, Life
<1>2. ASSUME NEW r \in Request, NEW a, UnderWay(r), Finishes(r, a), Justified(r, a)
      PROVE  Life'
  BY <1>2 DEF Finishes, UnderWay, Life, TypeOK
<1>3. ASSUME NEW r \in Request, NEW b \in Bodies[r], Arrives(r, b)
      PROVE  Life'
  <2>1. b \in Body
    BY BodyAssumption
  <2> QED
    BY <1>3, <2>1 DEF Arrives, Life, TypeOK
<1>4. ASSUME NEW r \in Request, BodyAccepted(r)
      PROVE  Life'
  <2>1. body[r] \in Body /\ body[r].endpoint \in Endpoint
    BY <1>4, SignedFields DEF BodyAccepted, BodyComplete, At, Life
  <2>2. /\ FirstStage(body[r]) = "verifying" => body[r].endpoint \in Signing
        /\ FirstStage(body[r]) = "asking" => body[r].endpoint = "public_key"
        /\ FirstStage(body[r]) = "near" => body[r].endpoint = "create_wallet"
        /\ FirstStage(body[r]) # "idle"
    BY <1>4, <2>1 DEF FirstStage, BodyAccepted, BodyComplete, HasBody, Endpoint, Signing,
       Verifying
  <2> QED
    BY <1>4, <2>1, <2>2 DEF BodyAccepted, BodyComplete, At, Enters, Life, TypeOK
<1>5. ASSUME NEW r \in Request, Verified(r)
      PROVE  Life'
  BY <1>5 DEF Verified, At, Enters, Life, TypeOK, Verifying
<1>6. ASSUME NEW r \in Request, Ask(r)
      PROVE  Life'
  BY <1>6 DEF Ask, At, Life, TypeOK
<1>7. ASSUME NEW r \in Request, NEW t \in attempts[r], Missed(r, t)
      PROVE  Life'
  BY <1>7 DEF Missed, At, Life, TypeOK
<1>8. ASSUME NEW r \in Request, Sends(r)
      PROVE  Life'
  BY <1>8 DEF Sends, At, Life, TypeOK
<1>9. ASSUME NEW r \in Request, NearExecutes(r)
      PROVE  Life'
  BY <1>9 DEF NearExecutes, Life, TypeOK
<1>10. CASE Tick
  BY <1>10 DEF Tick, Life, TypeOK
<1>11. ASSUME NEW r \in Request, NEW m \in Message, RecordRead(r, m)
       PROVE  Life'
  BY <1>11, ConversionAssumption DEF RecordRead, At, Enters, Life, TypeOK
<1> QED
  BY <1>1, <1>2, <1>3, <1>4, <1>5, <1>6, <1>7, <1>8, <1>9, <1>10, <1>11, StepKinds

(***************************************************************************)
(* The variables keep their types, and a request's stage says what its     *)
(* other parts may hold.                                                   *)
(***************************************************************************)
THEOREM TypeCorrect == Spec => [](TypeOK /\ Life)
<1>1. Init => TypeOK /\ Life
  BY InitTypes, InitLife
<1>2. TypeOK /\ Life /\ [Next]_vars => (TypeOK /\ Life)'
  BY StepTypes, StepLife
<1> QED
  BY <1>1, <1>2, PTL DEF Spec

-----------------------------------------------------------------------------

(***************************************************************************)
(* What has been verified, read and asked.  A request that asks MPC        *)
(* servers for a signature has had its proof verified, or, for a           *)
(* withdrawal, its record read, and what was asked in it remains in the    *)
(* history.                                                                *)
(***************************************************************************)
IsOf(x, r) == x.request = r /\ x.uid = UidOf(body[r]) /\ x.message = MessageOf(r)

VerifiedBefore ==
  \A r \in Request :
    stage[r] = "asking" /\ body[r].endpoint \in Verifying => Checked(r) \in verified

AskedInTime ==
  \A x \in asked :
    /\ x.request \in Request
    /\ stage[x.request] \in {"asking", "ended"}
    /\ answer[x.request] \notin {"rejected", "refused", "closed"}

AskedFirst ==
  \A r \in Request :
    \/ attempts[r] # {} /\ body[r].endpoint \in Signing
    \/ answer[r] = "signed"
    => \E x \in asked : IsOf(x, r)

Flow == VerifiedBefore /\ OnlyVerifiedIsAsked /\ AskedInTime /\ AskedFirst

LEMMA InitFlow == Init => Flow
  BY DEF Init, Flow, VerifiedBefore, OnlyVerifiedIsAsked, AskedInTime, AskedFirst

LEMMA AskFlow ==
  ASSUME TypeOK, Life, Flow, NEW r \in Request, Ask(r)
  PROVE  Flow'
<1> USE DEF startVars, nearVars
<1>1. stage[r] = "asking" /\ answer[r] = "none" /\ asked' = asked \cup Sent(r)
  BY DEF Ask, At, Life
<1>2. UNCHANGED <<stage, body, answer, verified, record>>
  BY DEF Ask
<1>3. VerifiedBefore'
  BY <1>2 DEF Flow, VerifiedBefore, Checked, ProofModel, UidOf, MessageOf
<1>4. OnlyVerifiedIsAsked'
  <2>1. ASSUME NEW x \in Sent(r)
        PROVE  WasVerified(x) \/ WasRead(x)
    <3>1. /\ body[r].endpoint \in Signing
          /\ x = [request |-> r, uid |-> UidOf(body[r]), message |-> MessageOf(r),
                  proof |-> ProofModel(body[r])]
      BY <2>1 DEF Sent
    <3>2. CASE body[r].endpoint \in Verifying
      BY <1>1, <3>1, <3>2 DEF Flow, VerifiedBefore, Checked, WasVerified
    <3>3. CASE body[r].endpoint = "withdraw"
      <4>1. record[r] # NoRecord /\ MessageOf(r) = record[r] /\ UidOf(body[r]) = bridge_withdraw
        BY <1>1, <3>3 DEF Life, MessageOf, UidOf
      <4> QED
        BY <3>1, <3>3, <4>1 DEF WasRead
    <3> QED
      BY <3>1, <3>2, <3>3 DEF Signing
  <2>2. \A x : (WasVerified(x) => WasVerified(x)') /\ (WasRead(x) => WasRead(x)')
    BY <1>2 DEF WasVerified, WasRead, ProofModel
  <2> QED
    BY <1>1, <1>2, <2>1, <2>2 DEF Flow, OnlyVerifiedIsAsked
<1>5. AskedInTime'
  <2>1. \A x \in Sent(r) : x.request = r
    BY DEF Sent
  <2> QED
    BY <1>1, <1>2, <2>1 DEF Flow, AskedInTime
<1>6. AskedFirst'
  <2>1. ASSUME NEW s \in Request, body'[s].endpoint \in Signing, attempts'[s] # {}
        PROVE  \E x \in asked' : IsOf(x, s)'
    <3>1. CASE s = r
      <4>1. \E x \in Sent(r) : IsOf(x, r)
        BY <1>2, <2>1, <3>1 DEF Sent, IsOf
      <4> QED
        BY <1>1, <1>2, <3>1, <4>1 DEF IsOf, UidOf, MessageOf, ProofModel
    <3>2. CASE s # r
      <4>1. attempts'[s] = attempts[s]
        BY <3>2 DEF Ask, TypeOK
      <4> QED
        BY <1>1, <1>2, <2>1, <4>1 DEF Flow, AskedFirst, IsOf, UidOf, MessageOf, ProofModel
    <3> QED BY <3>1, <3>2
  <2>2. ASSUME NEW s \in Request, answer'[s] = "signed"
        PROVE  \E x \in asked' : IsOf(x, s)'
    BY <1>1, <1>2, <2>2 DEF Flow, AskedFirst, IsOf, UidOf, MessageOf, ProofModel
  <2> QED
    BY <2>1, <2>2 DEF AskedFirst
<1> QED
  BY <1>3, <1>4, <1>5, <1>6 DEF Flow

LEMMA EndFlow ==
  ASSUME TypeOK, Life, Flow, NEW r \in Request, NEW a,
         UnderWay(r), Finishes(r, a), Justified(r, a)
  PROVE  Flow'
<1> USE DEF startVars, historyVars, nearVars
<1>1. UNCHANGED <<body, verified, record, asked>>
  BY DEF Finishes
<1>2. stage' = [stage EXCEPT ![r] = "ended"] /\ answer' = [answer EXCEPT ![r] = a]
      /\ attempts' = [attempts EXCEPT ![r] = {}]
  BY DEF Finishes
<1>3. VerifiedBefore'
  BY <1>1, <1>2 DEF TypeOK, Flow, VerifiedBefore, Checked, ProofModel, UidOf, MessageOf
<1>4. OnlyVerifiedIsAsked'
  BY <1>1 DEF Flow, OnlyVerifiedIsAsked, WasVerified, WasRead, ProofModel
<1>5. AskedInTime'
  <2>1. ASSUME NEW x \in asked, x.request = r
        PROVE  a \notin {"rejected", "refused", "closed"}
    BY <2>1 DEF Flow, AskedInTime, Justified, UnderWay
  <2> QED
    BY <1>1, <1>2, <2>1 DEF TypeOK, Flow, AskedInTime
<1>6. AskedFirst'
  <2>1. a = "signed" => \E x \in asked : IsOf(x, r)
    BY DEF Justified, Flow, AskedFirst
  <2> QED
    BY <1>1, <1>2, <2>1 DEF TypeOK, Flow, AskedFirst, IsOf, UidOf, MessageOf, ProofModel
<1> QED
  BY <1>3, <1>4, <1>5, <1>6 DEF Flow

LEMMA StepFlow ==
  ASSUME TypeOK, Life, Flow, [Next]_vars
  PROVE  Flow'
<1> USE DEF requestVars, timeVars, historyVars, nearVars, startVars, Flow, VerifiedBefore,
            OnlyVerifiedIsAsked, AskedInTime, AskedFirst, IsOf, Checked, ProofModel,
            UidOf, MessageOf, WasVerified, WasRead
<1>1. CASE ProcessMoves
  BY <1>1 DEF ProcessMoves
<1>2. ASSUME NEW r \in Request, NEW b \in Bodies[r], Arrives(r, b)
      PROVE  Flow'
  <2>1. attempts[r] = {} /\ answer[r] = "none" /\ stage[r] = "idle"
    BY <1>2 DEF Arrives, Life
  <2>2. \A x \in asked : x.request # r
    BY <2>1
  <2>3. \A s \in Request \ {r} : stage'[s] = stage[s] /\ body'[s] = body[s]
    BY <1>2 DEF Arrives, TypeOK
  <2>4. UNCHANGED <<attempts, answer, verified, record, asked>> /\ stage'[r] = "reading"
    BY <1>2 DEF Arrives, TypeOK
  <2>5. VerifiedBefore'
    BY <2>3, <2>4
  <2>6. OnlyVerifiedIsAsked' /\ AskedInTime'
    BY <2>2, <2>3, <2>4
  <2>7. AskedFirst'
    BY <2>1, <2>2, <2>3, <2>4
  <2> QED
    BY <2>5, <2>6, <2>7
<1>3. ASSUME NEW r \in Request, BodyAccepted(r)
      PROVE  Flow'
  <2>1. body[r].endpoint \in Verifying => FirstStage(body[r]) # "asking"
    BY DEF FirstStage, Signing, Verifying
  <2>2. stage[r] = "reading"
    BY <1>3 DEF BodyAccepted, BodyComplete, At
  <2> QED
    BY <1>3, <2>1, <2>2 DEF BodyAccepted, Enters, TypeOK
<1>4. ASSUME NEW r \in Request, Verified(r)
      PROVE  Flow'
  BY <1>4 DEF Verified, At, Enters, TypeOK
<1>5. ASSUME NEW r \in Request, NEW t \in attempts[r], Missed(r, t)
      PROVE  Flow'
  BY <1>5 DEF Missed, TypeOK
<1>6. ASSUME NEW r \in Request, Sends(r) \/ NearExecutes(r)
      PROVE  Flow'
  BY <1>6 DEF Sends, NearExecutes
<1>7. CASE Tick
  <2>1. \A r \in Request : attempts'[r] # {} => attempts[r] # {}
    BY <1>7 DEF Tick
  <2> QED
    BY <1>7, <2>1 DEF Tick
<1>8. ASSUME NEW r \in Request, NEW m \in Message, RecordRead(r, m)
      PROVE  Flow'
  <2>1. stage[r] = "verifying" /\ attempts[r] = {} /\ answer[r] = "none"
        /\ body[r].endpoint = "withdraw"
    BY <1>8 DEF RecordRead, At, Life
  <2>2. \A x \in asked : x.request # r
    BY <2>1
  <2> QED
    BY <1>8, <2>1, <2>2 DEF RecordRead, At, Enters, TypeOK, Verifying
<1> QED
  BY <1>1, <1>2, <1>3, <1>4, <1>5, <1>6, <1>7, <1>8, AskFlow, EndFlow, StepKinds

(***************************************************************************)
(* An MPC server is only asked to sign what was verified in that request,  *)
(* or, by /withdraw/sign, for the transfer that NEAR returned to it.       *)
(***************************************************************************)
THEOREM VerifiedFirst == Spec => []OnlyVerifiedIsAsked
<1>1. Init => TypeOK /\ Life /\ Flow
  BY InitTypes, InitLife, InitFlow
<1>2. TypeOK /\ Life /\ Flow /\ [Next]_vars => (TypeOK /\ Life /\ Flow)'
  BY StepTypes, StepLife, StepFlow
<1>3. Flow => OnlyVerifiedIsAsked
  BY DEF Flow
<1> QED
  BY <1>1, <1>2, <1>3, PTL DEF Spec

-----------------------------------------------------------------------------

(***************************************************************************)
(* The registry on NEAR: whoever created a wallet did so alone.            *)
(***************************************************************************)
Created(r) == transaction[r] = "executed"

Registry ==
  /\ \A r \in Request : transaction[r] # "none" => stage[r] # "idle"
  /\ \A r \in Request : Created(r) => body[r].wallet \in wallets
  /\ \A r, s \in Request : Created(r) /\ Created(s) /\ r # s => body[r].wallet # body[s].wallet
  /\ \A r \in Request : answer[r] = "created" => Created(r)

LEMMA InitRegistry == Init => Registry
  BY DEF Init, Registry, Created

LEMMA StepRegistry ==
  ASSUME TypeOK, Life, Registry, [Next]_vars
  PROVE  Registry'
<1> USE DEF requestVars, timeVars, historyVars, nearVars, startVars, Registry, Created
<1>1. CASE ProcessMoves
  BY <1>1 DEF ProcessMoves
<1>2. ASSUME NEW r \in Request, NEW a, UnderWay(r), Finishes(r, a), Justified(r, a)
      PROVE  Registry'
  BY <1>2 DEF Finishes, Justified, TypeOK
<1>3. ASSUME NEW r \in Request, NEW b \in Bodies[r], Arrives(r, b)
      PROVE  Registry'
  <2>1. transaction[r] = "none"
    BY <1>3 DEF Arrives, Life
  <2> QED
    BY <1>3, <2>1 DEF Arrives, TypeOK
<1>4. ASSUME NEW r \in Request,
             BodyAccepted(r) \/ Verified(r) \/ \E m \in Message : RecordRead(r, m)
      PROVE  Registry'
  <2>1. FirstStage(body[r]) # "idle"
    BY DEF FirstStage
  <2> QED
    BY <1>4, <2>1 DEF BodyAccepted, Verified, RecordRead, Enters, TypeOK
<1>5. ASSUME NEW r \in Request, Ask(r) \/ \E t \in attempts[r] : Missed(r, t)
      PROVE  Registry'
  BY <1>5 DEF Ask, Missed
<1>6. ASSUME NEW r \in Request, Sends(r)
      PROVE  Registry'
  BY <1>6 DEF Sends, At, TypeOK
<1>7. ASSUME NEW r \in Request, NearExecutes(r)
      PROVE  Registry'
  <2>1. CASE body[r].wallet \in wallets
    BY <1>7, <2>1 DEF NearExecutes, TypeOK
  <2>2. CASE body[r].wallet \notin wallets
    <3>1. \A s \in Request : Created(s) => body[s].wallet # body[r].wallet
      BY <2>2
    <3> QED
      BY <1>7, <2>2, <3>1 DEF NearExecutes, TypeOK
  <2> QED BY <2>1, <2>2
<1>8. CASE Tick
  BY <1>8 DEF Tick
<1> QED
  BY <1>1, <1>2, <1>3, <1>4, <1>5, <1>6, <1>7, <1>8, StepKinds

(***************************************************************************)
(* Answers mean what they say.                                             *)
(***************************************************************************)
THEOREM TruthfulAnswers == Spec => []AnswersAreTrue
<1>1. Init => TypeOK /\ Life /\ Flow /\ Registry
  BY InitTypes, InitLife, InitFlow, InitRegistry
<1>2. TypeOK /\ Life /\ Flow /\ Registry /\ [Next]_vars => (TypeOK /\ Life /\ Flow /\ Registry)'
  BY StepTypes, StepLife, StepFlow, StepRegistry
<1>3. Flow /\ Registry => AnswersAreTrue
  BY DEF Flow, AskedInTime, AskedFirst, IsOf, Registry, Created, AnswersAreTrue
<1> QED
  BY <1>1, <1>2, <1>3, PTL DEF Spec
-----------------------------------------------------------------------------

(***************************************************************************)
(* Time.  A request asks from Start on; attempt number n is begun after as *)
(* many whole rounds as fit before it, and each round takes TIMEOUT.       *)
(***************************************************************************)
Start(r) == readAt[r] + VerifyTime(body[r])

ByRound(n, r, late) ==
  \A j \in Nat : n <= Slots(body[r]) * (j + 1) => age[r] <= Start(r) + j * TIMEOUT + late

Numbered(r) ==
  /\ begun[r] <= Jobs(body[r])
  /\ \A t \in attempts[r] : t.number \in 1 .. begun[r]
  /\ \A s, t \in attempts[r] : s.number = t.number => s = t

OnSchedule(r) ==
  /\ Numbered(r)
  /\ \A t \in attempts[r] : ByRound(t.number, r, t.age)
  /\ begun[r] < Jobs(body[r]) => ByRound(begun[r] + 1, r, 0)
  /\ age[r] <= readAt[r] + WorstCase(body[r])

CauseOf(r) ==
  \/ body[r].endpoint = "create_wallet"
  \/ readAt[r] + WorstCase(body[r]) >= ServiceLimit

Timing ==
  \A r \in Request :
    /\ stage[r] \in {"idle", "reading"} => readAt[r] = ServiceLimit
    /\ stage[r] \in {"idle", "reading", "verifying"} => begun[r] = 0
    /\ stage[r] = "verifying" => age[r] <= Start(r)
    /\ stage[r] = "asking" => OnSchedule(r)
    /\ answer[r] = "timeout" => CauseOf(r)

(***************************************************************************)
(* Rounds is the number of rounds that are enough for all jobs.            *)
(***************************************************************************)
LEMMA RoundsFact ==
  ASSUME NEW jobs \in Nat, NEW slots \in Nat \ {0}
  PROVE  /\ Rounds(jobs, slots) \in Nat
         /\ jobs <= slots * Rounds(jobs, slots)
         /\ jobs > 0 => Rounds(jobs, slots) > 0
<1> DEFINE a == jobs + slots - 1
           q == a \div slots
<1>1. a \in Nat
  OBVIOUS
<1> HIDE DEF a
<1>2. q \in Nat /\ a < slots * (q + 1)
  BY <1>1
<1> HIDE DEF q
<1>3. slots * (q + 1) = slots * q + slots
  BY <1>2
<1>4. jobs <= slots * q
  BY <1>2, <1>3 DEF a
<1>5. jobs > 0 => q > 0
  <2>1. q = 0 => slots * q = 0
    OBVIOUS
  <2> QED BY <1>2, <1>4, <2>1
<1> QED
  BY <1>2, <1>4, <1>5 DEF Rounds, q, a

(***************************************************************************)
(* When all slots are taken, one attempt is at least Slots - 1 behind the  *)
(* newest.                                                                 *)
(***************************************************************************)
LEMMA Oldest ==
  ASSUME NEW A, NEW b \in Nat, NEW slots \in Nat \ {0},
         \A t \in A : t.number \in 1 .. b,
         \A s, t \in A : s.number = t.number => s = t,
         ~(Cardinality(A) < slots)
  PROVE  \E t \in A : t.number <= b - slots + 1
<1> SUFFICES ASSUME \A t \in A : ~(t.number <= b - slots + 1)
             PROVE  FALSE
  OBVIOUS
<1> DEFINE N == (b - slots + 2) .. b
           f == [t \in A |-> t.number]
<1>1. f \in [A -> N]
  OBVIOUS
<1>2. f \in Injection(A, N)
  <2>1. \A s, t \in A : f[s] = f[t] => s = t
    OBVIOUS
  <2> HIDE DEF f, N
  <2> QED BY <1>1, <2>1, Fun_IsInj
<1>3. IsFiniteSet(N) /\ Cardinality(N) = IF b - slots + 2 > b THEN 0 ELSE slots - 1
  BY FS_Interval, b - slots + 2 \in Int
<1> HIDE DEF f, N
<1>4. Cardinality(A) <= Cardinality(N) /\ IsFiniteSet(A)
  BY <1>2, <1>3, FS_Injection
<1> QED
  BY <1>3, <1>4, FS_CardinalityType

LEMMA InitTiming == Init => Timing
  BY DEF Init, Timing

(***************************************************************************)
(* The numbers the schedule is made of.                                    *)
(***************************************************************************)
LEMMA Schedule ==
  ASSUME TypeOK, NEW r \in Request, body[r] \in Body
  PROVE  /\ Jobs(body[r]) \in Nat /\ Slots(body[r]) \in Nat \ {0}
         /\ VerifyTime(body[r]) \in Nat
         /\ readAt[r] \in Nat /\ age[r] \in Nat /\ begun[r] \in Nat
         /\ Start(r) \in Nat /\ WorstCase(body[r]) \in Nat
         /\ Start(r) <= readAt[r] + WorstCase(body[r])
<1>1. Ready \in SUBSET ClusterName
  BY DEF Ready
<1>2. Jobs(body[r]) \in Nat /\ Slots(body[r]) \in Nat \ {0}
  BY <1>1, ClustersAssumption, LimitsAssumption DEF Jobs, Slots
<1>3. VerifyTime(body[r]) \in Nat
  BY SignedFields, LimitsAssumption DEF VerifyTime
<1>4. readAt[r] \in Nat /\ age[r] \in Nat /\ begun[r] \in Nat
  BY LimitsAssumption DEF TypeOK
<1>5. Rounds(Jobs(body[r]), Slots(body[r])) * TIMEOUT \in Nat
  BY <1>2, RoundsFact, LimitsAssumption
<1> QED
  BY <1>2, <1>3, <1>4, <1>5 DEF Start, WorstCase

(***************************************************************************)
(* A request that starts to ask is on schedule.                            *)
(***************************************************************************)
FreshAreOnSchedule ==
  \A r \in Request :
    TypeOK /\ body[r] \in Body /\ begun[r] = 0 /\ attempts[r] = {} /\ age[r] <= Start(r)
    => OnSchedule(r)

LEMMA Fresh == FreshAreOnSchedule
<1> SUFFICES ASSUME TypeOK, NEW r \in Request, body[r] \in Body,
                    begun[r] = 0, attempts[r] = {}, age[r] <= Start(r)
             PROVE  OnSchedule(r)
  BY DEF FreshAreOnSchedule
<1> USE Schedule
<1>1. Numbered(r)
  BY DEF Numbered
<1>2. ByRound(begun[r] + 1, r, 0)
  <2>1. ASSUME NEW j \in Nat
        PROVE  j * TIMEOUT \in Nat
    BY LimitsAssumption
  <2> QED
    BY <2>1 DEF ByRound
<1>3. age[r] <= readAt[r] + WorstCase(body[r])
  OBVIOUS
<1> QED
  BY <1>1, <1>2, <1>3 DEF OnSchedule

(***************************************************************************)
(* What the schedule says after a tick, for a request that asks.           *)
(***************************************************************************)
LEMMA Waits ==
  ASSUME TypeOK, NEW r \in Request, body[r] \in Body, OnSchedule(r),
         ~HasRoom(r), ~(attempts[r] = {} /\ begun[r] = Jobs(body[r])),
         \A t \in attempts[r] : t.age # TIMEOUT
  PROVE  /\ \A t \in attempts[r] : \A j \in Nat :
              t.number <= Slots(body[r]) * (j + 1) =>
                age[r] + 1 <= Start(r) + j * TIMEOUT + (t.age + 1)
         /\ begun[r] < Jobs(body[r]) => \A j \in Nat :
              begun[r] + 1 <= Slots(body[r]) * (j + 1) =>
                age[r] + 1 <= Start(r) + j * TIMEOUT
         /\ age[r] + 1 <= readAt[r] + WorstCase(body[r])
<1> DEFINE S == Slots(body[r])
           R == Rounds(Jobs(body[r]), S)
<1>1. /\ S \in Nat \ {0} /\ Jobs(body[r]) \in Nat /\ begun[r] \in Nat
      /\ age[r] \in Nat /\ Start(r) \in Nat /\ TIMEOUT \in Nat \ {0}
  BY Schedule, LimitsAssumption
<1>2. \A t \in attempts[r] : t.age \in Nat /\ t.age <= TIMEOUT - 1 /\ t.number \in Nat
  <2>1. \A t \in attempts[r] : t.age \in 0 .. TIMEOUT /\ t.number \in Nat
    BY DEF TypeOK
  <2> QED BY <1>1, <2>1
<1>3. \A j \in Nat : j * TIMEOUT \in Nat
  BY <1>1
<1>4. ASSUME NEW t \in attempts[r], NEW j \in Nat, t.number <= S * (j + 1)
      PROVE  age[r] <= Start(r) + j * TIMEOUT + t.age
  BY <1>4 DEF OnSchedule, ByRound
<1>5. ASSUME NEW t \in attempts[r], NEW j \in Nat, t.number <= S * (j + 1)
      PROVE  age[r] + 1 <= Start(r) + (j + 1) * TIMEOUT
  <2>1. (j + 1) * TIMEOUT = j * TIMEOUT + TIMEOUT
    BY <1>1
  <2>2. age[r] <= Start(r) + j * TIMEOUT + t.age
    BY <1>4, <1>5
  <2> HIDE DEF S
  <2> QED
    BY <1>1, <1>2, <1>3, <2>1, <2>2
<1>6. ASSUME NEW t \in attempts[r], NEW j \in Nat, t.number <= S * (j + 1)
      PROVE  age[r] + 1 <= Start(r) + j * TIMEOUT + (t.age + 1)
  <2>1. age[r] <= Start(r) + j * TIMEOUT + t.age
    BY <1>4, <1>6
  <2> QED
    BY <1>1, <1>2, <1>3, <2>1
<1>7. ASSUME begun[r] < Jobs(body[r]), NEW j \in Nat, begun[r] + 1 <= S * (j + 1)
      PROVE  age[r] + 1 <= Start(r) + j * TIMEOUT
  <2>1. ~(Cardinality(attempts[r]) < S)
    BY <1>7 DEF HasRoom
  <2>3. \E t \in attempts[r] : t.number <= begun[r] - S + 1
    <3> HIDE DEF S
    <3> QED
      BY <1>1, <2>1, Oldest DEF OnSchedule, Numbered
  <2>4. PICK t \in attempts[r] : t.number <= begun[r] - S + 1
    BY <2>3
  <2>5. t.number >= 1
    BY <2>4, <1>1 DEF OnSchedule, Numbered
  <2>6. CASE j = 0
    <3>1. S * (j + 1) = S
      BY <1>1, <2>6
    <3> HIDE DEF S
    <3> QED
      BY <1>1, <1>2, <1>7, <2>4, <2>5, <3>1
  <2>7. CASE j > 0
    <3>1. S * (j + 1) = S * ((j - 1) + 1) + S /\ (j - 1) \in Nat
      BY <1>1, <2>7
    <3>2. S * ((j - 1) + 1) \in Nat
      BY <1>1, <3>1
    <3> HIDE DEF S
    <3>3. t.number <= S * ((j - 1) + 1)
      BY <1>1, <1>2, <1>7, <2>4, <3>1, <3>2
    <3>4. (j - 1) + 1 = j
      OBVIOUS
    <3> QED
      BY <1>5, <3>1, <3>3, <3>4
  <2> QED
    BY <2>6, <2>7
<1>8. age[r] + 1 <= readAt[r] + WorstCase(body[r])
  <2>1. attempts[r] # {}
    <3>1. SUFFICES ASSUME attempts[r] = {}
                   PROVE  FALSE
      OBVIOUS
    <3>2. Cardinality(attempts[r]) = 0
      BY <3>1, FS_EmptySet
    <3>3. begun[r] = Jobs(body[r])
      BY <1>1, <3>2 DEF HasRoom, OnSchedule, Numbered
    <3> QED BY <3>1, <3>3
  <2>2. PICK t \in attempts[r] : TRUE
    BY <2>1
  <2>3. t.number \in 1 .. begun[r] /\ begun[r] <= Jobs(body[r])
    BY DEF OnSchedule, Numbered
  <2>4. R \in Nat /\ R > 0 /\ t.number <= S * R
    <3>1. Jobs(body[r]) > 0
      BY <1>1, <2>3
    <3> HIDE DEF S
    <3>2. R \in Nat /\ R > 0 /\ Jobs(body[r]) <= S * R
      BY <1>1, <3>1, RoundsFact
    <3> HIDE DEF R
    <3>3. S * R \in Nat
      BY <1>1, <3>2
    <3> QED BY <1>1, <2>3, <3>2, <3>3
  <2> HIDE DEF S, R
  <2>5. (R - 1) \in Nat /\ (R - 1) + 1 = R
    BY <2>4
  <2>6. age[r] + 1 <= Start(r) + R * TIMEOUT
    BY <1>5, <2>4, <2>5
  <2>7. readAt[r] + WorstCase(body[r]) = Start(r) + R * TIMEOUT
    <3>1. R * TIMEOUT \in Nat
      BY <1>1, <2>4
    <3>2. readAt[r] \in Nat /\ VerifyTime(body[r]) \in Nat
      BY Schedule
    <3> QED
      BY <3>1, <3>2 DEF WorstCase, Start, R, S
  <2> QED BY <2>6, <2>7
<1> QED
  BY <1>6, <1>7, <1>8

LEMMA TickTiming ==
  ASSUME TypeOK, Life, Timing, Tick
  PROVE  Timing'
<1>1. /\ UNCHANGED <<startVars, stage, body, readAt, begun, answer>>
      /\ attempts' = [r \in Request |->
                        {[number |-> t.number, age |-> t.age + 1] : t \in attempts[r]}]
  BY DEF Tick
<1>2. \A r \in Request :
        /\ Start(r)' = Start(r) /\ Jobs(body[r])' = Jobs(body[r])
        /\ Slots(body[r])' = Slots(body[r]) /\ WorstCase(body[r])' = WorstCase(body[r])
  BY <1>1 DEF Start, VerifyTime, ProofModel, Jobs, Slots, WorstCase, Ready, startVars
<1>3. ASSUME NEW r \in Request, UnderWay(r)
      PROVE  age'[r] = age[r] + 1 /\ ~Urgent(r)
  <2>1. ~Urgent(r) /\ age'[r] = Older(age[r], ServiceLimit)
    BY <1>3 DEF Tick
  <2>2. age[r] \in 0 .. ServiceLimit /\ age[r] # ServiceLimit
    BY <1>3, <2>1 DEF Urgent, Overdue, TypeOK
  <2> QED
    BY <2>1, <2>2, LimitsAssumption DEF Older
<1>4. ASSUME NEW r \in Request, stage[r] \in {"verifying", "asking"}
      PROVE  UnderWay(r) /\ body[r] \in Body
  BY <1>4 DEF Tick, UnderWay, Life
<1>5. ASSUME NEW r \in Request, stage[r] = "verifying"
      PROVE  age'[r] <= Start(r)
  <2>1. age'[r] = age[r] + 1 /\ age[r] <= Start(r) /\ body[r].endpoint \in Signing
    BY <1>3, <1>4, <1>5 DEF Timing, Life
  <2>2. age[r] # Start(r)
    BY <1>3, <1>4, <1>5, <2>1 DEF Urgent, VerifyEnds, Start, VerifyTime
  <2>3. age[r] \in Nat /\ Start(r) \in Nat
    BY <1>4, <1>5, Schedule
  <2> QED
    BY <2>1, <2>2, <2>3
<1>6. ASSUME NEW r \in Request, stage[r] = "asking"
      PROVE  OnSchedule(r)'
  <2>1. age'[r] = age[r] + 1 /\ ~Urgent(r) /\ body[r] \in Body /\ OnSchedule(r)
    BY <1>3, <1>4, <1>6 DEF Timing
  <2>2. /\ ~HasRoom(r) /\ ~(attempts[r] = {} /\ begun[r] = Jobs(body[r]))
        /\ \A t \in attempts[r] : t.age # TIMEOUT
    BY <1>4, <1>6, <2>1 DEF Urgent, AllMissed, AttemptEnds, At, UnderWay
  <2>3. attempts'[r] = {[number |-> t.number, age |-> t.age + 1] : t \in attempts[r]}
    BY <1>1
  <2>4. Numbered(r)'
    BY <1>1, <1>2, <2>1, <2>3 DEF OnSchedule, Numbered
  <2>5. ASSUME NEW t \in attempts'[r], NEW j \in Nat, t.number <= Slots(body[r]) * (j + 1)
        PROVE  age[r] + 1 <= Start(r) + j * TIMEOUT + t.age
    <3>1. PICK u \in attempts[r] : t = [number |-> u.number, age |-> u.age + 1]
      BY <2>3
    <3> QED
      BY <2>1, <2>2, <2>5, <3>1, Waits
  <2>6. \A t \in attempts'[r] : ByRound(t.number, r, t.age)'
    BY <1>1, <1>2, <2>1, <2>5 DEF ByRound
  <2>7. begun[r] < Jobs(body[r]) => ByRound(begun[r] + 1, r, 0)'
    <3>1. ASSUME begun[r] < Jobs(body[r]), NEW j \in Nat,
                 begun[r] + 1 <= Slots(body[r]) * (j + 1)
          PROVE  age[r] + 1 <= Start(r) + j * TIMEOUT + 0
      <4>1. age[r] + 1 <= Start(r) + j * TIMEOUT
        BY <2>1, <2>2, <3>1, Waits
      <4>2. j * TIMEOUT \in Nat /\ Start(r) \in Nat
        BY <2>1, Schedule, LimitsAssumption
      <4> QED BY <4>1, <4>2
    <3> QED
      BY <1>1, <1>2, <2>1, <3>1 DEF ByRound
  <2>8. (age[r] <= readAt[r] + WorstCase(body[r]))'
    BY <1>1, <1>2, <2>1, <2>2, Waits
  <2> QED
    BY <1>1, <1>2, <2>4, <2>6, <2>7, <2>8 DEF OnSchedule
<1> QED
  BY <1>1, <1>2, <1>5, <1>6 DEF Timing, CauseOf

(***************************************************************************)
(* The clusters stand still while requests are under way, and so does what *)
(* depends on them.                                                        *)
(***************************************************************************)
LEMMA CauseStays ==
  ASSUME cluster' = cluster, NEW r \in Request, body'[r] = body[r], readAt'[r] = readAt[r]
  PROVE  /\ Start(r)' = Start(r) /\ CauseOf(r)' = CauseOf(r)
         /\ Jobs(body[r])' = Jobs(body[r]) /\ Slots(body[r])' = Slots(body[r])
         /\ WorstCase(body[r])' = WorstCase(body[r])
BY DEF Start, CauseOf, VerifyTime, ProofModel, Jobs, Slots, WorstCase, Ready

LEMMA ScheduleStays ==
  ASSUME cluster' = cluster, NEW r \in Request, body'[r] = body[r], readAt'[r] = readAt[r],
         age'[r] = age[r], begun'[r] = begun[r], attempts'[r] \subseteq attempts[r],
         OnSchedule(r)
  PROVE  OnSchedule(r)'
BY CauseStays DEF OnSchedule, Numbered, ByRound

LEMMA OthersOnTime ==
  ASSUME Timing, cluster' = cluster, NEW s \in Request,
         stage'[s] = stage[s], body'[s] = body[s], readAt'[s] = readAt[s], age'[s] = age[s],
         begun'[s] = begun[s], attempts'[s] \subseteq attempts[s], answer'[s] = answer[s]
  PROVE  /\ stage'[s] \in {"idle", "reading"} => readAt'[s] = ServiceLimit
         /\ stage'[s] \in {"idle", "reading", "verifying"} => begun'[s] = 0
         /\ stage'[s] = "verifying" => age'[s] <= Start(s)'
         /\ stage'[s] = "asking" => OnSchedule(s)'
         /\ answer'[s] = "timeout" => CauseOf(s)'
<1>1. Start(s)' = Start(s) /\ CauseOf(s)' = CauseOf(s)
  BY CauseStays
<1>2. stage'[s] = "asking" => OnSchedule(s)'
  BY ScheduleStays DEF Timing
<1> QED
  BY <1>1, <1>2 DEF Timing

LEMMA AskTiming ==
  ASSUME TypeOK, Life, Timing, NEW r \in Request, Ask(r)
  PROVE  OnSchedule(r)'
<1>1. /\ stage[r] = "asking" /\ HasRoom(r) /\ UNCHANGED <<startVars, body, age, readAt>>
      /\ begun'[r] = begun[r] + 1
      /\ attempts'[r] = attempts[r] \cup {[number |-> begun[r] + 1, age |-> 0]}
      /\ body[r] \in Body /\ OnSchedule(r)
  BY DEF Ask, At, TypeOK, Life, Timing
<1>2. /\ Jobs(body[r]) \in Nat /\ Slots(body[r]) \in Nat \ {0} /\ begun[r] \in Nat
      /\ begun[r] < Jobs(body[r]) /\ Start(r) \in Nat /\ age[r] \in Nat
  BY <1>1, Schedule DEF HasRoom
<1>3. /\ Start(r)' = Start(r) /\ Jobs(body[r])' = Jobs(body[r])
      /\ Slots(body[r])' = Slots(body[r]) /\ WorstCase(body[r])' = WorstCase(body[r])
  BY <1>1, CauseStays DEF startVars
<1>4. Numbered(r)'
  <2>1. \A t \in attempts[r] : t.number \in 1 .. begun[r]
    BY <1>1 DEF OnSchedule, Numbered
  <2> QED
    BY <1>1, <1>2, <1>3, <2>1 DEF OnSchedule, Numbered
<1>5. ByRound(begun[r] + 1, r, 0)
  BY <1>1, <1>2 DEF OnSchedule
<1>6. \A t \in attempts'[r] : ByRound(t.number, r, t.age)'
  <2>1. \A t \in attempts'[r] : ByRound(t.number, r, t.age)
    BY <1>1, <1>5 DEF OnSchedule
  <2> QED
    BY <1>1, <1>3, <2>1 DEF ByRound
<1>7. ByRound(begun[r] + 2, r, 0)
  <2>1. ASSUME NEW j \in Nat, begun[r] + 2 <= Slots(body[r]) * (j + 1)
        PROVE  begun[r] + 1 <= Slots(body[r]) * (j + 1)
    <3>1. Slots(body[r]) * (j + 1) \in Nat
      BY <1>2
    <3> QED BY <1>2, <2>1, <3>1
  <2> QED
    BY <1>5, <2>1 DEF ByRound
<1>8. ByRound(begun[r] + 1, r, 0)'
  BY <1>1, <1>2, <1>3, <1>7 DEF ByRound
<1> QED
  BY <1>1, <1>3, <1>4, <1>6, <1>8 DEF OnSchedule

LEMMA FreshAfterwards == FreshAreOnSchedule'
  BY Fresh, PTL

LEMMA AcceptedTiming ==
  ASSUME TypeOK, Life, Timing, NEW r \in Request, BodyAccepted(r), TypeOK'
  PROVE  /\ stage'[r] \notin {"idle", "reading"}
         /\ stage'[r] = "verifying" => begun'[r] = 0 /\ age'[r] <= Start(r)'
         /\ stage'[r] = "asking" => OnSchedule(r)'
<1>1. /\ stage[r] = "reading" /\ body[r] \in Body /\ attempts[r] = {} /\ begun[r] = 0
      /\ stage'[r] = FirstStage(body[r]) /\ readAt'[r] = age[r]
      /\ UNCHANGED <<startVars, body, age, begun, attempts>>
  BY DEF BodyAccepted, BodyComplete, At, Enters, Life, Timing, TypeOK
<1>2. Start(r)' = age[r] + VerifyTime(body[r])
  BY <1>1 DEF Start, VerifyTime, ProofModel
<1>3. age'[r] <= Start(r)'
  BY <1>1, <1>2, Schedule
<1>4. OnSchedule(r)'
  BY <1>1, <1>3, FreshAfterwards DEF FreshAreOnSchedule
<1> QED
  BY <1>1, <1>3, <1>4 DEF FirstStage

LEMMA VerifiedTiming ==
  ASSUME TypeOK, Life, Timing, NEW r \in Request,
         Verified(r) \/ \E m \in Message : RecordRead(r, m)
  PROVE  OnSchedule(r)'
<1>1. /\ stage[r] = "verifying" /\ body[r] \in Body /\ attempts[r] = {} /\ begun[r] = 0
      /\ age[r] <= Start(r) /\ UNCHANGED <<startVars, body, timeVars, begun>>
  BY DEF Verified, RecordRead, At, Enters, Life, Timing
<1>2. OnSchedule(r)
  BY <1>1, Fresh DEF FreshAreOnSchedule
<1> QED
  BY <1>1, <1>2, ScheduleStays DEF startVars, timeVars

LEMMA TimeoutHasCause ==
  ASSUME TypeOK, Life, Timing, NEW r \in Request, UnderWay(r), Overdue(r)
  PROVE  CauseOf(r)
<1>1. body[r] \in Body /\ stage[r] \in {"reading", "verifying", "asking", "near"}
  BY DEF UnderWay, Life
<1>2. /\ readAt[r] \in Nat /\ WorstCase(body[r]) \in Nat /\ Start(r) \in Nat
      /\ Start(r) <= readAt[r] + WorstCase(body[r])
  BY <1>1, Schedule
<1>3. ServiceLimit \in Nat /\ age[r] = ServiceLimit
  BY LimitsAssumption DEF Overdue
<1> QED
  BY <1>1, <1>2, <1>3 DEF Life, Timing, CauseOf, OnSchedule

LEMMA StepTiming ==
  ASSUME TypeOK, Life, Timing, [Next]_vars
  PROVE  Timing'
<1> USE DEF requestVars, timeVars, startVars
<1> DEFINE OnTimeNow(s) ==
      /\ stage'[s] \in {"idle", "reading"} => readAt'[s] = ServiceLimit
      /\ stage'[s] \in {"idle", "reading", "verifying"} => begun'[s] = 0
      /\ stage'[s] = "verifying" => age'[s] <= Start(s)'
      /\ stage'[s] = "asking" => OnSchedule(s)'
      /\ answer'[s] = "timeout" => CauseOf(s)'
<1> SUFFICES \/ Timing'
             \/ \A s \in Request : OnTimeNow(s)
  BY DEF Timing
<1>0. TypeOK'
  BY StepTypes
<1>1. CASE ProcessMoves
  <2>1. ASSUME NEW s \in Request, stage[s] = "idle"
        PROVE  OnTimeNow(s)
    BY <1>1, <2>1 DEF ProcessMoves, Timing, Life
  <2>2. ASSUME NEW s \in Request, stage[s] # "idle"
        PROVE  OnTimeNow(s)
    <3>1. cluster' = cluster
      BY <1>1, <2>2, ClustersStay DEF Life
    <3>2. UNCHANGED requestVars
      BY <1>1 DEF ProcessMoves
    <3> QED BY <3>1, <3>2, OthersOnTime
  <2> QED BY <2>1, <2>2
<1>2. ASSUME NEW r \in Request, NEW a, UnderWay(r), Finishes(r, a), Justified(r, a)
      PROVE  \A s \in Request : OnTimeNow(s)
  <2>1. OnTimeNow(r)
    <3>1. stage'[r] = "ended" /\ answer'[r] = a /\ UNCHANGED <<startVars, body, readAt>>
      BY <1>2 DEF Finishes, TypeOK
    <3>2. a = "timeout" => CauseOf(r)
      BY <1>2, TimeoutHasCause DEF Justified
    <3> QED BY <3>1, <3>2, CauseStays
  <2>2. ASSUME NEW s \in Request, s # r
        PROVE  OnTimeNow(s)
    <3>1. /\ stage'[s] = stage[s] /\ body'[s] = body[s] /\ readAt'[s] = readAt[s]
          /\ age'[s] = age[s] /\ begun'[s] = begun[s] /\ attempts'[s] = attempts[s]
          /\ answer'[s] = answer[s] /\ cluster' = cluster
      BY <1>2, <2>2 DEF Finishes, TypeOK
    <3> QED BY <3>1, OthersOnTime
  <2> QED BY <2>1, <2>2
<1>3. ASSUME NEW r \in Request, NEW b \in Bodies[r], Arrives(r, b)
      PROVE  \A s \in Request : OnTimeNow(s)
  <2>1. OnTimeNow(r)
    BY <1>3 DEF Arrives, TypeOK, Timing, Life
  <2>2. ASSUME NEW s \in Request, s # r
        PROVE  OnTimeNow(s)
    <3>1. /\ stage'[s] = stage[s] /\ body'[s] = body[s]
          /\ UNCHANGED <<cluster, readAt, age, begun, attempts, answer>>
      BY <1>3, <2>2 DEF Arrives, TypeOK
    <3> QED BY <3>1, OthersOnTime
  <2> QED BY <2>1, <2>2
<1>4. ASSUME NEW r \in Request, BodyAccepted(r)
      PROVE  \A s \in Request : OnTimeNow(s)
  <2>1. OnTimeNow(r)
    <3>1. answer[r] = "none" /\ answer' = answer
      BY <1>4 DEF BodyAccepted, BodyComplete, At, Enters, Life
    <3> QED BY <1>0, <1>4, <3>1, AcceptedTiming
  <2>2. ASSUME NEW s \in Request, s # r
        PROVE  OnTimeNow(s)
    <3>1. /\ stage'[s] = stage[s] /\ readAt'[s] = readAt[s]
          /\ UNCHANGED <<cluster, body, age, begun, attempts, answer>>
      BY <1>4, <2>2 DEF BodyAccepted, Enters, TypeOK
    <3> QED BY <3>1, OthersOnTime
  <2> QED BY <2>1, <2>2
<1>5. ASSUME NEW r \in Request, Verified(r) \/ \E m \in Message : RecordRead(r, m)
      PROVE  \A s \in Request : OnTimeNow(s)
  <2>1. OnTimeNow(r)
    <3>1. answer[r] = "none" /\ answer' = answer /\ stage'[r] = "asking"
      BY <1>5 DEF Verified, RecordRead, At, Enters, Life, TypeOK
    <3> QED BY <1>5, <3>1, VerifiedTiming
  <2>2. ASSUME NEW s \in Request, s # r
        PROVE  OnTimeNow(s)
    <3>1. stage'[s] = stage[s] /\ UNCHANGED <<cluster, body, timeVars, begun, answer>>
      BY <1>5, <2>2 DEF Verified, RecordRead, Enters, TypeOK
    <3> QED BY <3>1, OthersOnTime
  <2> QED BY <2>1, <2>2
<1>6. ASSUME NEW r \in Request, Ask(r)
      PROVE  \A s \in Request : OnTimeNow(s)
  <2>1. OnTimeNow(r)
    <3>1. answer[r] = "none" /\ stage[r] = "asking" /\ UNCHANGED <<stage, answer>>
      BY <1>6 DEF Ask, At, Life
    <3> QED BY <1>6, <3>1, AskTiming
  <2>2. ASSUME NEW s \in Request, s # r
        PROVE  OnTimeNow(s)
    <3>1. /\ begun'[s] = begun[s] /\ attempts'[s] = attempts[s]
          /\ UNCHANGED <<cluster, stage, body, age, readAt, answer>>
      BY <1>6, <2>2 DEF Ask, TypeOK
    <3> QED BY <3>1, OthersOnTime
  <2> QED BY <2>1, <2>2
<1>7. ASSUME NEW r \in Request, NEW t \in attempts[r], Missed(r, t)
      PROVE  \A s \in Request : OnTimeNow(s)
  <2>1. ASSUME NEW s \in Request
        PROVE  attempts'[s] \subseteq attempts[s]
    BY <1>7 DEF Missed, TypeOK
  <2>2. UNCHANGED <<cluster, stage, body, age, readAt, begun, answer>>
    BY <1>7 DEF Missed
  <2> QED BY <2>1, <2>2, OthersOnTime
<1>8. ASSUME NEW r \in Request, Sends(r) \/ NearExecutes(r)
      PROVE  \A s \in Request : OnTimeNow(s)
  <2>1. UNCHANGED <<cluster, stage, body, timeVars, begun, answer>>
    BY <1>8 DEF Sends, NearExecutes
  <2> QED BY <2>1, OthersOnTime
<1> QED
  BY <1>1, <1>2, <1>3, <1>4, <1>5, <1>6, <1>7, <1>8, TickTiming, StepKinds

(***************************************************************************)
(* A request that is told of a timeout has used up its body's time, the    *)
(* verification's and a TIMEOUT for every round of its attempts.           *)
(***************************************************************************)
THEOREM TimeoutsExplained == Spec => []TimeoutsForCause
<1>1. Init => TypeOK /\ Life /\ Timing
  BY InitTypes, InitLife, InitTiming
<1>2. TypeOK /\ Life /\ Timing /\ [Next]_vars => (TypeOK /\ Life /\ Timing)'
  BY StepTypes, StepLife, StepTiming
<1>3. Timing => TimeoutsForCause
  BY DEF Timing, TimeoutsForCause, CauseOf
<1> QED
  BY <1>1, <1>2, <1>3, PTL DEF Spec
=============================================================================
