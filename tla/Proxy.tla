-------------------------------- MODULE Proxy --------------------------------
(***************************************************************************)
(* Requests to the proxy, from their arrival to their answer: the body is  *)
(* read, the proof verified (module Validation), the MPC servers asked     *)
(* (module ClusterManager), under the time limits of each part and the     *)
(* limit of the service around all of them, while the process may be asked *)
(* to stop.  The bridge's requests name a transfer, of which the proxy     *)
(* makes message and proof; a withdrawal is not verified but read from     *)
(* NEAR.  Creating a wallet is one transaction to NEAR instead.            *)
(*                                                                         *)
(* Time is counted in ticks.  Computing takes none; waiting for others     *)
(* takes any number up to the limit the code sets, if it sets one.         *)
(***************************************************************************)
EXTENDS Startup

CONSTANTS
  Request,         \* requests that clients may send
  Uid, Wallet, Message, Proof,
  Body,            \* what clients send, see Form
  NoBody,          \* before a request comes
  Bodies,          \* the bodies each request may have
  BodyDelays,      \* ticks a request's whole body may take; it may never arrive
  WalletOf,        \* Uid::to_wallet_id
  bridge_deposit, bridge_withdraw,   \* UidRegistry
  Rendered,        \* a proof parsed and serialised again
  Challenge,       \* the message for the transfer that a proof is about
  NoRecord,        \* before NEAR's record of a transfer is read
  VerifyLimit,     \* how long verifying a proof, or reading a record, may take
  CombinationsOf,  \* combinations of live servers the ready clusters offer
  LiveServersOf,   \* live servers the ready clusters list
  TIMEOUT,         \* limit of a request to an MPC server, 2 s
  ServiceLimit,    \* limit of the service, 15 s
  SIGN_CONCURRENCY \* sign requests kept in flight, 3

VARIABLES
  stage,        \* "idle", "reading", "verifying", "asking", "near", "ended"
  body,         \* what was sent
  age,          \* ticks since the request came
  readAt,       \* its age when the body was complete, ServiceLimit before
  begun,        \* requests to MPC servers begun
  attempts,     \* those in flight, by number, with their ages
  answer,       \* what the client was told
  verified,     \* history: what was verified in which request
  record,       \* the message for the transfer that NEAR returned
  asked,        \* history: what MPC servers were asked to sign in which
  transaction,  \* the request's transaction on NEAR
  wallets       \* the wallets that exist on NEAR

timeVars == <<age, readAt, attempts>>
historyVars == <<verified, record, asked>>
nearVars == <<transaction, wallets>>
requestVars == <<stage, body, timeVars, begun, answer, historyVars, nearVars>>
vars == <<startVars, requestVars>>

Verifying == {"sign", "sign_raw", "deposit", "clear"}
Signing == Verifying \cup {"withdraw"}
Endpoint == Signing \cup {"public_key", "create_wallet", "healthcheck"}

(***************************************************************************)
(* A body is well formed, or not the JSON of the endpoint's type, or has a *)
(* uid that is not 32 bytes long, or a number that is no KeyType.  A       *)
(* deposit may lack what its challenge is made of, or be one that has none:*)
(* on NEAR, or on Solana above u64.                                        *)
(***************************************************************************)
Form == {"good", "malformed", "short uid", "unknown key type", "lacks fields", "no challenge"}

ASSUME BodyAssumption ==
  /\ Body \subseteq [endpoint : Endpoint, form : Form, uid : Uid, wallet : Wallet,
                     message : Message, proof : Proof]
  /\ NoBody \notin Body
  /\ Bodies \in [Request -> SUBSET Body]
  /\ BodyDelays \in [Request -> SUBSET Nat]
ASSUME ConversionAssumption ==
  /\ WalletOf \in [Uid -> Wallet]
  /\ bridge_deposit \in Uid /\ bridge_withdraw \in Uid
  /\ Rendered \in [Proof -> Proof]
  /\ Challenge \in [Proof -> Message]
  /\ NoRecord \notin Message
ASSUME ClustersAssumption ==
  /\ CombinationsOf \in [SUBSET ClusterName -> Nat]
  /\ LiveServersOf \in [SUBSET ClusterName -> Nat]
ASSUME LimitsAssumption ==
  /\ VerifyLimit \in [Proof -> Nat]
  /\ TIMEOUT \in Nat \ {0} /\ ServiceLimit \in Nat \ {0}
  /\ SIGN_CONCURRENCY \in Nat \ {0}

-----------------------------------------------------------------------------
(* Faulty variants of the definitions below, for the mutation checks.      *)

SentAsReceived(r) ==
  IF body[r].endpoint \in Signing
  THEN {[request |-> r, uid |-> body[r].uid, message |-> body[r].message, proof |-> body[r].proof]}
  ELSE {}
DepositsUnverified(b) ==
  CASE b.endpoint \in Signing \ {"deposit"} -> "verifying"
    [] b.endpoint \in {"deposit", "public_key"} -> "asking"
    [] OTHER -> "near"
WithoutStatus(r) == "created"
HasRoomShort(r) ==
  Cardinality(attempts[r]) + 1 < SIGN_CONCURRENCY /\ begun[r] < CombinationsOf[Ready]
NoLimitOnNear(r) == age[r] = ServiceLimit /\ stage[r] # "near"

-----------------------------------------------------------------------------

(***************************************************************************)
(* Json<T> as extractor.  serde turns a uid of another length into an      *)
(* error where it is declared as Base58Array<32>, and panics in            *)
(* From<Vec<u8>> where it is declared as Hex; so does From<u8> for KeyType.*)
(***************************************************************************)
UidPanics(b) == b.form = "short uid" /\ b.endpoint \in {"sign_raw", "public_key"}
KeyTypePanics(b) == b.form = "unknown key type" /\ b.endpoint \in {"sign", "sign_raw"}

(***************************************************************************)
(* build_challenge_for_deposit, at once after the body: an error without   *)
(* its fields, a panic where there is no challenge.                        *)
(***************************************************************************)
ChallengePanics(b) == b.form = "no challenge" /\ b.endpoint = "deposit"

Panics(b) == UidPanics(b) \/ KeyTypePanics(b) \/ ChallengePanics(b)

Rejected(b) ==
  \/ b.form = "malformed"
  \/ b.form = "short uid" /\ b.endpoint \in {"sign", "create_wallet"}
  \/ b.form = "lacks fields" /\ b.endpoint = "deposit"

(***************************************************************************)
(* What is verified and sent on.  /sign_raw takes payloads as JSON values  *)
(* and serialises them again; the bridge's endpoints parse a transfer, or  *)
(* its nonce, fill in a receiver to clear, and make their own proof of it, *)
(* for a uid of the configuration.                                         *)
(***************************************************************************)
ProofModel(b) == IF b.endpoint = "sign" THEN b.proof ELSE Rendered[b.proof]

UidOf(b) ==
  CASE b.endpoint \in {"deposit", "clear"} -> bridge_deposit
    [] b.endpoint = "withdraw" -> bridge_withdraw
    [] OTHER -> b.uid

MessageOf(r) ==
  CASE body[r].endpoint \in {"deposit", "clear"} -> Challenge[ProofModel(body[r])]
    [] body[r].endpoint = "withdraw" -> record[r]
    [] OTHER -> body[r].message

HasBody(b) == b.endpoint # "healthcheck"

(***************************************************************************)
(* Requests to MPC servers: one per combination for a signature, up to     *)
(* SIGN_CONCURRENCY at a time; one per live server for a key, one by one.  *)
(***************************************************************************)
Jobs(b) == IF b.endpoint \in Signing THEN CombinationsOf[Ready] ELSE LiveServersOf[Ready]
Slots(b) == IF b.endpoint \in Signing THEN SIGN_CONCURRENCY ELSE 1

-----------------------------------------------------------------------------

Init ==
  /\ StartInit
  /\ stage = [r \in Request |-> "idle"]
  /\ body = [r \in Request |-> NoBody]
  /\ age = [r \in Request |-> 0]
  /\ readAt = [r \in Request |-> ServiceLimit]
  /\ begun = [r \in Request |-> 0]
  /\ attempts = [r \in Request |-> {}]
  /\ answer = [r \in Request |-> "none"]
  /\ verified = {} /\ asked = {}
  /\ record = [r \in Request |-> NoRecord]
  /\ transaction = [r \in Request |-> "none"]
  /\ wallets \in SUBSET Wallet

Alive == phase \in {"serving", "stopping"}
UnderWay(r) == Alive /\ stage[r] \in {"reading", "verifying", "asking", "near"}
At(r, s) == Alive /\ stage[r] = s

Enters(r, s) ==
  /\ stage' = [stage EXCEPT ![r] = s]
  /\ UNCHANGED <<startVars, body, answer>>

(***************************************************************************)
(* The request's future is gone, with its timers and what it had in        *)
(* flight; what is kept is history.                                        *)
(***************************************************************************)
Finishes(r, a) ==
  /\ stage' = [stage EXCEPT ![r] = "ended"]
  /\ answer' = [answer EXCEPT ![r] = a]
  /\ age' = [age EXCEPT ![r] = 0]
  /\ begun' = [begun EXCEPT ![r] = 0]
  /\ attempts' = [attempts EXCEPT ![r] = {}]
  /\ UNCHANGED <<startVars, body, readAt, historyVars, nearVars>>

(***************************************************************************)
(* A request is accepted while the server is not stopping; its path is     *)
(* known, its body may still be on the way.                                *)
(***************************************************************************)
Arrives(r, b) ==
  /\ phase = "serving" /\ stage[r] = "idle"
  /\ stage' = [stage EXCEPT ![r] = "reading"]
  /\ body' = [body EXCEPT ![r] = b]
  /\ UNCHANGED <<startVars, timeVars, begun, answer, historyVars, nearVars>>

BodyComplete(r) == At(r, "reading") /\ HasBody(body[r]) /\ age[r] \in BodyDelays[r]

HealthAnswered(r) == At(r, "reading") /\ ~HasBody(body[r]) /\ Finishes(r, "health")
BodyRejected(r) == BodyComplete(r) /\ Rejected(body[r]) /\ Finishes(r, "rejected")

(***************************************************************************)
(* A panic ends the request's task: its connection closes unanswered.      *)
(***************************************************************************)
BodyPanics(r) == BodyComplete(r) /\ Panics(body[r]) /\ Finishes(r, "closed")

FirstStage(b) ==
  CASE b.endpoint \in Signing -> "verifying"
    [] b.endpoint = "public_key" -> "asking"
    [] OTHER -> "near"

BodyAccepted(r) ==
  /\ BodyComplete(r) /\ ~Rejected(body[r]) /\ ~Panics(body[r])
  /\ Enters(r, FirstStage(body[r]))
  /\ readAt' = [readAt EXCEPT ![r] = age[r]]
  /\ UNCHANGED <<age, begun, attempts, historyVars, nearVars>>

-----------------------------------------------------------------------------

(***************************************************************************)
(* validate_and_sign: Validation::verify for the uid's wallet ...          *)
(***************************************************************************)
Checked(r) ==
  [request |-> r, wallet |-> WalletOf[UidOf(body[r])], message |-> MessageOf(r),
   proof |-> ProofModel(body[r])]

Verified(r) ==
  /\ At(r, "verifying") /\ body[r].endpoint \in Verifying
  /\ Enters(r, "asking")
  /\ verified' = verified \cup {Checked(r)}
  /\ UNCHANGED <<timeVars, begun, record, asked, nearVars>>

(***************************************************************************)
(* ... or, for a withdrawal, get_withdrawal: a threshold call of NEAR, and *)
(* the message for the transfer it returns.  There may be none, or one     *)
(* that has no challenge.                                                  *)
(***************************************************************************)
RecordRead(r, m) ==
  /\ At(r, "verifying") /\ body[r].endpoint = "withdraw"
  /\ Enters(r, "asking")
  /\ record' = [record EXCEPT ![r] = m]
  /\ UNCHANGED <<timeVars, begun, verified, asked, nearVars>>

Refused(r) == At(r, "verifying") /\ Finishes(r, "refused")
VerifyPanics(r) == At(r, "verifying") /\ Finishes(r, "closed")

(***************************************************************************)
(* ... then ClusterManager::sign of the same message for the same uid.     *)
(* The buffer takes the next request as soon as it has room.               *)
(***************************************************************************)
HasRoom(r) == Cardinality(attempts[r]) < Slots(body[r]) /\ begun[r] < Jobs(body[r])

Sent(r) ==
  IF body[r].endpoint \in Signing
  THEN {[request |-> r, uid |-> UidOf(body[r]), message |-> MessageOf(r),
         proof |-> ProofModel(body[r])]}
  ELSE {}

Ask(r) ==
  /\ At(r, "asking") /\ HasRoom(r)
  /\ begun' = [begun EXCEPT ![r] = @ + 1]
  /\ attempts' = [attempts EXCEPT ![r] = @ \cup {[number |-> begun[r] + 1, age |-> 0]}]
  /\ asked' = asked \cup Sent(r)
  /\ UNCHANGED <<startVars, stage, body, age, readAt, answer, verified, record, nearVars>>

Answered(r, t) ==
  /\ At(r, "asking") /\ t \in attempts[r]
  /\ Finishes(r, IF body[r].endpoint \in Signing THEN "signed" ELSE "key")

Missed(r, t) ==
  /\ At(r, "asking") /\ t \in attempts[r]
  /\ attempts' = [attempts EXCEPT ![r] = @ \ {t}]
  /\ UNCHANGED <<startVars, stage, body, age, readAt, begun, answer, historyVars, nearVars>>

AllMissed(r) == At(r, "asking") /\ attempts[r] = {} /\ begun[r] = Jobs(body[r])

GivesUp(r) == AllMissed(r) /\ Finishes(r, "mpc error")

-----------------------------------------------------------------------------

(***************************************************************************)
(* create_wallet: a worker of its own, which panics when NEAR cannot be    *)
(* reached, and one transaction.  The library sets its time limits.        *)
(***************************************************************************)
NoWorker(r) == At(r, "near") /\ transaction[r] = "none" /\ Finishes(r, "closed")

Sends(r) ==
  /\ At(r, "near") /\ transaction[r] = "none"
  /\ transaction' = [transaction EXCEPT ![r] = "sent"]
  /\ UNCHANGED <<startVars, stage, body, timeVars, begun, answer, historyVars, wallets>>

(***************************************************************************)
(* The registry on NEAR creates a wallet once.  What is sent may execute   *)
(* after the request, and the process, have ended.                         *)
(***************************************************************************)
NearExecutes(r) ==
  /\ transaction[r] = "sent"
  /\ transaction' = [transaction EXCEPT ![r] =
       IF body[r].wallet \in wallets THEN "failed" ELSE "executed"]
  /\ wallets' = wallets \cup {body[r].wallet}
  /\ UNCHANGED <<startVars, stage, body, timeVars, begun, answer, historyVars>>

IntoResult(r) == IF transaction[r] = "executed" THEN "created" ELSE "near error"

NearReplies(r) ==
  /\ At(r, "near") /\ transaction[r] \in {"executed", "failed"}
  /\ Finishes(r, IntoResult(r))

NearErrs(r) == At(r, "near") /\ Finishes(r, "near error")

-----------------------------------------------------------------------------

(***************************************************************************)
(* TimeoutLayer drops the request, whatever it waits for, and answers 408; *)
(* a client that leaves has it dropped too.                                *)
(***************************************************************************)
Overdue(r) == age[r] = ServiceLimit

TimesOut(r) == UnderWay(r) /\ Overdue(r) /\ Finishes(r, "timeout")
Leaves(r) == UnderWay(r) /\ Finishes(r, "left")

(***************************************************************************)
(* What cannot wait: a limit that is reached, or something to compute.     *)
(***************************************************************************)
VerifyEnds(r) == stage[r] = "verifying" /\ age[r] = readAt[r] + VerifyLimit[ProofModel(body[r])]
AttemptEnds(r) == \E t \in attempts[r] : t.age = TIMEOUT

Urgent(r) ==
  /\ UnderWay(r)
  /\ \/ Overdue(r)
     \/ VerifyEnds(r)
     \/ AttemptEnds(r)
     \/ stage[r] = "asking" /\ (HasRoom(r) \/ AllMissed(r))
     \/ stage[r] = "reading" /\ ~HasBody(body[r])

Older(n, limit) == IF n < limit THEN n + 1 ELSE n

Tick ==
  /\ \E r \in Request : UnderWay(r)
  /\ \A r \in Request : ~Urgent(r)
  /\ age' = [r \in Request |-> IF UnderWay(r) THEN Older(age[r], ServiceLimit) ELSE age[r]]
  /\ attempts' = [r \in Request |->
                    {[number |-> t.number, age |-> t.age + 1] : t \in attempts[r]}]
  /\ UNCHANGED <<startVars, stage, body, readAt, begun, answer, historyVars, nearVars>>

(***************************************************************************)
(* with_graceful_shutdown: `serve` returns when every request has ended.   *)
(***************************************************************************)
NobodyLeft == \A r \in Request : stage[r] \in {"idle", "ended"}

Exit ==
  /\ phase = "stopping" /\ NobodyLeft
  /\ Goto("exited")
  /\ UNCHANGED requestVars

Gone == phase \in {"exited", "failed", "killed"} /\ UNCHANGED vars

Ends(r) ==
  \/ HealthAnswered(r) \/ BodyRejected(r) \/ BodyPanics(r)
  \/ Refused(r) \/ VerifyPanics(r)
  \/ \E t \in attempts[r] : Answered(r, t)
  \/ GivesUp(r)
  \/ NoWorker(r) \/ NearReplies(r) \/ NearErrs(r)
  \/ TimesOut(r)

Proceeds(r) ==
  \/ BodyAccepted(r) \/ Verified(r) \/ Ask(r)
  \/ \E m \in Message : RecordRead(r, m)
  \/ \E t \in attempts[r] : Missed(r, t)
  \/ Sends(r)

(***************************************************************************)
(* What is done without waiting for anybody.                               *)
(***************************************************************************)
OnTime(r) == Urgent(r) /\ (Ends(r) \/ Proceeds(r))

Next ==
  \/ ProcessStep /\ UNCHANGED requestVars
  \/ \E r \in Request : \E b \in Bodies[r] : Arrives(r, b)
  \/ \E r \in Request : Ends(r) \/ Proceeds(r) \/ NearExecutes(r) \/ Leaves(r)
  \/ Tick
  \/ Exit
  \/ Gone

Spec == Init /\ [][Next]_vars

(***************************************************************************)
(* The runtime runs what is ready, time passes, and start-up goes on once  *)
(* the key is typed (each cluster's initialisation ends: StartupEnds of    *)
(* module Cluster).  Nothing is assumed of clients, operators and NEAR.    *)
(***************************************************************************)
Fairness ==
  /\ WF_vars(StartStep /\ UNCHANGED requestVars)
  /\ \A r \in Request : WF_vars(OnTime(r))
  /\ WF_vars(Tick)
  /\ WF_vars(Exit)

FairSpec == Spec /\ Fairness

-----------------------------------------------------------------------------

Answers == {"none", "health", "rejected", "closed", "refused", "signed", "key", "mpc error",
            "created", "near error", "timeout", "left"}

(***************************************************************************)
(* Every variable holds a value of its type.                               *)
(***************************************************************************)
TypeOK ==
  /\ StartTypeOK
  /\ stage \in [Request -> {"idle", "reading", "verifying", "asking", "near", "ended"}]
  /\ body \in [Request -> Body \cup {NoBody}]
  /\ age \in [Request -> 0 .. ServiceLimit] /\ readAt \in [Request -> 0 .. ServiceLimit]
  /\ begun \in [Request -> Nat]
  /\ attempts \in [Request -> SUBSET [number : Nat, age : 0 .. TIMEOUT]]
  /\ answer \in [Request -> Answers]
  /\ verified \subseteq [request : Request, wallet : Wallet, message : Message, proof : Proof]
  /\ record \in [Request -> Message \cup {NoRecord}]
  /\ asked \subseteq [request : Request, uid : Uid, message : Message, proof : Proof]
  /\ transaction \in [Request -> {"none", "sent", "executed", "failed"}]
  /\ wallets \subseteq Wallet

(***************************************************************************)
(* An MPC server is only asked to sign what this very request has had      *)
(* verified before: the same message, the wallet of the same uid, and the  *)
(* proof in the very text that was verified, which is the text that was    *)
(* sent for /sign alone.  The one exception is /withdraw/sign, which does  *)
(* without verify (withdrawal.rs:28): it asks for the message of the       *)
(* transfer that NEAR returned to this request, with the withdrawals' uid, *)
(* and for no other.                                                       *)
(***************************************************************************)
WasVerified(x) ==
  [request |-> x.request, wallet |-> WalletOf[x.uid], message |-> x.message,
   proof |-> x.proof] \in verified

WasRead(x) ==
  /\ body[x.request].endpoint = "withdraw"
  /\ x.message = record[x.request] /\ x.message # NoRecord
  /\ x.uid = bridge_withdraw /\ x.proof = ProofModel(body[x.request])

OnlyVerifiedIsAsked == \A x \in asked : WasVerified(x) \/ WasRead(x)

(***************************************************************************)
(* What a client may conclude.  A signature is of its own message under    *)
(* its own uid; from the bridge's endpoints, of the transfer it named, for *)
(* a withdrawal as NEAR has it.  Told that its body or its proof was       *)
(* turned down, it knows that no MPC server has heard of the message.      *)
(* "Created" means that its own transaction made the wallet, so two        *)
(* clients that race for one wallet are never both told so.                *)
(***************************************************************************)
AnswersAreTrue ==
  \A r \in Request :
    /\ answer[r] = "signed" =>
         \E x \in asked : x.request = r /\ x.uid = UidOf(body[r]) /\ x.message = MessageOf(r)
    /\ answer[r] \in {"rejected", "refused", "closed"} => \A x \in asked : x.request # r
    /\ answer[r] = "created" =>
         \A s \in Request \ {r} :
           answer[s] = "created" => body[s].wallet # body[r].wallet

(***************************************************************************)
(* A client is told of a timeout only if its body came late, or the        *)
(* verification's limit and the rounds of requests to MPC servers add up   *)
(* to the service's limit: with 12 s for verification and 2 s per round, a *)
(* signature that takes one round of attempts is never cut off by the      *)
(* 15 s.  NEAR's library has no limit that the proxy knows of.             *)
(***************************************************************************)
Rounds(jobs, slots) == (jobs + slots - 1) \div slots

VerifyTime(b) == IF b.endpoint \in Signing THEN VerifyLimit[ProofModel(b)] ELSE 0
WorstCase(b) == VerifyTime(b) + Rounds(Jobs(b), Slots(b)) * TIMEOUT

TimeoutsForCause ==
  \A r \in Request :
    answer[r] = "timeout" =>
      \/ body[r].endpoint = "create_wallet"
      \/ readAt[r] + WorstCase(body[r]) >= ServiceLimit

(***************************************************************************)
(* A signal ends the process, however long clients, RPC servers, MPC       *)
(* servers or NEAR keep it waiting, and cuts nobody off: by then every     *)
(* request that was accepted has come to its end.                          *)
(***************************************************************************)
NobodyWaits == \A r \in Request : stage[r] \in {"idle", "ended"}

StopsGracefully == (phase = "stopping") ~> (phase = "exited" /\ NobodyWaits)
=============================================================================
