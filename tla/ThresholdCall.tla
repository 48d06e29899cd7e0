---------------------------- MODULE ThresholdCall ----------------------------
(***************************************************************************)
(* One run of `ThresholdVerifier::threshold_call`: the verifiers are       *)
(* shuffled, streamed through `buffer_unordered(threshold)` and their      *)
(* answers counted as they come in, until one answer has `threshold`       *)
(* votes.  Every slot of the configuration is one verifier.                *)
(*                                                                         *)
(* `buffer_unordered(n)` works as futures-util implements it: each `next()`*)
(* first tops the set of futures up to n from the stream, then polls; a    *)
(* future does nothing before its first poll (Invoke), and a finished one  *)
(* ends `next()` before the others are polled.  The shuffle is the free    *)
(* choice of the slot in Pull.                                             *)
(***************************************************************************)
EXTENDS RpcConfig, Integers, FiniteSets

CONSTANTS Values, Failure, Nothing, Configs   \* as in ThresholdOracle

ASSUME ValuesAssumption == Failure \notin Values /\ Nothing \notin Values
ASSUME ConfigsAssumption == Configs \subseteq ChainValidationConfig

VARIABLES
  config, answers, status, result,   \* as in ThresholdOracle
  waiting,     \* slots the stream has not handed out yet
  inflight,    \* slots whose future is in the buffer
  invoked,     \* slots whose future has been polled: their request was sent
  votes,       \* per answer, the slots that gave it
  errors       \* the ids (URLs) of the verifiers that failed

vars == <<config, answers, status, result, waiting, inflight, invoked, votes, errors>>

Oracle == INSTANCE ThresholdOracle

Slots == SlotsOf(config)

-----------------------------------------------------------------------------
(* Faulty variants of the definitions below, for the mutation checks.      *)

ReachedLate(ids) == Cardinality(ids) > config.threshold
HasRoomOffByOne == Cardinality(inflight) <= config.threshold
HasRoomShort == Cardinality(inflight) + 1 < config.threshold
VoteIdsByUrl(s) == {t \in Slots : config.servers[t] = config.servers[s]}

-----------------------------------------------------------------------------

Init ==
  /\ config \in Configs
  /\ answers \in [Slots -> Values \cup {Failure}]
  /\ status = "running"
  /\ result = Nothing
  /\ waiting = Slots
  /\ inflight = {}
  /\ invoked = {}
  /\ votes = [v \in Values |-> {}]
  /\ errors = {}

Running == status = "running"

(***************************************************************************)
(* The buffer's capacity is `threshold`; with capacity 0 it never polls    *)
(* the stream and stays pending.                                           *)
(***************************************************************************)
HasRoom == Cardinality(inflight) < config.threshold
Polls == config.threshold > 0
ToppedUp == waiting = {} \/ ~HasRoom

(***************************************************************************)
(* `entry.len() >= threshold`                                              *)
(***************************************************************************)
Reached(ids) == Cardinality(ids) >= config.threshold

VoteIds(s) == {s}
ErrorId(s) == config.servers[s]

Pull(s) ==
  /\ Running
  /\ HasRoom
  /\ s \in waiting
  /\ waiting' = waiting \ {s}
  /\ inflight' = inflight \cup {s}
  /\ UNCHANGED <<config, answers, status, result, invoked, votes, errors>>

Invoke(s) ==
  /\ Running
  /\ ToppedUp
  /\ s \in inflight \ invoked
  /\ invoked' = invoked \cup {s}
  /\ UNCHANGED <<config, answers, status, result, waiting, inflight, votes, errors>>

(***************************************************************************)
(* `responses.next()` yields the answer of slot s.                         *)
(***************************************************************************)
Yields(s) == Running /\ ToppedUp /\ s \in inflight \cap invoked

Entry(s) == votes[answers[s]] \cup VoteIds(s)

CountVote(s) ==
  /\ Yields(s)
  /\ answers[s] \in Values
  /\ ~Reached(Entry(s))
  /\ votes' = [votes EXCEPT ![answers[s]] = Entry(s)]
  /\ inflight' = inflight \ {s}
  /\ UNCHANGED <<config, answers, status, result, waiting, invoked, errors>>

(***************************************************************************)
(* The early return: the rest of the buffer is dropped, its requests with  *)
(* it.                                                                     *)
(***************************************************************************)
ReturnVote(s) ==
  /\ Yields(s)
  /\ answers[s] \in Values
  /\ Reached(Entry(s))
  /\ votes' = [votes EXCEPT ![answers[s]] = Entry(s)]
  /\ status' = "ok"
  /\ result' = answers[s]
  /\ inflight' = {}
  /\ UNCHANGED <<config, answers, waiting, invoked, errors>>

CountError(s) ==
  /\ Yields(s)
  /\ answers[s] = Failure
  /\ errors' = errors \cup {ErrorId(s)}
  /\ inflight' = inflight \ {s}
  /\ UNCHANGED <<config, answers, status, result, waiting, invoked, votes>>

(***************************************************************************)
(* The stream ends.  `ThresholdVerifier::verify` builds its error with     *)
(* chain_id(), which panics on an empty Vec; the NEAR wrappers do not.     *)
(***************************************************************************)
NoConsensus ==
  /\ Running
  /\ Polls
  /\ waiting = {} /\ inflight = {}
  /\ \/ status' = "err"
     \/ status' = "panic" /\ Slots = {}
  /\ UNCHANGED <<config, answers, result, waiting, inflight, invoked, votes, errors>>

(***************************************************************************)
(* The caller's future is dropped at an await point, or unwound by a panic *)
(* in one of the requests, which its task polls.                           *)
(***************************************************************************)
Drop ==
  /\ Running
  /\ status' = "dropped"
  /\ inflight' = {}
  /\ UNCHANGED <<config, answers, result, waiting, invoked, votes, errors>>

Ended == ~Running /\ UNCHANGED vars

Advance == (\E s \in Slots : Pull(s) \/ Invoke(s) \/ CountVote(s) \/ ReturnVote(s) \/ CountError(s)) \/ NoConsensus

Next == Advance \/ Drop \/ Ended

Spec == Init /\ [][Next]_vars

(***************************************************************************)
(* The runtime keeps polling the call and every verifier's future ends:    *)
(* http_client bounds each request by TIMEOUT.                             *)
(***************************************************************************)
FairSpec == Spec /\ WF_vars(Advance)

-----------------------------------------------------------------------------

(***************************************************************************)
(* Every variable holds a value of its type; errors is keyed by URL.       *)
(***************************************************************************)
TypeOK ==
  /\ config \in Configs
  /\ answers \in [Slots -> Values \cup {Failure}]
  /\ status \in {"running", "ok", "err", "panic", "dropped"}
  /\ result \in Values \cup {Nothing}
  /\ waiting \in SUBSET Slots
  /\ inflight \in SUBSET Slots
  /\ invoked \in SUBSET Slots
  /\ votes \in [Values -> SUBSET Slots]
  /\ errors \in SUBSET Url

(***************************************************************************)
(* An accepted answer was given by at least `threshold` verifiers, however *)
(* their answers were ordered: fewer than `threshold` lying servers cannot *)
(* decide a call.                                                          *)
(***************************************************************************)
AcceptedIsBacked == status = "ok" => result \in Values /\ Oracle!Reaches(result)

(***************************************************************************)
(* "No consensus" is only reported when no answer has `threshold` backers: *)
(* a shuffle or an order of answers never loses a consensus that exists.   *)
(***************************************************************************)
RejectionIsRight == status \in {"err", "panic"} => \A v \in Values : ~Oracle!Reaches(v)

(***************************************************************************)
(* With a validated configuration the outcome does not depend on the       *)
(* shuffle or on who answers first: no other answer could have won.        *)
(***************************************************************************)
OutcomeIsUnique ==
  Validated(config) /\ status = "ok" =>
    \A v \in Values : Oracle!Reaches(v) => v = result

(***************************************************************************)
(* With a validated configuration an accepted answer comes from at least   *)
(* `threshold` different servers, not from one that is listed repeatedly.  *)
(***************************************************************************)
AcceptedByDistinctServers ==
  Validated(config) /\ status = "ok" =>
    Cardinality({config.servers[s] : s \in votes[result]}) >= config.threshold

(***************************************************************************)
(* A call keeps at most `threshold` requests open.  When everyone agrees,  *)
(* it sends at most 2 * threshold - 1, since each of the threshold - 1     *)
(* answers before the last makes room for one more request.                *)
(***************************************************************************)
RequestsAreBounded ==
  /\ Cardinality(inflight) <= config.threshold
  /\ \A v \in Values :
       config.threshold > 0 /\ Slots \subseteq Oracle!Backing(v) =>
         Cardinality(invoked) <= 2 * config.threshold - 1

(***************************************************************************)
(* A verifier loaded with threshold 0 never accepts and never fails: the   *)
(* call can only be abandoned by its caller.                               *)
(***************************************************************************)
ZeroThresholdNeverDecides == config.threshold = 0 => status \in {"running", "dropped"}

(***************************************************************************)
(* Every call with a positive threshold ends, even if all servers fail.    *)
(***************************************************************************)
Termination == config.threshold > 0 => <>(~Running)

(***************************************************************************)
(* The call implements the atomic decision of ThresholdOracle.             *)
(***************************************************************************)
Implements == Oracle!OracleSpec
=============================================================================
