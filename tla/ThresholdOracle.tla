--------------------------- MODULE ThresholdOracle ---------------------------
(***************************************************************************)
(* What `ThresholdVerifier::threshold_call` promises its caller, with no   *)
(* streams and no concurrency: the answer is decided in one step by what   *)
(* the configured servers would say.                                       *)
(***************************************************************************)
EXTENDS RpcConfig, Integers, FiniteSets

CONSTANTS
  Values,    \* answers a server may give (the type R of the code)
  Failure,   \* the answer of a server that errs, is unreachable or times out
  Nothing,   \* the caller's result before there is one
  Configs    \* the configurations the verifier may be built from

VARIABLES
  config,    \* the fields threshold and verifiers of the ThresholdVerifier
  answers,   \* what each slot of config.servers answers if it is asked
  status,    \* of the call
  result     \* the value returned with Ok

ovars == <<config, answers, status, result>>

Slots == SlotsOf(config)

(***************************************************************************)
(* The slots whose server answers v, and whether they are enough.          *)
(***************************************************************************)
Backing(v) == {s \in Slots : answers[s] = v}
Reaches(v) == Cardinality(Backing(v)) >= config.threshold

OracleInit ==
  /\ config \in Configs
  /\ answers \in [Slots -> Values \cup {Failure}]
  /\ status = "running"
  /\ result = Nothing

(***************************************************************************)
(* Ok(v) for some v that enough slots back.  `buffer_unordered(0)` never   *)
(* polls anything, so a call with threshold 0 never decides.               *)
(***************************************************************************)
Accept(v) ==
  /\ status = "running"
  /\ config.threshold > 0
  /\ Reaches(v)
  /\ status' = "ok"
  /\ result' = v
  /\ UNCHANGED <<config, answers>>

(***************************************************************************)
(* Err("No consensus").  `ThresholdVerifier::verify` then asks the first   *)
(* verifier for its chain and panics when there is none.                   *)
(***************************************************************************)
Reject ==
  /\ status = "running"
  /\ config.threshold > 0
  /\ \A v \in Values : ~Reaches(v)
  /\ \/ status' = "err"
     \/ status' = "panic" /\ Slots = {}
  /\ UNCHANGED <<config, answers, result>>

(***************************************************************************)
(* The caller drops the future: the 15 s request timeout of the service,   *)
(* or a sibling of a `try_join_all` that failed first.  Or a verifier      *)
(* panics, which unwinds the task that the call shares with its caller.    *)
(***************************************************************************)
Abandon ==
  /\ status = "running"
  /\ status' = "dropped"
  /\ UNCHANGED <<config, answers, result>>

OracleNext == (\E v \in Values : Accept(v)) \/ Reject \/ Abandon

OracleSpec == OracleInit /\ [][OracleNext]_ovars
=============================================================================
