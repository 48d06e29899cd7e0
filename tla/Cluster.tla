------------------------------- MODULE Cluster -------------------------------
(***************************************************************************)
(* One MPC cluster as the proxy sees it: `Cluster::new_initialized` asks   *)
(* every configured server for its participants, the first one to answer   *)
(* decides the threshold, and a background job is started to repeat the    *)
(* round and replace the list of live servers.  The servers come and go on *)
(* their own.                                                              *)
(*                                                                         *)
(* The job's CancellationToken is tokio-util's: a child token of a         *)
(* cancelled token is born cancelled.  `select!` picks any ready branch.   *)
(* The round's concurrency cap of 5 only delays probes and is left out.    *)
(***************************************************************************)
EXTENDS Naturals, FiniteSets, Sequences

CONSTANTS
  Server,      \* the configured servers of the cluster
  Reported     \* the threshold each server puts in its ParticipantsInfo

ASSUME ServerAssumption == IsFiniteSet(Server)
ASSUME ReportedAssumption == Reported \in [Server -> Nat]

VARIABLES
  up,          \* the servers that would answer get_participants in time
  phase,       \* "init", "ready" or "failed": new_initialized's outcome
  unasked,     \* servers the current round has no answer from yet
  found,       \* servers that answered in the current round, in that order
  threshold,   \* Cluster.threshold
  live,        \* LiveServers.servers
  cancelled,   \* Cluster.cancel
  jobToken,    \* the job's token is cancelled
  job,         \* "none", "select", "compute" or "stopped"
  tick,        \* the interval has a tick ready
  seenUp,      \* history: servers that were up at some moment of this round
  liveSeenUp   \* history: seenUp of the round that produced live

roundVars == <<unasked, found, seenUp>>
listVars == <<live, liveSeenUp>>
jobVars == <<cancelled, jobToken, job, tick>>
vars == <<up, phase, threshold, roundVars, listVars, jobVars>>

SetOf(seq) == {seq[i] : i \in DOMAIN seq}

-----------------------------------------------------------------------------
(* Faulty variants of the definitions below, for the mutation checks.      *)

KeepsAnyAnswer(s) == TRUE
WaitsForAll == unasked = {} /\ SetOf(found) = Server

-----------------------------------------------------------------------------

Init ==
  /\ up \in SUBSET Server
  /\ phase = "init"
  /\ unasked = Server /\ found = << >> /\ seenUp = up
  /\ threshold = 0
  /\ live = << >> /\ liveSeenUp = {}
  /\ cancelled = FALSE /\ jobToken = FALSE /\ job = "none" /\ tick = FALSE

(***************************************************************************)
(* The environment: a server stops or starts answering.                    *)
(***************************************************************************)
Flip(s) ==
  /\ up' = IF s \in up THEN up \ {s} ELSE up \cup {s}
  /\ seenUp' = seenUp \cup up'
  /\ UNCHANGED <<phase, unasked, found, threshold, listVars, jobVars>>

(***************************************************************************)
(* compute_alive_once: one server's probe ends, with its participants or   *)
(* with an error or the 2 s timeout, which drop it from the round.         *)
(***************************************************************************)
Computing == phase = "init" \/ job = "compute"
Answers(s) == s \in up
Listed(s) == Append(found, s)

Probe(s) ==
  /\ Computing
  /\ s \in unasked
  /\ unasked' = unasked \ {s}
  /\ found' = IF Answers(s) THEN Listed(s) ELSE found
  /\ UNCHANGED <<up, phase, threshold, seenUp, listVars, jobVars>>

RoundOver == unasked = {}

StartRound ==
  /\ unasked' = Server
  /\ found' = << >>
  /\ seenUp' = up

EndRound == live' = found /\ liveSeenUp' = seenUp

(***************************************************************************)
(* new_initialized with an empty round: the caller drops the cluster.      *)
(***************************************************************************)
InitFails ==
  /\ phase = "init" /\ RoundOver /\ found = << >>
  /\ phase' = "failed"
  /\ UNCHANGED <<up, threshold, roundVars, listVars, jobVars>>

(***************************************************************************)
(* new_initialized succeeds.  start_alive_job first calls stop_alive_job,  *)
(* which cancels the cluster's token, and then takes a child of it.  The   *)
(* first tick of an interval is ready at once.                             *)
(***************************************************************************)
InitReady ==
  /\ phase = "init" /\ RoundOver /\ found # << >>
  /\ phase' = "ready"
  /\ threshold' = Reported[Head(found)]
  /\ EndRound
  /\ cancelled' = TRUE
  /\ jobToken' = cancelled'
  /\ job' = "select"
  /\ tick' = TRUE
  /\ UNCHANGED <<up, roundVars>>

(***************************************************************************)
(* Time passes: the next tick of the 15 s interval becomes ready.          *)
(***************************************************************************)
NextTick ==
  /\ job \in {"select", "compute"} /\ ~tick
  /\ tick' = TRUE
  /\ UNCHANGED <<up, phase, threshold, roundVars, listVars, cancelled, jobToken, job>>

JobStops == jobToken

JobCancelled ==
  /\ job = "select" /\ JobStops
  /\ job' = "stopped"
  /\ UNCHANGED <<up, phase, threshold, roundVars, listVars, cancelled, jobToken, tick>>

JobTicks ==
  /\ job = "select" /\ tick
  /\ tick' = FALSE
  /\ job' = "compute"
  /\ StartRound
  /\ UNCHANGED <<up, phase, threshold, listVars, cancelled, jobToken>>

JobWrites ==
  /\ job = "compute" /\ RoundOver
  /\ EndRound
  /\ job' = "select"
  /\ UNCHANGED <<up, phase, threshold, roundVars, cancelled, jobToken, tick>>

Next ==
  \/ \E s \in Server : Flip(s) \/ Probe(s)
  \/ InitFails \/ InitReady
  \/ NextTick \/ JobCancelled \/ JobTicks \/ JobWrites

Spec == Init /\ [][Next]_vars

(***************************************************************************)
(* Probes are bounded by HEALTHCHECK_TIMEOUT and the runtime polls the     *)
(* job; `select!` polls its branches in random order, so a branch that is  *)
(* ready again and again is not passed over for ever.                      *)
(***************************************************************************)
Fairness ==
  /\ \A s \in Server : WF_vars(Probe(s))
  /\ WF_vars(InitFails) /\ WF_vars(InitReady) /\ WF_vars(JobWrites)
  /\ WF_vars(NextTick)
  /\ SF_vars(JobCancelled) /\ SF_vars(JobTicks)

FairSpec == Spec /\ Fairness

-----------------------------------------------------------------------------

(***************************************************************************)
(* A server is only offered as live if it was up at some moment of the     *)
(* round that produced the list, however servers flapped meanwhile.        *)
(***************************************************************************)
LiveWasUp == SetOf(live) \subseteq liveSeenUp

(***************************************************************************)
(* Startup ends whatever the servers do: ClusterManager::new is not stuck. *)
(***************************************************************************)
StartupEnds == <>(phase # "init")

(***************************************************************************)
(* cluster.rs: the list holds "combinations of `threshold` live servers".  *)
(* A server that is gone for good leaves the list in the end.              *)
(***************************************************************************)
DeadServerLeaves ==
  \A s \in Server : (<>[](phase = "ready" /\ s \notin up)) => <>(phase = "ready" /\ s \notin SetOf(live))
=============================================================================
