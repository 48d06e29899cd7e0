---------------------------- MODULE ClusterManager ----------------------------
(***************************************************************************)
(* One request of ClusterManager on the snapshots of its clusters: `sign`  *)
(* tries the combinations of `threshold` live servers in a random order,   *)
(* SIGN_CONCURRENCY at a time, and returns the first signature;            *)
(* `get_public_key` asks the live servers one after the other.             *)
(*                                                                         *)
(* A snapshot is the list of some earlier round (module Cluster), so the   *)
(* request starts from any set of servers per cluster, and servers go down *)
(* and come back while it runs.                                            *)
(***************************************************************************)
EXTENDS Naturals, FiniteSets

CONSTANTS
  Clusters,          \* the initialized clusters
  Server,            \* every MPC server
  ServersOf,         \* the servers of each cluster
  Threshold,         \* the threshold of each cluster
  SIGN_CONCURRENCY   \* attempts kept in flight, 3 in the code

ASSUME ClustersAssumption ==
  /\ IsFiniteSet(Server)
  /\ ServersOf \in [Clusters -> SUBSET Server]
  /\ Threshold \in [Clusters -> Nat]
ASSUME ConcurrencyAssumption == SIGN_CONCURRENCY \in Nat \ {0}

VARIABLES
  request,    \* "sign" or "get_public_key"
  live,       \* the snapshot of each cluster's live servers
  up,         \* the servers that take part in what they are asked, in time
  steady,     \* history: the servers that have been up since the request came
  queue,      \* combinations not attempted yet
  attempts,   \* sign requests in flight: a combination and its leader
  keyQueue,   \* entries of the lists get_public_key has not come to yet
  asked,      \* the entry get_public_key waits for, if any
  status,     \* "running", "ok", "err" or "dropped"
  signers     \* the combination, or the server, that answered the request

envVars == <<up, steady>>
signVars == <<queue, attempts>>
keyVars == <<keyQueue, asked>>
vars == <<request, live, envVars, signVars, keyVars, status, signers>>

-----------------------------------------------------------------------------
(* Faulty variants of the definitions below, for the mutation checks.      *)

CombinationsAcross(c) ==
  LET all == UNION {live[d] : d \in Clusters}
  IN  {S \in SUBSET all : Cardinality(S) = Threshold[c]}
CombinationsShort(c) ==
  IF Cardinality(live[c]) <= Threshold[c] THEN {}
  ELSE {S \in SUBSET live[c] : Cardinality(S) = Threshold[c]}
WithoutTimeout(t) == t.leader \notin steady
FirstOfEachCluster(x) == {y \in keyQueue : y.cluster # x.cluster}

-----------------------------------------------------------------------------

(***************************************************************************)
(* LiveServers::get_combinations: itertools' combinations, no combination  *)
(* when too few servers are alive.                                         *)
(***************************************************************************)
Combinations(c) ==
  IF Cardinality(live[c]) < Threshold[c] THEN {}
  ELSE {S \in SUBSET live[c] : Cardinality(S) = Threshold[c]}

AllCombinations ==
  UNION {{[cluster |-> c, members |-> S] : S \in Combinations(c)} : c \in Clusters}

(***************************************************************************)
(* What get_public_key walks: the live servers of every cluster.           *)
(***************************************************************************)
Entries == UNION {{[cluster |-> c, server |-> s] : s \in live[c]} : c \in Clusters}

Nobody == {}

Init ==
  /\ request \in {"sign", "get_public_key"}
  /\ live \in [Clusters -> SUBSET Server]
  /\ \A c \in Clusters : live[c] \subseteq ServersOf[c]
  /\ up \in SUBSET Server /\ steady = up
  /\ queue = IF request = "sign" THEN AllCombinations ELSE {}
  /\ attempts = {}
  /\ keyQueue = IF request = "sign" THEN {} ELSE Entries
  /\ asked = Nobody
  /\ status = "running"
  /\ signers = Nobody

Running == status = "running"

(***************************************************************************)
(* The environment: a server goes down, or is back.                        *)
(***************************************************************************)
GoDown(s) ==
  /\ Running /\ s \in up
  /\ up' = up \ {s}
  /\ steady' = steady \ {s}
  /\ UNCHANGED <<request, live, signVars, keyVars, status, signers>>

ComeBack(s) ==
  /\ Running /\ s \in Server \ up
  /\ up' = up \cup {s}
  /\ UNCHANGED <<request, live, steady, signVars, keyVars, status, signers>>

-----------------------------------------------------------------------------

HasRoom == Cardinality(attempts) < SIGN_CONCURRENCY

Leaders(x) == x.members

(***************************************************************************)
(* The stream hands out a combination and its future picks a leader.       *)
(***************************************************************************)
Attempt(x) ==
  /\ Running /\ request = "sign"
  /\ HasRoom
  /\ x \in queue
  /\ queue' = queue \ {x}
  /\ \E leader \in Leaders(x) :
       attempts' = attempts \cup
         {[cluster |-> x.cluster, members |-> x.members, leader |-> leader]}
  /\ UNCHANGED <<request, live, envVars, keyVars, status, signers>>

(***************************************************************************)
(* The empty combination of a cluster with threshold 0 has no leader: the  *)
(* attempt fails at once.                                                  *)
(***************************************************************************)
NoLeader(x) ==
  /\ Running /\ request = "sign"
  /\ HasRoom
  /\ x \in queue /\ Leaders(x) = {}
  /\ queue' = queue \ {x}
  /\ UNCHANGED <<request, live, envVars, attempts, keyVars, status, signers>>

(***************************************************************************)
(* The MPC protocol: the leader signs when the accounts it was given all   *)
(* take part.  The first signature ends the call; the rest is dropped.     *)
(***************************************************************************)
Signed(t) ==
  /\ Running /\ t \in attempts
  /\ t.members \subseteq up
  /\ status' = "ok"
  /\ signers' = t.members
  /\ attempts' = {}
  /\ UNCHANGED <<request, live, envVars, queue, keyVars>>

(***************************************************************************)
(* An attempt fails, by error or by the 2 s timeout, when somebody in it   *)
(* was away.                                                               *)
(***************************************************************************)
CanFail(t) == ~(t.members \subseteq steady)

AttemptFailed(t) ==
  /\ Running /\ t \in attempts
  /\ CanFail(t)
  /\ attempts' = attempts \ {t}
  /\ UNCHANGED <<request, live, envVars, queue, keyVars, status, signers>>

NothingLeft == queue = {}

SignFails ==
  /\ Running /\ request = "sign"
  /\ NothingLeft /\ attempts = {}
  /\ status' = "err"
  /\ UNCHANGED <<request, live, envVars, signVars, keyVars, signers>>

-----------------------------------------------------------------------------

(***************************************************************************)
(* get_public_key goes through the clusters one by one and through the     *)
(* servers of a cluster one by one.                                        *)
(***************************************************************************)
Begun(c) == {y \in Entries : y.cluster = c} \ keyQueue # {}
Finished(c) == \A y \in keyQueue : y.cluster # c
InTurn(x) == \A c \in Clusters : c = x.cluster \/ ~Begun(c) \/ Finished(c)
Rest(x) == keyQueue \ {x}

Ask(x) ==
  /\ Running /\ request = "get_public_key"
  /\ asked = Nobody /\ x \in keyQueue /\ InTurn(x)
  /\ asked' = {x}
  /\ keyQueue' = Rest(x)
  /\ UNCHANGED <<request, live, envVars, signVars, status, signers>>

KeyReturned(x) ==
  /\ Running /\ x \in asked /\ x.server \in up
  /\ status' = "ok"
  /\ signers' = {x.server}
  /\ asked' = Nobody
  /\ UNCHANGED <<request, live, envVars, signVars, keyQueue>>

KeyMissed(x) ==
  /\ Running /\ x \in asked /\ x.server \notin steady
  /\ asked' = Nobody
  /\ UNCHANGED <<request, live, envVars, signVars, keyQueue, status, signers>>

KeyFails ==
  /\ Running /\ request = "get_public_key"
  /\ asked = Nobody /\ keyQueue = {}
  /\ status' = "err"
  /\ UNCHANGED <<request, live, envVars, signVars, keyVars, signers>>

-----------------------------------------------------------------------------

(***************************************************************************)
(* The 15 s timeout of the service drops the request.                      *)
(***************************************************************************)
Drop ==
  /\ Running
  /\ status' = "dropped"
  /\ attempts' = {}
  /\ asked' = Nobody
  /\ UNCHANGED <<request, live, envVars, queue, keyQueue, signers>>

Ended == ~Running /\ UNCHANGED vars

SignStep ==
  \/ \E x \in queue : Attempt(x) \/ NoLeader(x)
  \/ \E t \in attempts : Signed(t) \/ AttemptFailed(t)
  \/ SignFails

KeyStep ==
  \/ \E x \in keyQueue : Ask(x)
  \/ \E x \in asked : KeyReturned(x) \/ KeyMissed(x)
  \/ KeyFails

Env == \E s \in Server : GoDown(s) \/ ComeBack(s)

Next == SignStep \/ KeyStep \/ Env \/ Drop \/ Ended

Spec == Init /\ [][Next]_vars

(***************************************************************************)
(* Every request to a server ends within api.rs's TIMEOUT, so an attempt   *)
(* that can end does.                                                      *)
(***************************************************************************)
FairSpec == Spec /\ WF_vars(SignStep) /\ WF_vars(KeyStep)

-----------------------------------------------------------------------------

(***************************************************************************)
(* Every variable holds a value of its type.                               *)
(***************************************************************************)
TypeOK ==
  /\ request \in {"sign", "get_public_key"}
  /\ live \in [Clusters -> SUBSET Server]
  /\ up \in SUBSET Server /\ steady \in SUBSET up
  /\ queue \in SUBSET [cluster : Clusters, members : SUBSET Server]
  /\ attempts \in SUBSET [cluster : Clusters, members : SUBSET Server, leader : Server]
  /\ \A t \in attempts : t.leader \in t.members
  /\ keyQueue \in SUBSET Entries /\ asked \in SUBSET Entries
  /\ status \in {"running", "ok", "err", "dropped"}
  /\ signers \in SUBSET Server

(***************************************************************************)
(* A signature comes from exactly `threshold` servers of one cluster:      *)
(* combinations of different clusters share the stream but never mix.      *)
(***************************************************************************)
SignedByOneCluster ==
  request = "sign" /\ status = "ok" =>
    \E c \in Clusters : signers \subseteq ServersOf[c] /\ Cardinality(signers) = Threshold[c]

(***************************************************************************)
(* "sign failed for all combinations" is only reported when no cluster had *)
(* `threshold` servers that were listed as live and stayed up throughout:  *)
(* crashes, flapping and the choice of leaders lose no possible signature. *)
(***************************************************************************)
CouldSign(c) ==
  \E S \in SUBSET (live[c] \cap steady) : S # {} /\ Cardinality(S) = Threshold[c]

SignFailureIsRight == request = "sign" /\ status = "err" => \A c \in Clusters : ~CouldSign(c)

(***************************************************************************)
(* get_public_key only fails when no listed server stayed up throughout.   *)
(***************************************************************************)
KeyFailureIsRight ==
  request = "get_public_key" /\ status = "err" => \A c \in Clusters : live[c] \cap steady = {}

(***************************************************************************)
(* A request keeps at most SIGN_CONCURRENCY sign requests open, so at most *)
(* that many groups of servers sign the same message at one time.          *)
(***************************************************************************)
AttemptsAreBounded == Cardinality(attempts) <= SIGN_CONCURRENCY

(***************************************************************************)
(* Every request is answered.                                              *)
(***************************************************************************)
Answered == <>(~Running)
=============================================================================
