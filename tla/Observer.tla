------------------------------ MODULE Observer ------------------------------
(***************************************************************************)
(* The availability observer: every interval it goes through the chains of *)
(* a configuration, probes the chain's servers and sets two gauges:        *)
(*   server_up  1 or 0, by chain and by the last two parts of the domain;  *)
(*   delta      how many servers answered, less the chain's threshold.     *)
(* The servers come and go meanwhile.  Nothing cancels the shutdown token. *)
(***************************************************************************)
EXTENDS Integers, FiniteSets, Sequences

CONSTANTS
  Chain,
  Server,         \* server addresses
  Servers,        \* the list of servers of each chain
  Threshold,      \* and its threshold
  Domain,         \* the last two parts of an address's domain
  MaxConcurrent,  \* MAX_CONCURRENT_REQUESTS
  NoChain

ASSUME ObserverAssumption ==
  /\ Servers \in [Chain -> Seq(Server)] /\ Threshold \in [Chain -> Nat]
  /\ DOMAIN Domain = Server
  /\ MaxConcurrent \in Nat \ {0}
  /\ NoChain \notin Chain

VARIABLES
  up,         \* the servers that would answer a probe in time
  pending,    \* the chains that this pass has not checked yet
  checking,   \* the chain being checked
  pulled,     \* how many of its servers have been sent a probe
  results,    \* what they came to, in the order of completion
  server_up,  \* the gauge by chain and domain, empty until first set
  delta,      \* the gauge by chain, empty until first set
  seenUp,     \* history: its servers that were up since the check began
  shownUp     \* history: seenUp of the check that set a chain's gauges

round == <<checking, pulled, results, seenUp>>
gauges == <<server_up, delta, shownUp>>
vars == <<up, pending, round, gauges>>

-----------------------------------------------------------------------------
(* Faulty variants of the definitions below, for the mutation checks.      *)

NoChainLabel(c, s) == <<CHOOSE x \in Chain : TRUE, Domain[s]>>
CountsAnswers(r) == Len(r)
SkipsWhenAllDown == Len(results) = Len(Servers[checking]) /\ \E j \in DOMAIN results : results[j].ok

-----------------------------------------------------------------------------

Label(c, s) == <<c, Domain[s]>>
Listed(c) == IF c = NoChain THEN {} ELSE {Servers[c][i] : i \in DOMAIN Servers[c]}
Labels == {<<c, Domain[s]>> : c \in Chain, s \in Server}

Init ==
  /\ up \in SUBSET Server
  /\ pending = {} /\ checking = NoChain /\ pulled = 0 /\ results = << >> /\ seenUp = {}
  /\ server_up = [l \in Labels |-> {}] /\ delta = [c \in Chain |-> {}]
  /\ shownUp = [c \in Chain |-> {}]

Flip(s) ==
  /\ up' = IF s \in up THEN up \ {s} ELSE up \cup {s}
  /\ seenUp' = seenUp \cup (up' \cap Listed(checking))
  /\ UNCHANGED <<pending, checking, pulled, results, gauges>>

(***************************************************************************)
(* The interval ticks.  A pass runs inside the branch of the select, so    *)
(* the next tick waits for it.                                             *)
(***************************************************************************)
Tick ==
  /\ pending = {} /\ checking = NoChain
  /\ pending' = Chain
  /\ UNCHANGED <<up, round, gauges>>

CheckChain(c) ==
  /\ checking = NoChain /\ c \in pending
  /\ pending' = pending \ {c}
  /\ checking' = c /\ pulled' = 0 /\ results' = << >> /\ seenUp' = up \cap Listed(c)
  /\ UNCHANGED <<up, gauges>>

(***************************************************************************)
(* healthcheck_many: buffer_unordered takes the servers in the order of    *)
(* the list, at most MaxConcurrent at a time, and yields them as they end. *)
(***************************************************************************)
Open == {i \in 1 .. pulled : \A j \in DOMAIN results : results[j].slot # i}
HasNext == pulled < Len(Servers[checking])

Pull ==
  /\ checking # NoChain
  /\ HasNext /\ Cardinality(Open) < MaxConcurrent
  /\ pulled' = pulled + 1
  /\ UNCHANGED <<up, pending, checking, results, seenUp, gauges>>

(***************************************************************************)
(* A probe ends: a server that is down is never taken for up, a slow one   *)
(* or one that answers with an error status may be taken for down.         *)
(***************************************************************************)
Ends(i, ok) ==
  /\ i \in Open
  /\ ok => Servers[checking][i] \in up
  /\ results' = Append(results, [slot |-> i, ok |-> ok])
  /\ UNCHANGED <<up, pending, checking, pulled, seenUp, gauges>>

RoundOver == Len(results) = Len(Servers[checking])
Available(r) == Cardinality({j \in DOMAIN r : r[j].ok})

(***************************************************************************)
(* The results are gone through in the order of completion, so the last    *)
(* one of a label stays.                                                   *)
(***************************************************************************)
OfLabel(l) == {j \in DOMAIN results : Label(checking, Servers[checking][results[j].slot]) = l}
LastOf(J) == CHOOSE j \in J : \A k \in J : k <= j
Gauge(l) ==
  IF OfLabel(l) = {} THEN server_up[l] ELSE {IF results[LastOf(OfLabel(l))].ok THEN 1 ELSE 0}

Record ==
  /\ checking # NoChain
  /\ RoundOver
  /\ server_up' = [l \in Labels |-> Gauge(l)]
  /\ delta' = [delta EXCEPT ![checking] = {Available(results) - Threshold[checking]}]
  /\ shownUp' = [shownUp EXCEPT ![checking] = seenUp]
  /\ checking' = NoChain /\ pulled' = 0 /\ results' = << >> /\ seenUp' = {}
  /\ UNCHANGED <<up, pending>>

Probe == \E i \in Open : Ends(i, TRUE) \/ Ends(i, FALSE)

Next ==
  \/ \E s \in Server : Flip(s)
  \/ Tick \/ Pull \/ Probe \/ Record
  \/ \E c \in Chain : CheckChain(c)

(***************************************************************************)
(* The interval keeps ticking and every probe times out after 5 seconds.   *)
(***************************************************************************)
Fairness ==
  /\ WF_vars(Tick) /\ WF_vars(Pull) /\ WF_vars(Probe) /\ WF_vars(Record)
  /\ \A c \in Chain : WF_vars(CheckChain(c))

Spec == Init /\ [][Next]_vars /\ Fairness

-----------------------------------------------------------------------------

Slots(c) == DOMAIN Servers[c]

(***************************************************************************)
(* The margin shown for a chain is never better than it was: every server  *)
(* counted was up at some moment of the check, whatever the order of the   *)
(* answers and whichever servers share a domain.                           *)
(***************************************************************************)
MarginWasReal ==
  \A c \in Chain : \A d \in delta[c] :
    d + Threshold[c] <= Cardinality({i \in Slots(c) : Servers[c][i] \in shownUp[c]})

(***************************************************************************)
(* "1 if server is available, 0 if not" (observer.rs:15), of the servers   *)
(* that share their domain with no other of the same chain, though they    *)
(* may share it with another chain's: shown as available, a server was up  *)
(* at some moment of the check.  Servers that do share a gauge overwrite   *)
(* each other's value.                                                     *)
(***************************************************************************)
Alone(c, i) == \A j \in Slots(c) : Domain[Servers[c][j]] = Domain[Servers[c][i]] => i = j
LoneServersAreShown ==
  \A c \in Chain : \A i \in Slots(c) :
    Alone(c, i) /\ server_up[<<c, Domain[Servers[c][i]]>>] = {1} => Servers[c][i] \in shownUp[c]

(***************************************************************************)
(* When too few servers of a chain are left for its threshold, and that    *)
(* lasts, the chain's margin drops below zero and stays there.             *)
(***************************************************************************)
TooFewUp(c) == Cardinality({i \in Slots(c) : Servers[c][i] \in up}) < Threshold[c]
Negative(c) == \E d \in delta[c] : d < 0
Steady == <>[][FALSE]_up
OutagesAreShown ==
  \A c \in Chain : Steady /\ <>[]TooFewUp(c) => <>[]Negative(c)
=============================================================================
