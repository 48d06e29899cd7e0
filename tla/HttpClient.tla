----------------------------- MODULE HttpClient -----------------------------
(***************************************************************************)
(* The requests of one verification, as `post_json_receive_json` and       *)
(* `get_json` carry them out: one request per server, all polled by the    *)
(* same task, so that a panic in one ends them all.                        *)
(*                                                                         *)
(* A body, after from_utf8_lossy, is its length in bytes and the positions *)
(* between its characters; which of them decode as the wanted JSON is      *)
(* given.                                                                  *)
(***************************************************************************)
EXTENDS Naturals, FiniteSets

CONSTANTS
  Server,
  Bodies,        \* what a server may send
  Json,          \* the bodies that decode
  LOG_SNIP_MAX

(***************************************************************************)
(* What UTF-8 is: a character takes one to four bytes.                     *)
(***************************************************************************)
IsText(b) ==
  /\ b \in [bytes : Nat, boundaries : SUBSET Nat]
  /\ {0, b.bytes} \subseteq b.boundaries /\ b.boundaries \subseteq 0 .. b.bytes
  /\ \A n \in 1 .. b.bytes : (n .. n + 3) \cap b.boundaries # {}

ASSUME HttpAssumption ==
  /\ IsFiniteSet(Server)
  /\ \A b \in Bodies : IsText(b)
  /\ Json \subseteq Bodies
  /\ LOG_SNIP_MAX \in Nat

VARIABLES
  request,  \* what became of each server's request
  body,     \* per server, the body of its response, when it has one
  snip,     \* per server, how many bytes of it the error quotes
  total,    \* rpc_call_total
  fails,    \* rpc_call_fails
  task      \* "running", "panicked" or "finished"

response == <<body, snip>>
counters == <<total, fails>>
httpVars == <<request, response, counters, task>>

-----------------------------------------------------------------------------

NoText == [bytes |-> 0, boundaries |-> {0}]
Half == LOG_SNIP_MAX \div 2

(* Faulty variants of the definitions below, for the mutation checks.      *)

CutsAnyLength(b) == ~({Half, b.bytes - Half} \subseteq b.boundaries)
CountsWhenAnswered == IF \E s \in Server : body[s] # NoText THEN fails + 1 ELSE fails
OnlyRefusals(s) ==
  /\ task = "running" /\ request[s] = "unsent"
  /\ request' = [request EXCEPT ![s] = "RequestFailed"]
  /\ total' = total + 1 /\ fails' = fails + 1
  /\ UNCHANGED <<response, task>>

-----------------------------------------------------------------------------

(***************************************************************************)
(* snip_bytes: a long text is cut to its first and last bytes.  Slicing a  *)
(* str anywhere but between two characters panics.                         *)
(***************************************************************************)
IsLong(b) == b.bytes > LOG_SNIP_MAX
Splits(b) == IsLong(b) /\ ~({Half, b.bytes - Half} \subseteq b.boundaries)
Quoted(b) == IF IsLong(b) THEN 2 * Half ELSE b.bytes

HttpInit ==
  /\ request = [s \in Server |-> "unsent"]
  /\ body = [s \in Server |-> NoText]
  /\ snip = [s \in Server |-> 0]
  /\ total = 0 /\ fails = 0
  /\ task = "running"

Send(s) ==
  /\ task = "running" /\ request[s] = "unsent"
  /\ request' = [request EXCEPT ![s] = "sent"]
  /\ total' = total + 1
  /\ UNCHANGED <<response, fails, task>>

OneMore == fails + 1

(***************************************************************************)
(* No connection, no answer in time, or a body that breaks off.            *)
(***************************************************************************)
TransportFails(s) ==
  /\ task = "running" /\ request[s] = "sent"
  /\ request' = [request EXCEPT ![s] = "RequestFailed"]
  /\ fails' = OneMore
  /\ UNCHANGED <<response, total, task>>

Receive(s, status, b) ==
  /\ task = "running" /\ request[s] = "sent"
  /\ request' = [request EXCEPT ![s] = status]
  /\ body' = [body EXCEPT ![s] = b]
  /\ UNCHANGED <<snip, counters, task>>

(***************************************************************************)
(* An error quotes the body; counting the failure comes before the cut.    *)
(***************************************************************************)
Quotes(s, error) ==
  IF Splits(body[s])
  THEN task' = "panicked" /\ UNCHANGED <<request, snip>>
  ELSE /\ request' = [request EXCEPT ![s] = error]
       /\ snip' = [snip EXCEPT ![s] = Quoted(body[s])]
       /\ UNCHANGED task

NonSuccess(s) ==
  /\ task = "running" /\ request[s] = "non-success"
  /\ fails' = OneMore
  /\ Quotes(s, "RequestFailed")
  /\ UNCHANGED <<body, total>>

Decode(s) ==
  /\ task = "running" /\ request[s] = "success" /\ body[s] \in Json
  /\ request' = [request EXCEPT ![s] = "decoded"]
  /\ UNCHANGED <<response, counters, task>>

DecodeFails(s) ==
  /\ task = "running" /\ request[s] = "success" /\ body[s] \notin Json
  /\ Quotes(s, "JsonDecode")
  /\ UNCHANGED <<body, counters>>

Outcomes == {"decoded", "RequestFailed", "JsonDecode"}
Finish ==
  /\ task = "running"
  /\ \A s \in Server : request[s] \in Outcomes
  /\ task' = "finished"
  /\ UNCHANGED <<request, response, counters>>

(***************************************************************************)
(* Enough servers have agreed, or the caller has given up.                 *)
(***************************************************************************)
Dropped ==
  /\ task = "running"
  /\ task' = "finished"
  /\ UNCHANGED <<request, response, counters>>

Step(s) ==
  Send(s) \/ TransportFails(s) \/ NonSuccess(s) \/ Decode(s) \/ DecodeFails(s)

HttpNext ==
  \/ \E s \in Server : Step(s)
  \/ \E s \in Server, status \in {"success", "non-success"}, b \in Bodies : Receive(s, status, b)
  \/ Finish \/ Dropped

(***************************************************************************)
(* What arrives is dealt with and every request has a timeout; no server   *)
(* owes an answer.                                                         *)
(***************************************************************************)
HttpSpec ==
  /\ HttpInit /\ [][HttpNext]_httpVars
  /\ WF_httpVars(Finish) /\ \A s \in Server : WF_httpVars(Step(s))

-----------------------------------------------------------------------------

(***************************************************************************)
(* rpc_call_fails counts the requests that came to RequestFailed and no    *)
(* other, and the one that panicked on the way there.  That is more than   *)
(* its help text says (metrics.rs:76, "failed due to transport error"):    *)
(* answers with an unsuccessful status are counted as well, and answers    *)
(* that do not decode are not.                                             *)
(***************************************************************************)
FailuresAreCounted ==
  fails - Cardinality({s \in Server : request[s] = "RequestFailed"}) \in
    IF task = "panicked" THEN {0, 1} ELSE {0}

(***************************************************************************)
(* One server's answer ends the requests of all the others only by a body  *)
(* of more than LOG_SNIP_MAX bytes with a character of several bytes, in   *)
(* an answer that is an error or does not decode.                          *)
(***************************************************************************)
PanicNeedsWideText ==
  task = "panicked" =>
    \E s \in Server :
      /\ request[s] = "non-success" \/ body[s] \notin Json
      /\ body[s].bytes > LOG_SNIP_MAX
      /\ \E n \in 0 .. body[s].bytes : n \notin body[s].boundaries

(***************************************************************************)
(* The requests of a verification come to an end.                          *)
(***************************************************************************)
Ends == <>(task # "running")

(***************************************************************************)
(* "Combines transport & non-success HTTP into `RequestFailed`"            *)
(* (http_client.rs:68).                                                    *)
(***************************************************************************)
NonSuccessIsRequestFailed ==
  \A s \in Server :
    request[s] = "non-success" ~> request[s] = "RequestFailed" \/ task = "finished"
=============================================================================
