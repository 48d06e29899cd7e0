---------------------------- MODULE BridgeLedger ----------------------------
(***************************************************************************)
(* What the bridge promises, whoever asks for what and in whatever order:  *)
(* the books of a bridge in which every step is taken once, for all to     *)
(* see.  Module Bridge, where the steps on the two sides are tied together *)
(* only by signatures, is shown to implement it.                           *)
(***************************************************************************)
EXTENDS ChainIds

CONSTANTS
  Actions,   \* the deposits and withdrawals that are made or asked for
  Counting   \* the chains that pay a receiver's transfers in order

VARIABLES
  held,      \* deposits that a treasury holds
  credited,  \* deposits that NEAR has credited
  recorded,  \* withdrawals that NEAR has taken from an account
  paid,      \* withdrawals that a treasury has paid
  closed     \* withdrawals that NEAR has struck off

books == <<held, credited, recorded, paid, closed>>

-----------------------------------------------------------------------------

Open == held = {} /\ credited = {} /\ recorded = {} /\ paid = {} /\ closed = {}

SameSlot(d, e) == d.chain_id = e.chain_id /\ d.nonce = e.nonce

(***************************************************************************)
(* A deposit is credited once, as the treasury holds it.                   *)
(***************************************************************************)
Hold(d) ==
  /\ \A e \in held : ~SameSlot(d, e)
  /\ held' = held \cup {d}
  /\ UNCHANGED <<credited, recorded, paid, closed>>

Credit(d) ==
  /\ d \in held \ credited
  /\ credited' = credited \cup {d}
  /\ UNCHANGED <<held, recorded, paid, closed>>

Record(w) ==
  /\ \A v \in recorded \cup closed : v.nonce < w.nonce
  /\ recorded' = recorded \cup {w}
  /\ UNCHANGED <<held, credited, paid, closed>>

(***************************************************************************)
(* A withdrawal is paid once, on the chain it was recorded for, and never  *)
(* after it was struck off.                                                *)
(***************************************************************************)
Pay(w) ==
  /\ w \in recorded \ paid
  /\ paid' = paid \cup {w}
  /\ UNCHANGED <<held, credited, recorded, closed>>

(***************************************************************************)
(* It is struck off once it was paid, or once a chain that pays in order   *)
(* has passed it; such a chain begins beyond 0.                            *)
(***************************************************************************)
Overtakes(p, w) ==
  p.chain_id = w.chain_id /\ p.receiver = w.receiver /\ p.nonce > w.nonce

Passed(w) == w.chain_id \in Counting /\ (w.nonce = 0 \/ \E p \in paid : Overtakes(p, w))

Close(w) ==
  /\ w \in recorded
  /\ w \in paid \/ Passed(w)
  /\ recorded' = recorded \ {w}
  /\ closed' = closed \cup {w}
  /\ UNCHANGED <<held, credited, paid>>

Entry == \E d \in Actions : Hold(d) \/ Credit(d) \/ Record(d) \/ Pay(d) \/ Close(d)

LedgerSpec == Open /\ [][Entry]_books
=============================================================================
