------------------------------- MODULE Bridge -------------------------------
(***************************************************************************)
(* The proxy's three bridge endpoints, between the omni bridge on NEAR and *)
(* the treasuries on the other chains:                                     *)
(*   deposit    signs, for NEAR, that a chain holds a deposit;             *)
(*   withdraw   signs, for a chain, a transfer that NEAR has recorded;     *)
(*   clear      signs, for NEAR, that a transfer's nonce is used up.       *)
(* A request reads one side, then the other, then asks the MPC to sign;    *)
(* both sides and the other requests move on meanwhile.                    *)
(*                                                                         *)
(* What a threshold call reports is what the contract said at a block that *)
(* is never replaced (VerdictIsFinal of EvmVerifier).  The facts asked for *)
(* here never cease to hold, so a report of one is modelled by the fact    *)
(* itself and a late or failed report by Fails.                            *)
(***************************************************************************)
EXTENDS ChainIds

CONSTANTS
  Request,     \* places for requests being served
  Receiver,    \* receivers, each with its token
  Actions,     \* the deposits and withdrawals that are made or asked for
  AmountWord   \* 2^64: Solana's amounts are u64, the others' u128

VARIABLES
  deposits,   \* what the treasuries hold
  minted,     \* the deposits NEAR has credited
  transfers,  \* the withdrawals recorded on NEAR
  removed,    \* those it has removed from its records
  paid,       \* the withdrawals the treasuries have paid
  last,       \* per chain and receiver, the last nonce a treasury has paid
  signed,     \* the signatures the proxy has returned
  request     \* per place, the request being served

near == <<minted, transfers, removed>>
chain == <<deposits, paid, last>>
vars == <<near, chain, signed, request>>

DepositAction == [chain_id : ChainId, nonce : Nat, receiver : Receiver, amount : Nat]

Account(w) == <<w.chain_id, w.receiver>>
Accounts == {Account(w) : w \in Actions}

ASSUME BridgeAssumption == Actions \subseteq DepositAction /\ AmountWord \in Nat \ {0}

-----------------------------------------------------------------------------
(* Faulty variants of the definitions below, for the mutation checks.      *)

LeavesOutChain(d) ==
  [tag |-> "transfer", nonce |-> d.nonce, chain_id |-> Near, receiver |-> d.receiver,
   amount |-> d.amount]
LeavesOutNonce(n) == [tag |-> "CLEAR_HOT_BRIDGE_NONCE", nonce |-> 1]
OneUid(endpoint) == "bridge_deposit"
OffByOne(w) == w.nonce <= last[Account(w)] + 1

-----------------------------------------------------------------------------
(***************************************************************************)
(* build_challenge_for_deposit, for deposits and withdrawals alike.  It    *)
(* panics on NEAR, and on an amount Solana's u64 does not hold.            *)
(***************************************************************************)
Fits(d) == d.chain_id # Near /\ (d.chain_id = Solana => d.amount < AmountWord)

Challenge(d) ==
  [tag |-> "transfer", nonce |-> d.nonce, chain_id |-> d.chain_id, receiver |-> d.receiver,
   amount |-> d.amount]

(***************************************************************************)
(* build_challenge_for_removal.                                            *)
(***************************************************************************)
Removal(n) == [tag |-> "CLEAR_HOT_BRIDGE_NONCE", nonce |-> n]

Messages == {Challenge(d) : d \in Actions} \cup {Removal(d.nonce) : d \in Actions}

(***************************************************************************)
(* The wallet, so the key, that each endpoint signs with.                  *)
(***************************************************************************)
UidOf(endpoint) == IF endpoint = "withdraw" THEN "bridge_withdraw" ELSE "bridge_deposit"

Signatures == [uid : {"bridge_deposit", "bridge_withdraw"}, message : Messages]
DepositProof(d) == [uid |-> "bridge_deposit", message |-> Challenge(d)]
WithdrawalProof(w) == [uid |-> "bridge_withdraw", message |-> Challenge(w)]
RemovalProof(w) == [uid |-> "bridge_deposit", message |-> Removal(w.nonce)]

-----------------------------------------------------------------------------
(***************************************************************************)
(* The contracts.  Treasuries on TON and Solana keep the last nonce they   *)
(* paid a receiver, the others the set of nonces they paid.                *)
(***************************************************************************)
Counting == {Solana, Ton, TON_V2}
IsExecuted(w) == \E p \in paid : p.chain_id = w.chain_id /\ p.nonce = w.nonce
Pays(w) ==
  IF w.chain_id \in Counting THEN w.nonce > last[Account(w)] ELSE ~IsExecuted(w)

(***************************************************************************)
(* What the verifiers ask of a transfer to be cleared: the proxy compares  *)
(* the nonces itself, or takes the contract's word.                        *)
(***************************************************************************)
LastIsPast(w) == w.nonce <= last[Account(w)]
Used(w) == IF w.chain_id \in Counting THEN LastIsPast(w) ELSE IsExecuted(w)

HeldAt(d) == {e \in deposits : e.chain_id = d.chain_id /\ e.nonce = d.nonce}

Deposited(d) ==
  /\ HeldAt(d) = {}
  /\ deposits' = deposits \cup {d}
  /\ UNCHANGED <<near, paid, last, signed, request>>

PaidOut(w) ==
  /\ WithdrawalProof(w) \in signed
  /\ Pays(w)
  /\ paid' = paid \cup {w}
  /\ last' = [last EXCEPT ![Account(w)] = w.nonce]
  /\ UNCHANGED <<near, deposits, signed, request>>

Minted(d) ==
  /\ DepositProof(d) \in signed
  /\ \A e \in minted : e.chain_id # d.chain_id \/ e.nonce # d.nonce
  /\ minted' = minted \cup {d}
  /\ UNCHANGED <<transfers, removed, chain, signed, request>>

Recorded(w) ==
  /\ \A v \in transfers \cup removed : v.nonce < w.nonce
  /\ transfers' = transfers \cup {w}
  /\ UNCHANGED <<minted, removed, chain, signed, request>>

Removed(w) ==
  /\ w \in transfers
  /\ RemovalProof(w) \in signed
  /\ transfers' = transfers \ {w}
  /\ removed' = removed \cup {w}
  /\ UNCHANGED <<minted, chain, signed, request>>

-----------------------------------------------------------------------------
(***************************************************************************)
(* The proxy.  A request holds the action it is about.                     *)
(***************************************************************************)
NoRequest == [stage |-> "idle"]
Stage(r) == request[r].stage
Action(r) == request[r].action
Serving(stage, endpoint, action) ==
  [stage |-> stage, endpoint |-> endpoint, action |-> action]

Init ==
  /\ deposits = {} /\ minted = {} /\ transfers = {} /\ removed = {} /\ paid = {}
  /\ last = [a \in Accounts |-> 0]
  /\ signed = {}
  /\ request = [r \in Request |-> NoRequest]

Becomes(r, q) ==
  /\ request' = [request EXCEPT ![r] = q]
  /\ UNCHANGED <<near, chain>>

(***************************************************************************)
(* sign_deposit: any action the caller cares to name.  NEAR's answer to    *)
(* verify sends the proxy to the chain the action names.                   *)
(***************************************************************************)
AskDeposit(r, d) ==
  /\ Stage(r) = "idle"
  /\ Fits(d)
  /\ Becomes(r, Serving("verifying", "deposit", d))
  /\ UNCHANGED signed

(***************************************************************************)
(* sign_clear_completed_withdrawal: NEAR answers from its record of the    *)
(* nonce, with the chain and the receiver it holds.                        *)
(***************************************************************************)
AskClear(r, w) ==
  /\ Stage(r) = "idle"
  /\ w \in transfers
  /\ Becomes(r, Serving("verifying", "clear", w))
  /\ UNCHANGED signed

(***************************************************************************)
(* sign_withdraw: get_transfer finds the record, and nothing is verified.  *)
(***************************************************************************)
AskWithdraw(r, w) ==
  /\ Stage(r) = "idle"
  /\ w \in transfers
  /\ Fits(w)
  /\ Becomes(r, Serving("signing", "withdraw", w))
  /\ UNCHANGED signed

(***************************************************************************)
(* The call NEAR asks for.  A deposit is checked against the message the   *)
(* MPC would sign, which the treasury computes from what it holds.         *)
(***************************************************************************)
Confirms(r) ==
  IF request[r].endpoint = "deposit"
  THEN \E e \in HeldAt(Action(r)) : Challenge(e) = Challenge(Action(r))
  ELSE Used(Action(r))

OnTon(r) == Action(r).chain_id \in {Ton, TON_V2}

ChainCall(r) ==
  /\ Stage(r) = "verifying" /\ ~OnTon(r)
  /\ Confirms(r)
  /\ Becomes(r, [request[r] EXCEPT !.stage = "signing"])
  /\ UNCHANGED signed

(***************************************************************************)
(* On TON the treasury first names the child contract that knows: one per  *)
(* deposit, one per receiver.                                              *)
(***************************************************************************)
HasChild(r) == request[r].endpoint = "deposit" => HeldAt(Action(r)) # {}

TreasuryCall(r) ==
  /\ Stage(r) = "verifying" /\ OnTon(r)
  /\ HasChild(r)
  /\ Becomes(r, [request[r] EXCEPT !.stage = "child"])
  /\ UNCHANGED signed

ChildCall(r) ==
  /\ Stage(r) = "child"
  /\ Confirms(r)
  /\ Becomes(r, [request[r] EXCEPT !.stage = "signing"])
  /\ UNCHANGED signed

MessageOf(q) == IF q.endpoint = "clear" THEN Removal(q.action.nonce) ELSE Challenge(q.action)

Sign(r) ==
  /\ Stage(r) = "signing"
  /\ signed' = signed \cup {[uid |-> UidOf(request[r].endpoint), message |-> MessageOf(request[r])]}
  /\ Becomes(r, NoRequest)

(***************************************************************************)
(* No consensus, a refusal, a timeout, a dropped request, no signature.    *)
(***************************************************************************)
Fails(r) ==
  /\ Stage(r) # "idle"
  /\ Becomes(r, NoRequest)
  /\ UNCHANGED signed

Serve(r) ==
  \/ \E d \in Actions : AskDeposit(r, d) \/ AskClear(r, d) \/ AskWithdraw(r, d)
  \/ ChainCall(r) \/ TreasuryCall(r) \/ ChildCall(r) \/ Sign(r) \/ Fails(r)

World ==
  \E d \in Actions : Deposited(d) \/ PaidOut(d) \/ Minted(d) \/ Recorded(d) \/ Removed(d)

Next == World \/ \E r \in Request : Serve(r)

Spec == Init /\ [][Next]_vars

-----------------------------------------------------------------------------

Requests ==
  {NoRequest} \cup
  [stage : {"verifying", "child", "signing"}, endpoint : {"deposit", "clear", "withdraw"},
   action : Actions]

(***************************************************************************)
(* Every variable holds a value of its type.                               *)
(***************************************************************************)
TypeOK ==
  /\ deposits \subseteq Actions /\ minted \subseteq Actions
  /\ transfers \subseteq Actions /\ removed \subseteq Actions /\ paid \subseteq Actions
  /\ last \in [Accounts -> Nat]
  /\ signed \subseteq Signatures
  /\ request \in [Request -> Requests]

(***************************************************************************)
(* NEAR only credits deposits that a treasury holds, to the amount.        *)
(***************************************************************************)
MintsAreBacked == minted \subseteq deposits

(***************************************************************************)
(* A treasury only pays what NEAR has recorded for that chain.             *)
(***************************************************************************)
PaymentsAreRecorded == paid \subseteq transfers \cup removed

(***************************************************************************)
(* The proxy signs a removal only when the treasury will not pay the       *)
(* transfer any more, though the withdrawal may have been signed before or *)
(* is being signed now.                                                    *)
(***************************************************************************)
RemovalsAreFinal ==
  \A w \in transfers \cup removed : RemovalProof(w) \in signed => ~Pays(w)

(***************************************************************************)
(* Once NEAR has removed a transfer it is never paid.                      *)
(***************************************************************************)
RemovedIsNeverPaid == [][\A w \in removed : w \in paid' => w \in paid]_vars

(***************************************************************************)
(* Together the endpoints and the contracts keep the books of module       *)
(* BridgeLedger: a deposit is credited once, a withdrawal is paid once and *)
(* never after it was struck off, and it is only struck off when it was    *)
(* paid or a later one of its receiver was, on a chain that counts.        *)
(***************************************************************************)
Ledger == INSTANCE BridgeLedger
            WITH held <- deposits, credited <- minted, recorded <- transfers, closed <- removed

Implements == Ledger!LedgerSpec
=============================================================================
