---------------------------- MODULE BridgeProofs ----------------------------
(***************************************************************************)
(* Proofs about the bridge endpoints: for any number of requests, any      *)
(* actions and any chains.                                                 *)
(***************************************************************************)
EXTENDS Bridge, TLAPS

(***************************************************************************)
(* The invariant.  What a request has read is still so when it signs; each *)
(* signature stands for a fact; nonces on NEAR are unique, so a removal is *)
(* for one transfer; and what NEAR has removed its treasury will not pay.  *)
(***************************************************************************)
OnRecord == transfers \cup removed

RequestsGrounded ==
  \A r \in Request : Stage(r) # "idle" =>
    /\ request[r].endpoint \in {"clear", "withdraw"} => Action(r) \in OnRecord
    /\ Stage(r) = "signing" /\ request[r].endpoint = "clear" => ~Pays(Action(r))
    /\ Stage(r) = "signing" /\ request[r].endpoint = "deposit" => Action(r) \in deposits
    /\ request[r].endpoint = "withdraw" => Stage(r) = "signing"

SignaturesGrounded ==
  \A d \in Actions :
    /\ DepositProof(d) \in signed => d \in deposits
    /\ WithdrawalProof(d) \in signed => d \in OnRecord
    /\ RemovalProof(d) \in signed =>
         \E w \in OnRecord : w.nonce = d.nonce /\ ~Pays(w)

NoncesUnique == \A v, w \in OnRecord : v.nonce = w.nonce => v = w

RemovedUsed == \A w \in removed : ~Pays(w)

IInv ==
  /\ TypeOK
  /\ RequestsGrounded
  /\ SignaturesGrounded
  /\ NoncesUnique
  /\ RemovedUsed
  /\ MintsAreBacked
  /\ PaymentsAreRecorded

-----------------------------------------------------------------------------

(***************************************************************************)
(* The two challenges bind what the code says they bind.                   *)
(***************************************************************************)
LEMMA ChallengeBinds ==
  ASSUME NEW d \in Actions, NEW e \in Actions, Challenge(d) = Challenge(e)
  PROVE  d = e
<1>1. d \in DepositAction /\ e \in DepositAction
  BY BridgeAssumption
<1>2. /\ Challenge(d).nonce = Challenge(e).nonce
      /\ Challenge(d).chain_id = Challenge(e).chain_id
      /\ Challenge(d).receiver = Challenge(e).receiver
      /\ Challenge(d).amount = Challenge(e).amount
  OBVIOUS
<1>3. d.nonce = e.nonce /\ d.chain_id = e.chain_id /\ d.receiver = e.receiver /\ d.amount = e.amount
  BY <1>2 DEF Challenge
<1> QED
  BY <1>1, <1>3 DEF DepositAction

LEMMA RemovalBinds ==
  ASSUME NEW m, NEW n, Removal(m) = Removal(n)
  PROVE  m = n
<1>1. Removal(m).nonce = Removal(n).nonce
  OBVIOUS
<1> QED
  BY <1>1 DEF Removal

LEMMA ChallengesDiffer ==
  ASSUME NEW d, NEW n
  PROVE  Challenge(d) # Removal(n)
<1>1. Challenge(d).tag # Removal(n).tag
  BY DEF Challenge, Removal
<1> QED
  BY <1>1

(***************************************************************************)
(* A treasury never pays again what it would not pay before.               *)
(***************************************************************************)
LEMMA UsedStaysUsed ==
  ASSUME TypeOK, NEW x \in Actions, PaidOut(x), NEW w \in Actions, ~Pays(w)
  PROVE  ~Pays(w)'
<1>1. /\ w \in DepositAction /\ x \in DepositAction
      /\ Account(w) \in Accounts /\ Account(x) \in Accounts
  BY BridgeAssumption DEF Accounts
<1>2. w.nonce \in Nat /\ x.nonce \in Nat
  BY <1>1 DEF DepositAction
<1>3. last[Account(w)] \in Nat /\ last[Account(x)] \in Nat
  BY <1>1 DEF TypeOK
<1>4. CASE w.chain_id \in Counting
  <2>1. w.nonce <= last[Account(w)]
    BY <1>2, <1>3, <1>4 DEF Pays
  <2>2. CASE Account(w) = Account(x)
    <3>1. x.nonce > last[Account(x)]
      BY <1>4, <2>2 DEF PaidOut, Pays, Account
    <3>2. last'[Account(w)] = x.nonce
      BY <1>1, <2>2 DEF PaidOut, TypeOK
    <3> QED
      BY <1>2, <1>3, <1>4, <2>1, <2>2, <3>1, <3>2 DEF Pays
  <2>3. CASE Account(w) # Account(x)
    <3>1. last'[Account(w)] = last[Account(w)]
      BY <1>1, <2>3 DEF PaidOut, TypeOK
    <3> QED
      BY <1>2, <1>3, <1>4, <2>1, <3>1 DEF Pays
  <2> QED
    BY <2>2, <2>3
<1>5. CASE w.chain_id \notin Counting
  BY <1>5 DEF Pays, IsExecuted, PaidOut
<1> QED
  BY <1>4, <1>5

(***************************************************************************)
(* The comparison the proxy makes is the negation of the treasury's.       *)
(***************************************************************************)
LEMMA UsedIsNotPaid ==
  ASSUME TypeOK, NEW w \in Actions, Used(w)
  PROVE  ~Pays(w)
<1>1. w.nonce \in Nat /\ last[Account(w)] \in Nat
  BY BridgeAssumption DEF Accounts, DepositAction, TypeOK
<1> QED
  BY <1>1 DEF Used, Pays, LastIsPast

-----------------------------------------------------------------------------

LEMMA InitEstablishes == Init => IInv
<1> SUFFICES ASSUME Init PROVE IInv
  OBVIOUS
<1>1. TypeOK
  BY DEF Init, TypeOK, Requests
<1>2. RequestsGrounded
  BY DEF Init, RequestsGrounded, Stage, NoRequest
<1> QED
  BY <1>1, <1>2 DEF Init, IInv, SignaturesGrounded, NoncesUnique, RemovedUsed, OnRecord,
     MintsAreBacked, PaymentsAreRecorded

(***************************************************************************)
(* A served request changes nothing but itself, and what it signs.         *)
(***************************************************************************)
LEMMA WorldUnchanged ==
  ASSUME UNCHANGED <<near, chain>>
  PROVE  /\ OnRecord' = OnRecord
         /\ \A w \in Actions : Pays(w)' = Pays(w)
  BY DEF near, chain, OnRecord, Pays, IsExecuted

LEMMA ServeTypes ==
  ASSUME IInv, NEW r \in Request, Serve(r)
  PROVE  TypeOK'
<1> USE DEF IInv, TypeOK
<1>0. UNCHANGED <<near, chain>>
  BY DEF Serve, AskDeposit, AskClear, AskWithdraw, ChainCall, TreasuryCall, ChildCall, Sign, Fails, Becomes
<1>1. ASSUME NEW d \in Actions, AskDeposit(r, d) \/ AskClear(r, d) \/ AskWithdraw(r, d)
      PROVE  request' \in [Request -> Requests] /\ signed' = signed
  BY <1>1 DEF AskDeposit, AskClear, AskWithdraw, Becomes, Serving, Requests
<1>2. ASSUME ChainCall(r) \/ TreasuryCall(r) \/ ChildCall(r)
      PROVE  request' \in [Request -> Requests] /\ signed' = signed
  <2>1. request[r] \in Requests /\ request[r] # NoRequest
    BY <1>2 DEF ChainCall, TreasuryCall, ChildCall, Stage, NoRequest
  <2> QED
    BY <1>2, <2>1 DEF ChainCall, TreasuryCall, ChildCall, Becomes, Requests
<1>3. ASSUME Sign(r)
      PROVE  request' \in [Request -> Requests] /\ signed' \subseteq Signatures
  <2>1. request[r] \in Requests /\ request[r] # NoRequest
    BY <1>3 DEF Sign, Stage, NoRequest
  <2>2. request[r].action \in Actions
    BY <2>1 DEF Requests
  <2>3. MessageOf(request[r]) \in Messages
    BY <2>2 DEF MessageOf, Messages
  <2>4. UidOf(request[r].endpoint) \in {"bridge_deposit", "bridge_withdraw"}
    BY DEF UidOf
  <2> QED
    BY <1>3, <2>3, <2>4 DEF Sign, Becomes, Requests, Signatures
<1>4. ASSUME Fails(r)
      PROVE  request' \in [Request -> Requests] /\ signed' = signed
  BY <1>4 DEF Fails, Becomes, Requests
<1>5. request' \in [Request -> Requests] /\ signed' \subseteq Signatures
  BY <1>1, <1>2, <1>3, <1>4 DEF Serve
<1> QED
  BY <1>0, <1>5 DEF near, chain

LEMMA ServeGrounds ==
  ASSUME IInv, NEW r \in Request, Serve(r)
  PROVE  RequestsGrounded'
<1> USE DEF IInv
<1>0. UNCHANGED <<near, chain>>
  BY DEF Serve, AskDeposit, AskClear, AskWithdraw, ChainCall, TreasuryCall, ChildCall, Sign, Fails, Becomes
<1>1. /\ OnRecord' = OnRecord /\ deposits' = deposits
      /\ \A w \in Actions : Pays(w)' = Pays(w)
  BY <1>0, WorldUnchanged DEF near, chain
<1>2. /\ request' \in [Request -> Requests]
      /\ \A q \in Request : q # r => request'[q] = request[q]
  <2>1. request' \in [Request -> Requests]
    BY ServeTypes DEF TypeOK
  <2> QED
    BY <2>1 DEF TypeOK, Serve, AskDeposit, AskClear, AskWithdraw, ChainCall, TreasuryCall, ChildCall, Sign, Fails, Becomes
<1> DEFINE Grounded(q) ==
      q.stage # "idle" =>
        /\ q.endpoint \in {"clear", "withdraw"} => q.action \in OnRecord
        /\ q.stage = "signing" /\ q.endpoint = "clear" => ~Pays(q.action)
        /\ q.stage = "signing" /\ q.endpoint = "deposit" => q.action \in deposits
        /\ q.endpoint = "withdraw" => q.stage = "signing"
<1>3. Grounded(request'[r])
  <2>1. ASSUME NEW d \in Actions, AskDeposit(r, d) \/ AskClear(r, d) \/ AskWithdraw(r, d)
        PROVE  Grounded(request'[r])
    BY <2>1 DEF TypeOK, AskDeposit, AskClear, AskWithdraw, Becomes, Serving, OnRecord
  <2>2. ASSUME ChainCall(r) \/ TreasuryCall(r) \/ ChildCall(r)
        PROVE  Grounded(request'[r])
    <3>1. /\ request[r] \in Requests /\ request[r] # NoRequest
          /\ Stage(r) # "signing" /\ Stage(r) # "idle"
      BY <2>2 DEF TypeOK, ChainCall, TreasuryCall, ChildCall, Stage, NoRequest
    <3>2. /\ request[r].endpoint \in {"deposit", "clear"} /\ Action(r) \in Actions
          /\ request[r].endpoint = "clear" => Action(r) \in OnRecord
      BY <3>1 DEF Requests, RequestsGrounded, Action
    <3>3. \/ request'[r] = [request[r] EXCEPT !.stage = "child"]
          \/ Confirms(r) /\ request'[r] = [request[r] EXCEPT !.stage = "signing"]
      BY <2>2 DEF TypeOK, ChainCall, TreasuryCall, ChildCall, Becomes
    <3>4. /\ request'[r].endpoint = request[r].endpoint /\ request'[r].action = Action(r)
          /\ request'[r].stage \in {"child", "signing"}
          /\ request'[r].stage = "signing" => Confirms(r)
      BY <3>1, <3>3 DEF Requests, Action
    <3>5. request[r].endpoint = "deposit" /\ Confirms(r) => Action(r) \in deposits
      <4> SUFFICES ASSUME request[r].endpoint = "deposit", Confirms(r) PROVE Action(r) \in deposits
        OBVIOUS
      <4>1. PICK e \in HeldAt(Action(r)) : Challenge(e) = Challenge(Action(r))
        BY DEF Confirms
      <4>2. e \in deposits /\ e \in Actions
        BY DEF HeldAt, TypeOK
      <4> QED
        BY <3>2, <4>1, <4>2, ChallengeBinds
    <3>6. request[r].endpoint = "clear" /\ Confirms(r) => ~Pays(Action(r))
      BY <3>2, UsedIsNotPaid DEF Confirms
    <3> QED
      BY <3>2, <3>4, <3>5, <3>6
  <2>3. ASSUME Sign(r) \/ Fails(r)
        PROVE  Grounded(request'[r])
    BY <2>3 DEF TypeOK, Sign, Fails, Becomes, NoRequest
  <2> QED
    BY <2>1, <2>2, <2>3 DEF Serve
<1>4. \A q \in Request : Grounded(request'[q])
  <2> TAKE q \in Request
  <2>1. CASE q = r
    BY <1>3, <2>1
  <2>2. CASE q # r
    <3>1. Grounded(request[q])
      BY DEF RequestsGrounded, Stage, Action
    <3> QED
      BY <1>2, <2>2, <3>1
  <2> QED
    BY <2>1, <2>2
<1>5. \A q \in Request :
        /\ request'[q].stage # "idle" => request'[q].action \in Actions
  BY <1>2 DEF Requests, NoRequest
<1> QED
  BY <1>1, <1>4, <1>5 DEF RequestsGrounded, Stage, Action

(***************************************************************************)
(* A signature is added for what its request has read.                     *)
(***************************************************************************)
LEMMA ServeSigns ==
  ASSUME IInv, NEW r \in Request, Serve(r)
  PROVE  SignaturesGrounded'
<1> USE DEF IInv
<1>0. UNCHANGED <<near, chain>>
  BY DEF Serve, AskDeposit, AskClear, AskWithdraw, ChainCall, TreasuryCall, ChildCall, Sign, Fails, Becomes
<1>1. /\ OnRecord' = OnRecord /\ deposits' = deposits /\ OnRecord \subseteq Actions
      /\ \A w \in Actions : Pays(w)' = Pays(w)
  BY <1>0, WorldUnchanged DEF near, chain, OnRecord, TypeOK
<1>2. CASE signed' = signed
  BY <1>1, <1>2 DEF SignaturesGrounded, DepositProof, WithdrawalProof, RemovalProof
<1>3. CASE Sign(r)
  <2> DEFINE q == request[r]
             s == [uid |-> UidOf(q.endpoint), message |-> MessageOf(q)]
  <2>1. /\ q \in Requests /\ q # NoRequest /\ q.stage = "signing"
        /\ signed' = signed \cup {s}
    BY <1>3 DEF Sign, Stage, NoRequest, TypeOK
  <2>2. q.endpoint \in {"deposit", "clear", "withdraw"} /\ q.action \in Actions
    BY <2>1 DEF Requests
  <2>3. /\ q.endpoint \in {"clear", "withdraw"} => q.action \in OnRecord
        /\ q.endpoint = "clear" => ~Pays(q.action)
        /\ q.endpoint = "deposit" => q.action \in deposits
    BY <2>1 DEF RequestsGrounded, Stage, Action
  <2>4. ASSUME NEW d \in Actions, DepositProof(d) = s
        PROVE  d \in deposits
    <3>1. Challenge(d) = MessageOf(q) /\ UidOf(q.endpoint) = "bridge_deposit"
      BY <2>4 DEF DepositProof
    <3>2. q.endpoint = "deposit"
      BY <2>2, <3>1, ChallengesDiffer DEF UidOf, MessageOf
    <3> QED
      BY <2>2, <2>3, <3>1, <3>2, ChallengeBinds DEF MessageOf
  <2>5. ASSUME NEW d \in Actions, WithdrawalProof(d) = s
        PROVE  d \in OnRecord
    <3>1. Challenge(d) = MessageOf(q) /\ UidOf(q.endpoint) = "bridge_withdraw"
      BY <2>5 DEF WithdrawalProof
    <3>2. q.endpoint = "withdraw"
      BY <2>2, <3>1 DEF UidOf
    <3> QED
      BY <2>2, <2>3, <3>1, <3>2, ChallengeBinds DEF MessageOf
  <2>6. ASSUME NEW d \in Actions, RemovalProof(d) = s
        PROVE  \E w \in OnRecord : w.nonce = d.nonce /\ ~Pays(w)
    <3>1. Removal(d.nonce) = MessageOf(q)
      BY <2>6 DEF RemovalProof
    <3>2. q.endpoint = "clear"
      BY <2>2, <3>1, ChallengesDiffer DEF MessageOf
    <3>3. q.action.nonce = d.nonce
      BY <3>1, <3>2, RemovalBinds DEF MessageOf
    <3> QED
      BY <2>3, <3>2, <3>3
  <2>7. ASSUME NEW d \in Actions
        PROVE  /\ DepositProof(d) \in signed' => d \in deposits
               /\ WithdrawalProof(d) \in signed' => d \in OnRecord
               /\ RemovalProof(d) \in signed' => \E w \in OnRecord : w.nonce = d.nonce /\ ~Pays(w)
    BY <2>1, <2>4, <2>5, <2>6 DEF SignaturesGrounded
  <2> QED
    BY <1>1, <2>7 DEF SignaturesGrounded, DepositProof, WithdrawalProof, RemovalProof
<1> QED
  BY <1>2, <1>3 DEF Serve, AskDeposit, AskClear, AskWithdraw, ChainCall, TreasuryCall, ChildCall, Fails

LEMMA ServePreserves ==
  ASSUME IInv, NEW r \in Request, Serve(r)
  PROVE  IInv'
<1>1. UNCHANGED <<near, chain>>
  BY DEF Serve, AskDeposit, AskClear, AskWithdraw, ChainCall, TreasuryCall, ChildCall, Sign, Fails, Becomes
<1>2. /\ OnRecord' = OnRecord /\ removed \subseteq Actions
      /\ \A w \in Actions : Pays(w)' = Pays(w)
  BY <1>1, WorldUnchanged DEF IInv, TypeOK
<1>3. NoncesUnique' /\ RemovedUsed' /\ MintsAreBacked' /\ PaymentsAreRecorded'
  BY <1>1, <1>2 DEF IInv, near, chain, NoncesUnique, RemovedUsed, MintsAreBacked, PaymentsAreRecorded
<1> QED
  BY <1>3, ServeTypes, ServeGrounds, ServeSigns DEF IInv

-----------------------------------------------------------------------------

(***************************************************************************)
(* What the contracts do.  Most of it leaves standing whatever a request   *)
(* or a signature relies on.                                               *)
(***************************************************************************)
LEMMA FactsStay ==
  ASSUME IInv, UNCHANGED <<signed, request>>, deposits \subseteq deposits', OnRecord' = OnRecord,
         \A w \in Actions : ~Pays(w) => ~Pays(w)'
  PROVE  RequestsGrounded' /\ SignaturesGrounded' /\ NoncesUnique'
<1>1. OnRecord \subseteq Actions
  BY DEF IInv, TypeOK, OnRecord
<1>2. RequestsGrounded'
  BY <1>1 DEF IInv, TypeOK, RequestsGrounded, Stage, Action
<1>3. SignaturesGrounded'
  BY <1>1 DEF IInv, SignaturesGrounded, DepositProof, WithdrawalProof, RemovalProof
<1> QED
  BY <1>2, <1>3 DEF IInv, NoncesUnique

LEMMA WorldPreserves ==
  ASSUME IInv, NEW d \in Actions,
         Deposited(d) \/ PaidOut(d) \/ Minted(d) \/ Recorded(d) \/ Removed(d)
  PROVE  IInv'
<1> USE DEF IInv, TypeOK
<1>1. CASE Deposited(d)
  <2>1. /\ UNCHANGED <<near, paid, last, signed, request>>
        /\ deposits' = deposits \cup {d}
    BY <1>1 DEF Deposited
  <2>2. OnRecord' = OnRecord /\ \A w \in Actions : Pays(w)' = Pays(w)
    BY <2>1 DEF near, OnRecord, Pays, IsExecuted
  <2>3. RequestsGrounded' /\ SignaturesGrounded' /\ NoncesUnique'
    BY <2>1, <2>2, FactsStay
  <2> QED
    BY <2>1, <2>2, <2>3 DEF near, RemovedUsed, MintsAreBacked, PaymentsAreRecorded
<1>2. CASE PaidOut(d)
  <2>1. /\ UNCHANGED <<near, deposits, signed, request>>
        /\ paid' = paid \cup {d}
        /\ last' = [last EXCEPT ![Account(d)] = d.nonce]
        /\ WithdrawalProof(d) \in signed
    BY <1>2 DEF PaidOut
  <2>2. OnRecord' = OnRecord /\ \A w \in Actions : ~Pays(w) => ~Pays(w)'
    BY <1>2, <2>1, UsedStaysUsed DEF near, OnRecord
  <2>3. RequestsGrounded' /\ SignaturesGrounded' /\ NoncesUnique'
    BY <2>1, <2>2, FactsStay
  <2>4. d \in OnRecord
    BY <2>1 DEF SignaturesGrounded
  <2>5. d.nonce \in Nat
    BY BridgeAssumption DEF DepositAction
  <2> QED
    BY <2>1, <2>2, <2>3, <2>4, <2>5 DEF near, OnRecord, RemovedUsed, MintsAreBacked, PaymentsAreRecorded
<1>3. CASE Minted(d)
  <2>1. /\ UNCHANGED <<transfers, removed, chain, signed, request>>
        /\ minted' = minted \cup {d}
        /\ DepositProof(d) \in signed
    BY <1>3 DEF Minted
  <2>2. OnRecord' = OnRecord /\ \A w \in Actions : Pays(w)' = Pays(w)
    BY <2>1 DEF chain, OnRecord, Pays, IsExecuted
  <2>3. RequestsGrounded' /\ SignaturesGrounded' /\ NoncesUnique'
    BY <2>1, <2>2, FactsStay DEF chain
  <2>4. d \in deposits
    BY <2>1 DEF SignaturesGrounded
  <2> QED
    BY <2>1, <2>2, <2>3, <2>4 DEF chain, RemovedUsed, MintsAreBacked, PaymentsAreRecorded
<1>4. CASE Recorded(d)
  <2>1. /\ UNCHANGED <<minted, removed, chain, signed, request>>
        /\ transfers' = transfers \cup {d}
        /\ \A v \in OnRecord : v.nonce < d.nonce
    BY <1>4 DEF Recorded, OnRecord
  <2>2. /\ OnRecord' = OnRecord \cup {d} /\ OnRecord \subseteq Actions
        /\ \A w \in Actions : Pays(w)' = Pays(w)
    BY <2>1 DEF chain, OnRecord, Pays, IsExecuted
  <2>3. d.nonce \in Nat
    BY BridgeAssumption DEF DepositAction
  <2>4. NoncesUnique'
    BY <2>1, <2>2, <2>3 DEF NoncesUnique
  <2>5. RequestsGrounded'
    BY <2>1, <2>2 DEF chain, RequestsGrounded, Stage, Action, Requests
  <2>6. SignaturesGrounded'
    BY <2>1, <2>2 DEF chain, SignaturesGrounded, DepositProof, WithdrawalProof, RemovalProof
  <2> QED
    BY <2>1, <2>2, <2>4, <2>5, <2>6 DEF chain, RemovedUsed, MintsAreBacked, PaymentsAreRecorded
<1>5. CASE Removed(d)
  <2>1. /\ UNCHANGED <<minted, chain, signed, request>>
        /\ transfers' = transfers \ {d} /\ removed' = removed \cup {d}
        /\ d \in transfers /\ RemovalProof(d) \in signed
    BY <1>5 DEF Removed
  <2>2. OnRecord' = OnRecord /\ \A w \in Actions : Pays(w)' = Pays(w)
    BY <2>1 DEF chain, OnRecord, Pays, IsExecuted
  <2>3. RequestsGrounded' /\ SignaturesGrounded' /\ NoncesUnique'
    BY <2>1, <2>2, FactsStay DEF chain
  <2>4. ~Pays(d)
    BY <2>1 DEF SignaturesGrounded, NoncesUnique, OnRecord
  <2>5. PaymentsAreRecorded'
    BY <2>1, <2>2 DEF chain, PaymentsAreRecorded, OnRecord
  <2> QED
    BY <2>1, <2>2, <2>3, <2>4, <2>5 DEF chain, RemovedUsed, MintsAreBacked
<1> QED
  BY <1>1, <1>2, <1>3, <1>4, <1>5

LEMMA StepPreserves == IInv /\ [Next]_vars => IInv'
<1> SUFFICES ASSUME IInv, [Next]_vars PROVE IInv'
  OBVIOUS
<1>1. CASE UNCHANGED vars
  BY <1>1 DEF vars, near, chain, IInv, TypeOK, RequestsGrounded, SignaturesGrounded, NoncesUnique,
     RemovedUsed, MintsAreBacked, PaymentsAreRecorded, OnRecord, Pays, IsExecuted, Stage, Action,
     DepositProof, WithdrawalProof, RemovalProof
<1>2. CASE World
  BY <1>2, WorldPreserves DEF World
<1>3. ASSUME NEW r \in Request, Serve(r) PROVE IInv'
  BY <1>3, ServePreserves
<1> QED
  BY <1>1, <1>2, <1>3 DEF Next

-----------------------------------------------------------------------------

THEOREM InductiveInvariant == Spec => []IInv
  BY InitEstablishes, StepPreserves, PTL DEF Spec

(***************************************************************************)
(* Every variable holds a value of its type.                               *)
(***************************************************************************)
THEOREM TypeCorrect == Spec => []TypeOK
<1>1. IInv => TypeOK
  BY DEF IInv
<1> QED
  BY <1>1, InductiveInvariant, PTL

(***************************************************************************)
(* NEAR only credits deposits that a treasury holds: a signature of the    *)
(* deposit wallet stands for a deposit, and no other endpoint's message or *)
(* key can be mistaken for one.                                            *)
(***************************************************************************)
THEOREM BackedMints == Spec => []MintsAreBacked
<1>1. IInv => MintsAreBacked
  BY DEF IInv
<1> QED
  BY <1>1, InductiveInvariant, PTL

(***************************************************************************)
(* Treasuries only pay what NEAR has recorded.                             *)
(***************************************************************************)
THEOREM RecordedPayments == Spec => []PaymentsAreRecorded
<1>1. IInv => PaymentsAreRecorded
  BY DEF IInv
<1> QED
  BY <1>1, InductiveInvariant, PTL

(***************************************************************************)
(* The proxy signs a removal only when the transfer cannot be paid any     *)
(* more.                                                                   *)
(***************************************************************************)
THEOREM FinalRemovals == Spec => []RemovalsAreFinal
<1>1. IInv => RemovalsAreFinal
  BY DEF IInv, TypeOK, RemovalsAreFinal, SignaturesGrounded, NoncesUnique, OnRecord
<1> QED
  BY <1>1, InductiveInvariant, PTL

(***************************************************************************)
(* Once NEAR has removed a transfer it is never paid.                      *)
(***************************************************************************)
THEOREM NeverPaidOnceRemoved == Spec => RemovedIsNeverPaid
<1>1. ASSUME IInv, [Next]_vars
      PROVE  [\A w \in removed : w \in paid' => w \in paid]_vars
  <2>1. CASE UNCHANGED vars
    BY <2>1
  <2>2. ASSUME NEW w \in removed, w \in paid', w \notin paid PROVE FALSE
    <3>1. ~Pays(w)
      BY <1>1 DEF IInv, RemovedUsed
    <3>2. CASE \E d \in Actions : PaidOut(d)
      BY <2>2, <3>1, <3>2 DEF PaidOut
    <3>3. CASE paid' = paid
      BY <2>2, <3>3
    <3> QED
      BY <1>1, <3>2, <3>3 DEF Next, World, Serve, Deposited, Minted, Recorded, Removed, AskDeposit,
         AskClear, AskWithdraw, ChainCall, TreasuryCall, ChildCall, Sign, Fails, Becomes, vars, chain
  <2> QED
    BY <2>2
<1> QED
  BY <1>1, InductiveInvariant, PTL DEF Spec, RemovedIsNeverPaid

-----------------------------------------------------------------------------

(***************************************************************************)
(* For the refinement: the treasuries' own books.  What is paid would not  *)
(* be paid again, and a count above 0 is that of a payment.                *)
(***************************************************************************)
PaidIsUsed == \A w \in paid : ~Pays(w)

CountsWerePaid ==
  \A a \in Accounts : last[a] = 0 \/ \E w \in paid : Account(w) = a /\ w.nonce = last[a]

PaymentsKnown == PaidIsUsed /\ CountsWerePaid

LEMMA PaymentsStep == IInv /\ PaymentsKnown /\ [Next]_vars => PaymentsKnown'
<1> SUFFICES ASSUME IInv, PaymentsKnown, [Next]_vars PROVE PaymentsKnown'
  OBVIOUS
<1>0. TypeOK /\ paid \subseteq Actions /\ last \in [Accounts -> Nat]
  BY DEF IInv, TypeOK
<1>1. ASSUME NEW d \in Actions, PaidOut(d) PROVE PaymentsKnown'
  <2>1. /\ paid' = paid \cup {d} /\ last' = [last EXCEPT ![Account(d)] = d.nonce]
    BY <1>1 DEF PaidOut
  <2>2. d \in DepositAction /\ d.nonce \in Nat /\ Account(d) \in Accounts
    BY BridgeAssumption DEF DepositAction, Accounts
  <2>3. last'[Account(d)] = d.nonce
    BY <1>0, <2>1, <2>2
  <2>4. ~Pays(d)'
    BY <2>1, <2>2, <2>3 DEF Pays, IsExecuted
  <2>5. PaidIsUsed'
    BY <1>0, <1>1, <2>1, <2>4, UsedStaysUsed DEF PaymentsKnown, PaidIsUsed
  <2>6. CountsWerePaid'
    <3> SUFFICES ASSUME NEW a \in Accounts
                 PROVE  last'[a] = 0 \/ \E w \in paid' : Account(w) = a /\ w.nonce = last'[a]
      BY DEF CountsWerePaid
    <3>1. CASE a = Account(d)
      BY <2>1, <2>3, <3>1
    <3>2. CASE a # Account(d)
      BY <1>0, <2>1, <3>2 DEF PaymentsKnown, CountsWerePaid
    <3> QED
      BY <3>1, <3>2
  <2> QED
    BY <2>5, <2>6 DEF PaymentsKnown
<1>2. CASE UNCHANGED <<paid, last>>
  BY <1>2 DEF PaymentsKnown, PaidIsUsed, CountsWerePaid, Pays, IsExecuted
<1> QED
  BY <1>1, <1>2 DEF Next, World, Serve, Deposited, Minted, Recorded, Removed, AskDeposit, AskClear,
     AskWithdraw, ChainCall, TreasuryCall, ChildCall, Sign, Fails, Becomes, vars, near, chain

LEMMA PaymentsAlwaysKnown == Spec => [](IInv /\ PaymentsKnown)
<1>1. Init => PaymentsKnown
  BY DEF Init, PaymentsKnown, PaidIsUsed, CountsWerePaid
<1> QED
  BY <1>1, InitEstablishes, StepPreserves, PaymentsStep, PTL DEF Spec

(***************************************************************************)
(* What a treasury will not pay was paid, or a later transfer was.         *)
(***************************************************************************)
LEMMA UsedWasPaidOrPassed ==
  ASSUME IInv, PaymentsKnown, NEW w \in OnRecord, ~Pays(w)
  PROVE  w \in paid \/ Ledger!Passed(w)
<1>1. /\ OnRecord \subseteq Actions /\ paid \subseteq OnRecord /\ NoncesUnique
      /\ last \in [Accounts -> Nat]
  BY DEF IInv, TypeOK, OnRecord, PaymentsAreRecorded
<1>2. /\ w \in Actions /\ w.nonce \in Nat /\ Account(w) \in Accounts
      /\ last[Account(w)] \in Nat
  BY <1>1, BridgeAssumption DEF DepositAction, Accounts
<1>3. CASE w.chain_id \notin Counting
  <2>1. PICK p \in paid : p.nonce = w.nonce
    BY <1>3 DEF Pays, IsExecuted
  <2> QED
    BY <1>1, <2>1 DEF NoncesUnique
<1>4. CASE w.chain_id \in Counting
  <2>1. w.nonce <= last[Account(w)]
    BY <1>2, <1>4 DEF Pays
  <2>2. CASE last[Account(w)] = 0
    BY <1>2, <1>4, <2>1, <2>2 DEF Ledger!Passed
  <2>3. ASSUME NEW p \in paid, Account(p) = Account(w), p.nonce = last[Account(w)]
        PROVE  w \in paid \/ Ledger!Passed(w)
    <3>1. p.chain_id = w.chain_id /\ p.receiver = w.receiver
      BY <2>3 DEF Account
    <3>2. CASE p.nonce = w.nonce
      BY <1>1, <3>2 DEF NoncesUnique
    <3>3. CASE p.nonce # w.nonce
      <4>1. p.nonce > w.nonce
        BY <1>2, <2>1, <2>3, <3>3
      <4> QED
        BY <1>4, <3>1, <4>1 DEF Ledger!Passed, Ledger!Overtakes
    <3> QED
      BY <3>2, <3>3
  <2> QED
    BY <1>2, <2>2, <2>3 DEF PaymentsKnown, CountsWerePaid
<1> QED
  BY <1>3, <1>4

(***************************************************************************)
(* Every step of the contracts is an entry in the ledger, every step of    *)
(* the proxy leaves it as it is.                                           *)
(***************************************************************************)
LEMMA StepIsEntry ==
  IInv /\ PaymentsKnown /\ [Next]_vars => [Ledger!Entry]_Ledger!books
<1> SUFFICES ASSUME IInv, PaymentsKnown, [Next]_vars
             PROVE  Ledger!Entry \/ UNCHANGED Ledger!books
  OBVIOUS
<1>0. \/ \E d \in Actions : Deposited(d) \/ PaidOut(d) \/ Minted(d) \/ Recorded(d) \/ Removed(d)
      \/ UNCHANGED Ledger!books
  BY DEF Ledger!books, Next, World, Serve, AskDeposit, AskClear, AskWithdraw, ChainCall, TreasuryCall,
     ChildCall, Sign, Fails, Becomes, vars, near, chain
<1>1. ASSUME NEW d \in Actions, Deposited(d) PROVE Ledger!Hold(d)
  BY <1>1 DEF Deposited, HeldAt, near, Ledger!Hold, Ledger!SameSlot
<1>2. ASSUME NEW d \in Actions, PaidOut(d) PROVE Ledger!Pay(d)
  <2>1. d \in OnRecord /\ Pays(d)
    BY <1>2 DEF PaidOut, IInv, SignaturesGrounded
  <2>2. d \notin removed /\ d \notin paid
    BY <2>1 DEF IInv, RemovedUsed, PaymentsKnown, PaidIsUsed
  <2> QED
    BY <1>2, <2>1, <2>2 DEF PaidOut, OnRecord, near, Ledger!Pay
<1>3. ASSUME NEW d \in Actions, Minted(d) PROVE Ledger!Credit(d)
  <2>1. d \in deposits /\ d \notin minted
    BY <1>3 DEF Minted, IInv, SignaturesGrounded
  <2> QED
    BY <1>3, <2>1 DEF Minted, chain, Ledger!Credit
<1>4. ASSUME NEW d \in Actions, Recorded(d) PROVE Ledger!Record(d)
  BY <1>4 DEF Recorded, chain, Ledger!Record
<1>5. ASSUME NEW d \in Actions, Removed(d) PROVE Ledger!Close(d)
  <2>1. d \in OnRecord /\ ~Pays(d)
    BY <1>5 DEF Removed, IInv, SignaturesGrounded, NoncesUnique, OnRecord
  <2>2. d \in paid \/ Ledger!Passed(d)
    BY <2>1, UsedWasPaidOrPassed
  <2> QED
    BY <1>5, <2>2 DEF Removed, chain, Ledger!Close
<1> QED
  BY <1>0, <1>1, <1>2, <1>3, <1>4, <1>5 DEF Ledger!Entry

(***************************************************************************)
(* The bridge implements the ledger: a deposit is credited once, as held;  *)
(* a withdrawal is paid once, as recorded, never after it was struck off,  *)
(* and only struck off when it was paid or passed.                         *)
(***************************************************************************)
THEOREM Refinement == Spec => Implements
<1>1. Init => Ledger!Open
  BY DEF Init, Ledger!Open
<1> QED
  BY <1>1, PaymentsAlwaysKnown, StepIsEntry, PTL DEF Spec, Implements, Ledger!LedgerSpec
=============================================================================
