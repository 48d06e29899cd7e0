--------------------------- MODULE ValidationProofs ---------------------------
(***************************************************************************)
(* Theorems about Validation, for any methods, chains, configurations and  *)
(* answers.                                                                *)
(***************************************************************************)
EXTENDS Validation, TLAPS

(***************************************************************************)
(* The inductive invariant: what a check has been told when it reaches a   *)
(* stage, and that a failed call has found something to object to.         *)
(***************************************************************************)
ListWasRead ==
  /\ status \in {"verifying", "ok"} => accessList \in world.lists /\ SameLength(accessList)
  /\ status = "reading" => accessList = << >>

ChecksAreEarned ==
  \A i \in DOMAIN tasks :
    /\ tasks[i] = "chain" =>
         /\ proof[i] = accessList[i] /\ "yes" \in world.near[accessList[i]]
         /\ Target(i) # Direct /\ VerifierOf(Target(i)) # {}
    /\ tasks[i] = "ok" => proof[i] = accessList[i] /\ Approved(accessList[i])

OkIsDone == status = "ok" => Done

IInv ==
  /\ TypeOK /\ ListWasRead /\ ChecksAreEarned /\ OkIsDone
  /\ RejectedForCause /\ PanicsForCause

-----------------------------------------------------------------------------

(***************************************************************************)
(* None of the ids with a name of their own starts with 4444.              *)
(***************************************************************************)
LEMMA NamedIdsAreNotCosmos ==
  ~IsCosmos(Near) /\ ~IsCosmos(Solana) /\ ~IsCosmos(Stellar) /\ ~IsCosmos(Ton) /\ ~IsCosmos(TON_V2)
  BY DEF IsCosmos, PowersOfTen, Near, Solana, Stellar, Ton, TON_V2

(***************************************************************************)
(* The servers of the chain can answer the verifier.                       *)
(***************************************************************************)
Understood(v) == Speaks(v) /\ BlockIsKnown(v) /\ v.chain \notin Empty

(***************************************************************************)
(* The dispatch finds at most one verifier, for the chain the id means,    *)
(* which is configured, and Solana's and Stellar's are of their own kinds; *)
(* a supported chain has servers and gets one of its own protocol.         *)
(***************************************************************************)
LEMMA Dispatch ==
  ASSUME NEW id \in ChainId
  PROVE  /\ VerifierOf(id) # {} => id # Near /\ Home(id) \in Configured
         /\ \A v \in VerifierOf(id) : v.chain = Home(id)
         /\ id \in {Solana, Stellar} => \A v \in VerifierOf(id) : ~UsesHttpClient(v)
         /\ Supported(id) =>
              VerifierOf(id) # {} /\ \A v \in VerifierOf(id) : Understood(v)
<1> DEFINE Named == {Near, Stellar, Solana, Ton, TON_V2}
<1>0. /\ Near # Stellar /\ Near # Ton /\ Near # TON_V2 /\ Near # Solana /\ Stellar # Ton
      /\ Stellar # TON_V2 /\ Stellar # Solana /\ Ton # TON_V2 /\ Ton # Solana /\ TON_V2 # Solana
  BY DEF Near, Solana, Stellar, Ton, TON_V2
<1>1. CASE id = Stellar
  <2>1. VerifierOf(id) = SingleVerifier("stellar", Stellar)
    BY <1>1, <1>0, NamedIdsAreNotCosmos DEF VerifierOf
  <2> QED
    BY <1>0, <1>1, <2>1, ConfiguredAssumption, ProtocolAssumption
       DEF SingleVerifier, Home, Supported, Understood, Speaks, BlockIsKnown, UsesHttpClient
<1>2. CASE id \in {Ton, TON_V2}
  <2>1. VerifierOf(id) = SingleVerifier("ton", TON_V2)
    BY <1>2, <1>0, NamedIdsAreNotCosmos DEF VerifierOf
  <2> QED
    BY <1>0, <1>2, <2>1, ConfiguredAssumption, ProtocolAssumption
       DEF SingleVerifier, Home, Supported, Understood, Speaks, BlockIsKnown, UsesHttpClient
<1>3. CASE id = Solana
  <2>1. VerifierOf(id) = SingleVerifier("solana", Solana)
    BY <1>3, <1>0, NamedIdsAreNotCosmos DEF VerifierOf
  <2> QED
    BY <1>0, <1>3, <2>1, ConfiguredAssumption, ProtocolAssumption
       DEF SingleVerifier, Home, Supported, Understood, Speaks, BlockIsKnown, UsesHttpClient
<1>4. CASE id = Near
  <2>1. VerifierOf(id) = {}
    BY <1>4, <1>0, NamedIdsAreNotCosmos DEF VerifierOf
  <2> QED
    BY <1>0, <1>4, <2>1 DEF Supported
<1>5. CASE id \notin Named /\ IsCosmos(id)
  <2>1. VerifierOf(id) = FromConfig("cosmos", id)
    BY <1>5, <1>0 DEF VerifierOf
  <2>2. Home(id) = id
    BY <1>5 DEF Home
  <2>3. CASE id \in Configured
    <3>1. VerifierOf(id) = {[kind |-> "cosmos", chain |-> id]}
      BY <2>1, <2>3 DEF FromConfig, SingleVerifier
    <3>2. Protocol[id] = "cosmos"
      BY <1>5, <2>3, ProtocolAssumption
    <3> QED
      BY <1>5, <2>2, <2>3, <3>1, <3>2 DEF Supported, Understood, Speaks, BlockIsKnown, UsesHttpClient
  <2>4. CASE id \notin Configured
    <3>1. VerifierOf(id) = {}
      BY <2>1, <2>4 DEF FromConfig
    <3> QED
      BY <2>2, <2>4, <3>1 DEF Supported
  <2> QED
    BY <2>3, <2>4
<1>6. CASE id \notin Named /\ ~IsCosmos(id)
  <2>1. VerifierOf(id) = FromConfig("evm", id)
    BY <1>6, <1>0 DEF VerifierOf
  <2>2. Home(id) = id
    BY <1>6 DEF Home
  <2>3. CASE id \in Configured
    <3>1. VerifierOf(id) = {[kind |-> "evm", chain |-> id]}
      BY <2>1, <2>3 DEF FromConfig, SingleVerifier
    <3>2. Protocol[id] = "evm"
      BY <1>6, <2>3, ProtocolAssumption
    <3> QED
      BY <1>6, <2>2, <2>3, <3>1, <3>2 DEF Supported, Understood, Speaks, BlockIsKnown, UsesHttpClient
  <2>4. CASE id \notin Configured
    <3>1. VerifierOf(id) = {}
      BY <2>1, <2>4 DEF FromConfig
    <3> QED
      BY <2>2, <2>4, <3>1 DEF Supported
  <2> QED
    BY <2>3, <2>4
<1> QED
  BY <1>1, <1>2, <1>3, <1>4, <1>5, <1>6

(***************************************************************************)
(* Arguments written for a protocol are of its kind, and the EVM and       *)
(* Solana verifiers can convert their own.                                 *)
(***************************************************************************)
LEMMA WrittenIsUnderstood ==
  ASSUME NEW in \in InputData,
         NEW kind \in {"stellar", "cosmos", "ton", "solana", "evm"}, WrittenFor(kind, in)
  PROVE  Kind(in) = kind /\ ~ConversionPanics(in, kind)
<1>1. CASE kind \in {"evm", "stellar"}
  <2>1. in.form = "list" /\ (kind = "evm" => ~in.misfit)
    BY <1>1 DEF WrittenFor
  <2>2. CASE kind = "evm"
    <3>1. in.types \subseteq EvmTypes
      BY <2>2 DEF WrittenFor
    <3>2. ListKind(in.types) = "evm"
      BY <3>1 DEF ListKind
    <3> QED
      BY <2>1, <2>2, <3>1, <3>2 DEF Kind, ObjectKinds, ConversionPanics, Converting
  <2>3. CASE kind = "stellar"
    <3>1. in.types \subseteq StellarTypes /\ ~(in.types \subseteq EvmTypes)
      BY <2>3 DEF WrittenFor
    <3>2. ListKind(in.types) = "stellar"
      BY <3>1 DEF ListKind
    <3> QED
      BY <2>1, <2>3, <3>1, <3>2 DEF Kind, ObjectKinds, ConversionPanics, Converting
  <2> QED
    BY <1>1, <2>2, <2>3
<1>2. CASE kind \in ObjectKinds
  BY <1>2 DEF WrittenFor, Kind, ConversionPanics, Converting, ObjectKinds
<1> QED
  BY <1>1, <1>2 DEF ObjectKinds

LEMMA SupportedProtocol ==
  ASSUME NEW id \in ChainId, Supported(id)
  PROVE  Protocol[Home(id)] \in {"stellar", "cosmos", "ton", "solana", "evm"}
<1>1. Home(id) \in Configured /\ Home(id) # Near /\ Home(id) # Ton
  BY DEF Supported, Home, Near, Ton, TON_V2
<1> QED
  BY <1>1, ProtocolAssumption

LEMMA InitIInv == Init => IInv
<1> SUFFICES ASSUME Init PROVE IInv
  OBVIOUS
<1>1. TypeOK
  <2>1. DOMAIN accessList = {} /\ tasks \in [{} -> {"near", "chain", "ok"}]
    BY DEF Init
  <2> QED
    BY <2>1, WorldsAssumption, ProofsAssumption DEF Init, TypeOK
<1> QED
  BY <1>1 DEF Init, IInv, ListWasRead, ChecksAreEarned, OkIsDone, RejectedForCause,
              PanicsForCause

(***************************************************************************)
(* The three ways a step can change a call: it reads the list, it moves    *)
(* one check on, or it ends.                                               *)
(***************************************************************************)
LEMMA StepShape ==
  ASSUME [Next]_vars
  PROVE  /\ world' = world /\ proof' = proof
         /\ \/ \E L \in world.lists : ReadWallet(L)
            \/ \E i \in DOMAIN tasks : NearResult(i) \/ NearAuthCall(i) \/ ChainApproves(i)
            \/ UNCHANGED <<accessList, tasks>>
  BY DEF Next, vars, Step, Check, ReadWallet, LengthDiffers,
         WalletUnread, WalletPanics, NearResult, NearAuthCall, Unroutable, NearRefuses, NearPanics,
         ChainApproves, ChainRefuses, ChainPanics, AllVerified, Drop, Ended, End, Progress

LEMMA TypeStep == TypeOK /\ [Next]_vars => TypeOK'
<1> SUFFICES ASSUME TypeOK, [Next]_vars PROVE TypeOK'
  OBVIOUS
<1>1. IsWorld(world)' /\ proof' \in Seq(Method)
  BY StepShape DEF TypeOK, IsWorld
<1>2. status' \in {"reading", "verifying", "ok", "err", "panic", "dropped"}
  BY DEF TypeOK, Next, vars, Step, Check, ReadWallet, LengthDiffers,
         WalletUnread, WalletPanics, NearResult, NearAuthCall, Unroutable, NearRefuses, NearPanics,
         ChainApproves, ChainRefuses, ChainPanics, AllVerified, Drop, Ended, End, Progress
<1>3. ASSUME NEW L \in world.lists, ReadWallet(L)
      PROVE  accessList' \in Seq(Method) /\ tasks' \in [DOMAIN accessList' -> {"near", "chain", "ok"}]
  <2>1. L \in Seq(Method)
    BY DEF TypeOK, IsWorld
  <2>2. Zipped(L) = DOMAIN L
    BY <1>3, <2>1 DEF ReadWallet, SameLength, Zipped, TypeOK
  <2> QED
    BY <1>3, <2>1, <2>2 DEF ReadWallet
<1>4. ASSUME NEW i \in DOMAIN tasks, NearResult(i) \/ NearAuthCall(i) \/ ChainApproves(i)
      PROVE  accessList' \in Seq(Method) /\ tasks' \in [DOMAIN accessList' -> {"near", "chain", "ok"}]
  BY <1>4 DEF TypeOK, NearResult, NearAuthCall, ChainApproves, Progress
<1>5. CASE UNCHANGED <<accessList, tasks>>
  BY <1>1, <1>2, <1>5 DEF TypeOK
<1> QED
  BY <1>1, <1>2, <1>3, <1>4, <1>5, StepShape DEF TypeOK

LEMMA ListStep == ListWasRead /\ [Next]_vars => ListWasRead'
  BY DEF ListWasRead, SameLength, Unread, Verifying, NearApproves,
         Next, vars, Step, Check, ReadWallet, LengthDiffers,
         WalletUnread, WalletPanics, NearResult, NearAuthCall, Unroutable, NearRefuses, NearPanics,
         ChainApproves, ChainRefuses, ChainPanics, AllVerified, Drop, Ended, End, Progress

(***************************************************************************)
(* A check moves on only after the yes that its new stage stands for.      *)
(***************************************************************************)
LEMMA ChecksStep == TypeOK /\ ChecksAreEarned /\ [Next]_vars => ChecksAreEarned'
<1> SUFFICES ASSUME TypeOK, ChecksAreEarned, [Next]_vars PROVE ChecksAreEarned'
  OBVIOUS
<1>0. world' = world /\ proof' = proof
  BY StepShape
<1>1. ASSUME NEW L \in world.lists, ReadWallet(L) PROVE ChecksAreEarned'
  BY <1>1 DEF ReadWallet, ChecksAreEarned
<1>2. ASSUME NEW i \in DOMAIN tasks, NEW stage \in {"chain", "ok"},
             Progress(i, stage),
             stage = "chain" =>
               /\ proof[i] = accessList[i] /\ "yes" \in world.near[accessList[i]]
               /\ Target(i) # Direct /\ VerifierOf(Target(i)) # {},
             stage = "ok" => proof[i] = accessList[i] /\ Approved(accessList[i])
      PROVE  ChecksAreEarned'
  <2>1. /\ accessList' = accessList /\ DOMAIN tasks' = DOMAIN tasks
        /\ \A j \in DOMAIN tasks : tasks'[j] = IF j = i THEN stage ELSE tasks[j]
    BY <1>2 DEF Progress, TypeOK
  <2> QED
    BY <1>0, <1>2, <2>1 DEF ChecksAreEarned, Target, Approved, VerifierOf, FromConfig
<1>3. ASSUME NEW i \in DOMAIN tasks, NearApproves(i)
      PROVE  proof[i] = accessList[i] /\ "yes" \in world.near[accessList[i]]
  BY <1>3 DEF NearApproves, NearSays, Heard
<1>4. ASSUME NEW i \in DOMAIN tasks, NearResult(i) PROVE ChecksAreEarned'
  <2>1. Approved(accessList[i])
    BY <1>3, <1>4 DEF NearResult, Target, Approved
  <2> QED
    BY <1>2, <1>3, <1>4, <2>1 DEF NearResult
<1>5. ASSUME NEW i \in DOMAIN tasks, NearAuthCall(i) PROVE ChecksAreEarned'
  BY <1>2, <1>3, <1>5 DEF NearAuthCall
<1>6. ASSUME NEW i \in DOMAIN tasks, ChainApproves(i) PROVE ChecksAreEarned'
  <2>1. /\ proof[i] = accessList[i] /\ "yes" \in world.near[accessList[i]]
        /\ Target(i) # Direct /\ VerifierOf(Target(i)) # {}
    BY <1>6 DEF ChainApproves, ChecksAreEarned
  <2>2. Target(i) \in ChainId
    BY <2>1 DEF TypeOK, IsWorld, Target
  <2>3. Target(i) # Near /\ Home(Target(i)) \in Configured
    BY <2>1, <2>2, Dispatch
  <2>4. "yes" \in world.chain[accessList[i]]
    BY <1>6 DEF ChainApproves, ChainSays, Verdict
  <2>5. Approved(accessList[i])
    BY <2>1, <2>3, <2>4 DEF Approved, Target
  <2> QED
    BY <1>2, <1>6, <2>1, <2>5 DEF ChainApproves
<1>7. CASE UNCHANGED <<accessList, tasks>>
  BY <1>0, <1>7 DEF ChecksAreEarned, Target, Approved, VerifierOf, FromConfig
<1> QED
  BY <1>1, <1>4, <1>5, <1>6, <1>7, StepShape

LEMMA DoneStep == OkIsDone /\ [Next]_vars => OkIsDone'
  BY DEF OkIsDone, Done, Unread, Verifying, NearApproves,
         Next, vars, Step, Check, ReadWallet, LengthDiffers,
         WalletUnread, WalletPanics, NearResult, NearAuthCall, Unroutable, NearRefuses, NearPanics,
         ChainApproves, ChainRefuses, ChainPanics, AllVerified, Drop, Ended, End, Progress

(***************************************************************************)
(* Under a proof that deserves to pass, no check can be refused.           *)
(***************************************************************************)
LEMMA DeservedNeverFails ==
  ASSUME TypeOK, ListWasRead, ChecksAreEarned, Deserved
  PROVE  /\ ~WalletUnread /\ ~WalletPanics /\ \A L \in world.lists : ~LengthDiffers(L)
         /\ \A i \in DOMAIN tasks : /\ ~Unroutable(i) /\ ~NearRefuses(i) /\ ~NearPanics(i)
                                    /\ ~ChainRefuses(i) /\ ~ChainPanics(i)
<1>1. ~WalletUnread /\ ~WalletPanics /\ \A L \in world.lists : ~LengthDiffers(L)
  BY DEF Deserved, WalletUnread, WalletPanics, LengthDiffers, SameLength
<1>2. ASSUME NEW i \in DOMAIN tasks, Verifying
      PROVE  /\ ~Unroutable(i) /\ ~NearRefuses(i) /\ ~NearPanics(i)
             /\ ~ChainRefuses(i) /\ ~ChainPanics(i)
  <2>1. accessList = proof
    BY <1>2 DEF Deserved, ListWasRead, Verifying
  <2>2. AlwaysApproved(proof[i]) /\ i \in DOMAIN accessList
    BY <2>1 DEF Deserved, TypeOK
  <2>3. Target(i) \in ChainId \cup {Direct} /\ Input(i) \in InputData
    BY <2>2 DEF TypeOK, IsWorld, Target, Input
  <2>5. ASSUME Target(i) # Direct
        PROVE  /\ VerifierOf(Target(i)) # {}
               /\ Kind(Input(i)) # "none"
               /\ \A v \in VerifierOf(Target(i)) : ChainSays(i, v) = {"yes"}
    <3>1. /\ Supported(Target(i)) /\ world.chain[accessList[i]] = {"yes"}
          /\ WrittenFor(Protocol[Home(Target(i))], Input(i))
      BY <2>1, <2>2, <2>5 DEF AlwaysApproved, Target, Input
    <3>2. /\ VerifierOf(Target(i)) # {}
          /\ \A v \in VerifierOf(Target(i)) : Understood(v) /\ v.chain = Home(Target(i))
      BY <2>3, <2>5, <3>1, Dispatch
    <3>3. \A v \in VerifierOf(Target(i)) :
            Kind(Input(i)) = v.kind /\ ~ConversionPanics(Input(i), v.kind)
      BY <2>3, <2>5, <3>1, <3>2, SupportedProtocol, WrittenIsUnderstood DEF Understood, Speaks
    <3>4. /\ Kind(Input(i)) # "none"
          /\ \A v \in VerifierOf(Target(i)) : ChainSays(i, v) = {"yes"}
      <4>1. Kind(Input(i)) = Protocol[Home(Target(i))]
        BY <2>3, <2>5, <3>1, SupportedProtocol, WrittenIsUnderstood
      <4> QED
        BY <2>3, <2>5, <3>1, <3>2, <3>3, <4>1, SupportedProtocol
           DEF ChainSays, Sent, Takes, Verdict, Understood
    <3> QED
      BY <3>2, <3>4
  <2>4. NearSays(i) = {"yes"}
    BY <2>1, <2>2, <2>5 DEF NearSays, Heard, AlwaysApproved
  <2>6. tasks[i] = "chain" => Target(i) # Direct
    BY DEF ChecksAreEarned
  <2>7. ~Unroutable(i)
    BY <2>5 DEF Unroutable
  <2>8. ~NearRefuses(i) /\ ~NearPanics(i)
    BY <2>4 DEF NearRefuses, NearPanics
  <2>9. ~ChainRefuses(i) /\ ~ChainPanics(i)
    BY <2>5, <2>6 DEF ChainRefuses, ChainPanics
  <2> QED
    BY <2>7, <2>8, <2>9
<1>3. ASSUME NEW i \in DOMAIN tasks, ~Verifying
      PROVE  /\ ~Unroutable(i) /\ ~NearRefuses(i) /\ ~NearPanics(i)
             /\ ~ChainRefuses(i) /\ ~ChainPanics(i)
  BY <1>3 DEF Unroutable, NearRefuses, NearPanics, ChainRefuses, ChainPanics, NearApproves
<1> QED
  BY <1>1, <1>2, <1>3

LEMMA RejectionStep ==
  /\ TypeOK /\ ListWasRead /\ ChecksAreEarned /\ RejectedForCause /\ [Next]_vars
  => RejectedForCause'
<1> SUFFICES ASSUME TypeOK, ListWasRead, ChecksAreEarned, RejectedForCause, [Next]_vars,
                    status' \in {"err", "panic"}, Deserved'
             PROVE  FALSE
  BY DEF RejectedForCause
<1>1. Deserved
  BY StepShape DEF Deserved, AlwaysApproved, Supported, Home
<1>2. status \notin {"err", "panic"}
  BY <1>1 DEF RejectedForCause
<1> QED
  BY <1>1, <1>2, DeservedNeverFails
     DEF Next, vars, Step, Check, ReadWallet, LengthDiffers,
         WalletUnread, WalletPanics, NearResult, NearAuthCall, Unroutable, NearRefuses, NearPanics,
         ChainApproves, ChainRefuses, ChainPanics, AllVerified, Drop, Ended, End, Progress

(***************************************************************************)
(* A check that panics has a server of NEAR or of its chain, its chain or  *)
(* its arguments to blame.                                                 *)
(***************************************************************************)
LEMMA NearPanicHasCause ==
  ASSUME TypeOK, NEW i \in DOMAIN tasks, NearPanics(i)
  PROVE  CheckMayPanic(accessList[i])
  BY DEF NearPanics, NearSays, Heard, CheckMayPanic

LEMMA ChainPanicHasCause ==
  ASSUME TypeOK, ChecksAreEarned, NEW i \in DOMAIN tasks, ChainPanics(i)
  PROVE  CheckMayPanic(accessList[i])
<1> DEFINE m == accessList[i]
<1>1. "yes" \in world.near[m] /\ Target(i) # Direct /\ Target(i) = world.chainOf[m]
  BY DEF ChainPanics, ChecksAreEarned, Target
<1>2. m \in Method
  BY DEF TypeOK
<1>3. Target(i) \in ChainId
  BY <1>1, <1>2 DEF TypeOK, IsWorld
<1>4. PICK v \in VerifierOf(Target(i)) : "panics" \in ChainSays(i, v) \/ ~HasName(v)
  BY DEF ChainPanics
<1>5. v.chain = Home(Target(i)) /\ Home(Target(i)) \in Configured
  BY <1>3, <1>4, Dispatch
<1>6. CASE ~HasName(v)
  BY <1>1, <1>5, <1>6 DEF HasName, ChainHasNoName, CheckMayPanic
<1>7. CASE ConversionPanics(Input(i), v.kind)
  BY <1>1, <1>7 DEF ConversionPanics, Converting, Input, DoesNotFit, CheckMayPanic
<1>8. CASE "panics" \in ChainSays(i, v) /\ ~ConversionPanics(Input(i), v.kind)
  <2>1. PICK answer \in world.chain[m] : Verdict(v, answer) = "panics"
    BY <1>8 DEF ChainSays
  <2>2. answer = "panics" /\ UsesHttpClient(v)
    BY <2>1 DEF Verdict
  <2>3. Target(i) \notin {Solana, Stellar}
    BY <1>3, <1>4, <2>2, Dispatch
  <2> QED
    BY <1>1, <2>1, <2>2, <2>3 DEF ChainServerPanics, CheckMayPanic
<1> QED
  BY <1>4, <1>6, <1>7, <1>8

LEMMA PanicStep ==
  /\ TypeOK /\ ChecksAreEarned /\ PanicsForCause /\ [Next]_vars
  => PanicsForCause'
<1> SUFFICES ASSUME TypeOK, ChecksAreEarned, PanicsForCause, [Next]_vars,
                    status' = "panic"
             PROVE  \/ "panics" \in world.reading
                    \/ \E i \in DOMAIN accessList' : CheckMayPanic(accessList'[i])
  BY StepShape
     DEF PanicsForCause, CheckMayPanic, ChainHasNoName, Home, DoesNotFit, Kind, ListKind, ChainServerPanics
<1>1. CASE status = "panic"
  <2>1. accessList' = accessList
    BY <1>1 DEF Unread, Verifying, NearApproves,
         Next, vars, Step, Check, ReadWallet, LengthDiffers,
         WalletUnread, WalletPanics, NearResult, NearAuthCall, Unroutable, NearRefuses, NearPanics,
         ChainApproves, ChainRefuses, ChainPanics, AllVerified, Drop, Ended, End, Progress
  <2> QED
    BY <1>1, <2>1 DEF PanicsForCause
<1>2. CASE WalletPanics
  BY <1>2 DEF WalletPanics
<1>3. ASSUME NEW i \in DOMAIN tasks, NearPanics(i) \/ ChainPanics(i)
      PROVE  \E j \in DOMAIN accessList' : CheckMayPanic(accessList'[j])
  <2>1. CheckMayPanic(accessList[i]) /\ i \in DOMAIN accessList
    BY <1>3, NearPanicHasCause, ChainPanicHasCause DEF TypeOK
  <2>2. accessList' = accessList
    BY <1>3 DEF NearPanics, ChainPanics, End
  <2> QED
    BY <2>1, <2>2
<1> QED
  BY <1>1, <1>2, <1>3
     DEF Next, vars, Step, Check, ReadWallet, LengthDiffers,
         WalletUnread, WalletPanics, NearResult, NearAuthCall, Unroutable, NearRefuses, NearPanics,
         ChainApproves, ChainRefuses, ChainPanics, AllVerified, Drop, Ended, End, Progress

LEMMA NextIInv == IInv /\ [Next]_vars => IInv'
  BY TypeStep, ListStep, ChecksStep, DoneStep, RejectionStep, PanicStep DEF IInv

-----------------------------------------------------------------------------

(***************************************************************************)
(* The invariant holds in every reachable state.                           *)
(***************************************************************************)
THEOREM InductiveInvariant == Spec => []IInv
  BY InitIInv, NextIInv, PTL DEF Spec

(***************************************************************************)
(* The variables of a call keep their types: one check per listed method.  *)
(***************************************************************************)
THEOREM TypeCorrect == Spec => []TypeOK
<1>1. IInv => TypeOK
  BY DEF IInv
<1> QED
  BY <1>1, InductiveInvariant, PTL

(***************************************************************************)
(* verify only succeeds when every method of the wallet's list, whatever   *)
(* its length, was approved by NEAR and by the chain NEAR named.           *)
(***************************************************************************)
THEOREM NothingUnverified == Spec => []VerifiedByAll
<1>1. IInv => VerifiedByAll
  <2> SUFFICES ASSUME IInv, status = "ok"
               PROVE  /\ accessList \in world.lists /\ proof = accessList
                      /\ \A i \in DOMAIN accessList : Approved(accessList[i])
    BY DEF VerifiedByAll
  <2>1. accessList \in world.lists /\ Len(proof) = Len(accessList)
    BY DEF IInv, ListWasRead, SameLength
  <2>2. \A i \in DOMAIN accessList : proof[i] = accessList[i] /\ Approved(accessList[i])
    BY DEF IInv, TypeOK, OkIsDone, Done, ChecksAreEarned
  <2>3. proof = accessList
    BY <2>1, <2>2 DEF IInv, TypeOK
  <2> QED
    BY <2>1, <2>2, <2>3
<1> QED
  BY <1>1, InductiveInvariant, PTL

(***************************************************************************)
(* A proof that every chain approves throughout is not turned down.        *)
(***************************************************************************)
THEOREM NothingRefusedUnduly == Spec => []RejectedForCause
<1>1. IInv => RejectedForCause
  BY DEF IInv
<1> QED
  BY <1>1, InductiveInvariant, PTL

(***************************************************************************)
(* What panics instead of being refused is a request to NEAR, or a check   *)
(* that NEAR approved, and the chain, its arguments or an answer of one of *)
(* its servers is to blame.                                                *)
(***************************************************************************)
THEOREM PanicsExplained == Spec => []PanicsForCause
<1>1. IInv => PanicsForCause
  BY DEF IInv
<1> QED
  BY <1>1, InductiveInvariant, PTL
=============================================================================
