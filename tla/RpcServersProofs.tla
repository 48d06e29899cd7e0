------------------------- MODULE RpcServersProofs ---------------------------
(***************************************************************************)
(* Theorems about the lists of RPC servers: how rpc-fetch makes them, for  *)
(* any operator's files, QuickNode accounts and keys (RpcFetch), and how   *)
(* the observer probes them, for any chains, lists, thresholds, domains    *)
(* and number of probes at a time (Observer).  RunInv is the invariant of  *)
(* the first, IInv that of the second.                                     *)
(***************************************************************************)
EXTENDS RpcFetch, Observer, FiniteSetTheorems, TLAPS

-----------------------------------------------------------------------------
(* The observer.                                                           *)

(***************************************************************************)
(* Types of the variables that the proofs speak of.  Between two checks    *)
(* nothing is left of the last one.                                        *)
(***************************************************************************)
Result == [slot : Nat, ok : BOOLEAN]

TypeOK ==
  /\ up \subseteq Server
  /\ pending \subseteq Chain
  /\ checking \in Chain \cup {NoChain}
  /\ pulled \in Nat
  /\ results \in Seq(Result)
  /\ DOMAIN server_up = Labels /\ DOMAIN delta = Chain /\ DOMAIN shownUp = Chain

(***************************************************************************)
(* The inductive invariant.  The answers of a check are of different slots *)
(* of the chain's list, so that counting answers counts slots; and what    *)
(* was up when it answered has been seen up, whatever it did since.        *)
(***************************************************************************)
WithinList == checking \in Chain => pulled <= Len(Servers[checking])

DifferentSlots ==
  /\ \A j \in DOMAIN results : results[j].slot \in 1 .. pulled
  /\ \A j, k \in DOMAIN results : results[j].slot = results[k].slot => j = k

AnswersWereUp ==
  checking \in Chain =>
    /\ up \cap Listed(checking) \subseteq seenUp
    /\ \A j \in DOMAIN results : results[j].ok => Servers[checking][results[j].slot] \in seenUp

CheckInv == TypeOK /\ WithinList /\ DifferentSlots /\ AnswersWereUp
IInv == CheckInv /\ MarginWasReal /\ LoneServersAreShown

-----------------------------------------------------------------------------

LEMMA Lists ==
  ASSUME NEW c \in Chain
  PROVE  /\ Servers[c] \in Seq(Server)
         /\ Len(Servers[c]) \in Nat
         /\ Slots(c) = 1 .. Len(Servers[c])
         /\ IsFiniteSet(Slots(c))
         /\ Cardinality(Slots(c)) = Len(Servers[c])
         /\ Listed(c) = {Servers[c][i] : i \in Slots(c)}
         /\ Threshold[c] \in Nat
<1>1. /\ Servers[c] \in Seq(Server) /\ Len(Servers[c]) \in Nat
      /\ Slots(c) = 1 .. Len(Servers[c]) /\ Threshold[c] \in Nat
  BY ObserverAssumption DEF Slots
<1>2. IsFiniteSet(Slots(c)) /\ Cardinality(Slots(c)) = Len(Servers[c])
  BY <1>1, FS_Interval
<1>3. Listed(c) = {Servers[c][i] : i \in Slots(c)}
  BY ObserverAssumption DEF Listed, Slots
<1> QED
  BY <1>1, <1>2, <1>3

(***************************************************************************)
(* Never more answers are counted than there are slots whose server was    *)
(* up during the check: an answer is mapped to its slot.                   *)
(***************************************************************************)
LEMMA CountWasReal ==
  ASSUME CheckInv, checking \in Chain
  PROVE  /\ Available(results) \in Nat
         /\ Available(results) <=
              Cardinality({i \in Slots(checking) : Servers[checking][i] \in seenUp})
<1> DEFINE J == {j \in DOMAIN results : results[j].ok}
           I == {i \in Slots(checking) : Servers[checking][i] \in seenUp}
           slot == [j \in J |-> results[j].slot]
<1>1. IsFiniteSet(I)
  BY Lists, FS_Subset
<1>2. slot \in [J -> I]
  <2> SUFFICES ASSUME NEW j \in J PROVE results[j].slot \in I
    OBVIOUS
  <2>1. results[j].slot \in 1 .. Len(Servers[checking])
    BY Lists DEF CheckInv, TypeOK, WithinList, DifferentSlots
  <2>2. Servers[checking][results[j].slot] \in seenUp
    BY DEF CheckInv, AnswersWereUp
  <2> QED
    BY <2>1, <2>2, Lists
<1>3. slot \in Injection(J, I)
  BY <1>2 DEF Injection, IsInjective, CheckInv, DifferentSlots
<1>4. IsFiniteSet(J) /\ Cardinality(J) <= Cardinality(I)
  BY <1>1, <1>3, FS_Injection
<1> QED
  BY <1>4, FS_CardinalityType DEF Available

(***************************************************************************)
(* When a round is over every slot has answered.                           *)
(***************************************************************************)
LEMMA AllReported ==
  ASSUME CheckInv, checking \in Chain, RoundOver, NEW i \in Slots(checking)
  PROVE  \E j \in DOMAIN results : results[j].slot = i
<1> DEFINE N == Slots(checking)
           slot == [j \in N |-> results[j].slot]
<1>1. DOMAIN results = N
  BY Lists DEF CheckInv, TypeOK, RoundOver
<1>2. slot \in [N -> N]
  <2> SUFFICES ASSUME NEW j \in N PROVE results[j].slot \in N
    OBVIOUS
  <2> QED
    BY <1>1, Lists DEF CheckInv, TypeOK, WithinList, DifferentSlots
<1>3. slot \in Injection(N, N)
  BY <1>1, <1>2 DEF Injection, IsInjective, CheckInv, DifferentSlots
<1>4. slot \in Surjection(N, N)
  BY <1>3, Lists, FS_Injection
<1>5. PICK j \in N : slot[j] = i
  BY <1>4 DEF Surjection
<1> QED
  BY <1>1, <1>5

(***************************************************************************)
(* The gauge of a server that has it to itself is set from its own answer. *)
(***************************************************************************)
LEMMA LoneGauge ==
  ASSUME CheckInv, checking \in Chain, RoundOver, NEW i \in Slots(checking),
         Alone(checking, i), Gauge(<<checking, Domain[Servers[checking][i]]>>) = {1}
  PROVE  Servers[checking][i] \in seenUp
<1> DEFINE l == <<checking, Domain[Servers[checking][i]]>>
<1>1. PICK j \in DOMAIN results : results[j].slot = i
  BY AllReported
<1>2. \A k \in DOMAIN results : results[k].slot \in Slots(checking)
  BY Lists DEF CheckInv, TypeOK, WithinList, DifferentSlots
<1>3. OfLabel(l) = {j}
  <2>1. j \in OfLabel(l)
    BY <1>1 DEF OfLabel, Label
  <2>2. ASSUME NEW k \in OfLabel(l) PROVE k = j
    <3>1. k \in DOMAIN results /\ Domain[Servers[checking][results[k].slot]] = Domain[Servers[checking][i]]
      BY <2>2 DEF OfLabel, Label
    <3>2. results[k].slot = i
      BY <3>1, <1>2 DEF Alone
    <3> QED
      BY <1>1, <3>1, <3>2 DEF CheckInv, DifferentSlots
  <2> QED
    BY <2>1, <2>2
<1>4. LastOf({j}) = j
  <2>1. j \in Nat
    BY DEF CheckInv, TypeOK
  <2> QED
    BY <2>1 DEF LastOf
<1>5. Gauge(l) = {IF results[j].ok THEN 1 ELSE 0}
  BY <1>3, <1>4 DEF Gauge
<1>6. results[j].ok
  BY <1>5
<1> QED
  BY <1>1, <1>6 DEF CheckInv, AnswersWereUp

-----------------------------------------------------------------------------

LEMMA GaugesKept ==
  ASSUME IInv, UNCHANGED gauges
  PROVE  (MarginWasReal /\ LoneServersAreShown)'
BY DEF IInv, gauges, MarginWasReal, LoneServersAreShown

LEMMA RecordMargin ==
  ASSUME IInv, Record
  PROVE  MarginWasReal'
<1>1. checking \in Chain
  BY DEF IInv, CheckInv, TypeOK, Record
<1> SUFFICES ASSUME NEW c \in Chain, NEW d \in delta'[c]
             PROVE  d + Threshold[c] <= Cardinality({i \in Slots(c) : Servers[c][i] \in shownUp'[c]})
  BY DEF MarginWasReal
<1>2. CASE c = checking
  <2>1. d = Available(results) - Threshold[c] /\ shownUp'[c] = seenUp
    BY <1>1, <1>2 DEF Record, IInv, CheckInv, TypeOK
  <2>2. d + Threshold[c] = Available(results)
    BY <1>1, <1>2, <2>1, CountWasReal, Lists DEF IInv
  <2> QED
    BY <1>1, <1>2, <2>1, <2>2, CountWasReal DEF IInv
<1>3. CASE c # checking
  <2>1. delta'[c] = delta[c] /\ shownUp'[c] = shownUp[c]
    BY <1>1, <1>3 DEF Record, IInv, CheckInv, TypeOK
  <2> QED
    BY <2>1 DEF IInv, MarginWasReal
<1> QED
  BY <1>2, <1>3

LEMMA RecordLone ==
  ASSUME IInv, Record
  PROVE  LoneServersAreShown'
<1>1. checking \in Chain
  BY DEF IInv, CheckInv, TypeOK, Record
<1> SUFFICES ASSUME NEW c \in Chain, NEW i \in Slots(c), Alone(c, i),
                    server_up'[<<c, Domain[Servers[c][i]]>>] = {1}
             PROVE  Servers[c][i] \in shownUp'[c]
  BY DEF LoneServersAreShown
<1> DEFINE l == <<c, Domain[Servers[c][i]]>>
<1>2. l \in Labels
  <2>1. Servers[c][i] \in Server
    BY Lists
  <2> QED
    BY <2>1 DEF Labels
<1>3. Gauge(l) = {1}
  BY <1>2 DEF Record
<1>4. CASE c = checking
  <2>1. Servers[c][i] \in seenUp
    BY <1>1, <1>3, <1>4, LoneGauge DEF IInv, Record
  <2> QED
    BY <1>1, <1>4, <2>1 DEF Record, IInv, CheckInv, TypeOK
<1>5. CASE c # checking
  <2>1. OfLabel(l) = {}
    BY <1>5 DEF OfLabel, Label
  <2>2. server_up[l] = {1}
    BY <1>3, <2>1 DEF Gauge
  <2>3. shownUp'[c] = shownUp[c]
    BY <1>1, <1>5 DEF Record, IInv, CheckInv, TypeOK
  <2> QED
    BY <2>2, <2>3 DEF IInv, LoneServersAreShown
<1> QED
  BY <1>4, <1>5

-----------------------------------------------------------------------------

LEMMA InitInvariant == Init => IInv
<1> SUFFICES ASSUME Init PROVE IInv
  OBVIOUS
<1>1. CheckInv
  BY ObserverAssumption
     DEF Init, CheckInv, TypeOK, WithinList, DifferentSlots, AnswersWereUp
<1>2. MarginWasReal
  BY DEF Init, MarginWasReal
<1>3. LoneServersAreShown
  <2> SUFFICES ASSUME NEW c \in Chain, NEW i \in Slots(c),
                      server_up[<<c, Domain[Servers[c][i]]>>] = {1}
               PROVE  FALSE
    BY DEF LoneServersAreShown
  <2>1. Servers[c][i] \in Server
    BY Lists
  <2>2. <<c, Domain[Servers[c][i]]>> \in Labels
    BY <2>1 DEF Labels
  <2> QED
    BY <2>2 DEF Init
<1> QED
  BY <1>1, <1>2, <1>3 DEF IInv

LEMMA FlipKeeps ==
  ASSUME CheckInv, NEW s \in Server, Flip(s)
  PROVE  CheckInv'
<1> USE DEF CheckInv, Flip, gauges
<1>1. TypeOK'
  BY DEF TypeOK
<1>2. WithinList' /\ DifferentSlots'
  BY DEF WithinList, DifferentSlots
<1>3. AnswersWereUp'
  BY DEF AnswersWereUp, Listed
<1> QED
  BY <1>1, <1>2, <1>3

LEMMA CheckChainKeeps ==
  ASSUME CheckInv, NEW c \in Chain, CheckChain(c)
  PROVE  CheckInv'
<1> USE DEF CheckInv, CheckChain, gauges
<1>1. TypeOK'
  BY DEF TypeOK
<1>2. WithinList'
  BY Lists DEF WithinList
<1>3. DifferentSlots'
  BY DEF DifferentSlots
<1>4. AnswersWereUp'
  BY DEF AnswersWereUp, Listed
<1> QED
  BY <1>1, <1>2, <1>3, <1>4

LEMMA PullKeeps ==
  ASSUME CheckInv, Pull
  PROVE  CheckInv'
<1> USE DEF CheckInv, Pull, gauges
<1>1. TypeOK'
  BY DEF TypeOK
<1>2. WithinList'
  BY Lists DEF TypeOK, WithinList, HasNext
<1>3. DifferentSlots'
  BY DEF TypeOK, DifferentSlots
<1>4. AnswersWereUp'
  BY DEF AnswersWereUp, Listed
<1> QED
  BY <1>1, <1>2, <1>3, <1>4

LEMMA EndsKeeps ==
  ASSUME CheckInv, NEW i \in Open, NEW ok \in BOOLEAN, Ends(i, ok)
  PROVE  CheckInv'
<1> USE DEF CheckInv, Ends, gauges
<1> DEFINE r == [slot |-> i, ok |-> ok]
           n == Len(results) + 1
<1>1. i \in 1 .. pulled /\ \A j \in DOMAIN results : results[j].slot # i
  BY DEF Open
<1>2. r \in Result
  BY <1>1 DEF Result, TypeOK
<1>3. /\ results' \in Seq(Result)
      /\ DOMAIN results' = DOMAIN results \cup {n}
      /\ n \notin DOMAIN results
      /\ results'[n] = r
      /\ \A j \in DOMAIN results : results'[j] = results[j]
  BY <1>2 DEF TypeOK
<1>4. TypeOK'
  BY <1>3 DEF TypeOK
<1>5. WithinList'
  BY DEF WithinList
<1>6. DifferentSlots'
  BY <1>1, <1>3 DEF DifferentSlots
<1>7. AnswersWereUp'
  <2> SUFFICES ASSUME checking \in Chain
               PROVE  /\ up \cap Listed(checking) \subseteq seenUp
                      /\ \A j \in DOMAIN results' :
                           results'[j].ok => Servers[checking][results'[j].slot] \in seenUp
    BY DEF AnswersWereUp, Listed
  <2>1. i \in Slots(checking)
    BY <1>1, Lists DEF TypeOK, WithinList
  <2>2. ok => Servers[checking][i] \in seenUp
    BY <2>1, Lists DEF AnswersWereUp
  <2> QED
    BY <1>3, <2>2 DEF AnswersWereUp
<1> QED
  BY <1>4, <1>5, <1>6, <1>7

LEMMA RecordKeeps ==
  ASSUME CheckInv, Record
  PROVE  CheckInv'
<1> USE DEF CheckInv, Record
<1>1. TypeOK'
  BY DEF TypeOK
<1>2. WithinList' /\ DifferentSlots' /\ AnswersWereUp'
  BY ObserverAssumption DEF WithinList, DifferentSlots, AnswersWereUp
<1> QED
  BY <1>1, <1>2

LEMMA IdleKeeps ==
  ASSUME CheckInv, Tick \/ UNCHANGED vars
  PROVE  CheckInv'
<1> USE DEF CheckInv, TypeOK, WithinList, DifferentSlots, AnswersWereUp, Listed
<1>1. CASE Tick
  BY <1>1 DEF Tick, round, gauges
<1>2. CASE UNCHANGED vars
  BY <1>2 DEF vars, round, gauges
<1> QED
  BY <1>1, <1>2

LEMMA NextKeeps == IInv /\ [Next]_vars => IInv'
<1> SUFFICES ASSUME IInv, [Next]_vars PROVE IInv'
  OBVIOUS
<1>0. CheckInv
  BY DEF IInv
<1>1. ASSUME NEW s \in Server, Flip(s) PROVE IInv'
  <2>1. UNCHANGED gauges
    BY <1>1 DEF Flip
  <2> QED
    BY <1>0, <1>1, <2>1, FlipKeeps, GaugesKept DEF IInv
<1>2. ASSUME NEW c \in Chain, CheckChain(c) PROVE IInv'
  <2>1. UNCHANGED gauges
    BY <1>2 DEF CheckChain
  <2> QED
    BY <1>0, <1>2, <2>1, CheckChainKeeps, GaugesKept DEF IInv
<1>3. CASE Pull
  <2>1. UNCHANGED gauges
    BY <1>3 DEF Pull
  <2> QED
    BY <1>0, <1>3, <2>1, PullKeeps, GaugesKept DEF IInv
<1>4. CASE Probe
  <2>1. PICK i \in Open, ok \in BOOLEAN : Ends(i, ok)
    BY <1>4 DEF Probe
  <2>2. UNCHANGED gauges
    BY <2>1 DEF Ends
  <2> QED
    BY <1>0, <2>1, <2>2, EndsKeeps, GaugesKept DEF IInv
<1>5. CASE Record
  BY <1>0, <1>5, RecordKeeps, RecordMargin, RecordLone DEF IInv
<1>6. CASE Tick \/ UNCHANGED vars
  <2>1. UNCHANGED gauges
    BY <1>6 DEF Tick, vars
  <2> QED
    BY <1>0, <1>6, <2>1, IdleKeeps, GaugesKept DEF IInv
<1> QED
  BY <1>1, <1>2, <1>3, <1>4, <1>5, <1>6 DEF Next

THEOREM Invariant == Spec => []IInv
  BY InitInvariant, NextKeeps, PTL DEF Spec

-----------------------------------------------------------------------------

(***************************************************************************)
(* The variables hold values of their types.                               *)
(***************************************************************************)
THEOREM TypeCorrect == Spec => []TypeOK
<1>1. IInv => TypeOK
  BY DEF IInv, CheckInv
<1> QED
  BY <1>1, Invariant, PTL

(***************************************************************************)
(* For any lists of servers, also ones that list a server twice, and for   *)
(* any order of the answers: the margin shown is one the chain really had. *)
(***************************************************************************)
THEOREM MarginIsReal == Spec => []MarginWasReal
<1>1. IInv => MarginWasReal
  BY DEF IInv
<1> QED
  BY <1>1, Invariant, PTL

(***************************************************************************)
(* A server that shares its gauge with no other of its chain, and is shown *)
(* as available, was up during the check that set the gauge.               *)
(***************************************************************************)
THEOREM LoneGaugesAreRight == Spec => []LoneServersAreShown
<1>1. IInv => LoneServersAreShown
  BY DEF IInv
<1> QED
  BY <1>1, Invariant, PTL

-----------------------------------------------------------------------------
(* rpc-fetch.                                                              *)

(***************************************************************************)
(* Where the servers of a chain come from: the operator's files and the    *)
(* providers that have been asked.                                         *)
(***************************************************************************)
FileServers(id) == UNION {ToSet(f[id]) : f \in {g \in Files : id \in DOMAIN g}}
FromProvider(p, id) == {e[id] : e \in {x \in Fetched(p) : id \in DOMAIN x}}
Sources(id, P) == FileServers(id) \cup UNION {FromProvider(p, id) : p \in P}

-----------------------------------------------------------------------------

(***************************************************************************)
(* No provider has two chains under one name, nor two names for one chain. *)
(***************************************************************************)
OneToOne(pairs) == \A p, q \in pairs : p[1] = q[1] <=> p[2] = q[2]

LEMMA TableFacts ==
  ASSUME NEW pairs, OneToOne(pairs)
  PROVE  /\ DOMAIN Table(pairs) = {p[1] : p \in pairs}
         /\ \A c, d \in DOMAIN Table(pairs) : Table(pairs)[c] = Table(pairs)[d] => c = d
<1>1. DOMAIN Table(pairs) = {p[1] : p \in pairs}
  BY DEF Table
<1>2. ASSUME NEW c \in DOMAIN Table(pairs)
      PROVE  \E p \in pairs : p[1] = c /\ Table(pairs)[c] = p[2]
  <2>1. PICK p \in pairs : p[1] = c
    BY <1>1
  <2>2. LET q == CHOOSE r \in pairs : r[1] = c IN q \in pairs /\ q[1] = c
    BY <2>1
  <2> QED
    BY <1>1, <2>2 DEF Table
<1> QED
  BY <1>1, <1>2 DEF OneToOne

LEMMA AnkrTable == OneToOne(AnkrSlugs)
  BY DEF OneToOne, AnkrSlugs

LEMMA AlchemyTable == OneToOne(AlchemySlugs)
  BY DEF OneToOne, AlchemySlugs

LEMMA QuicknodeTable == OneToOne(QuicknodeSlugs)
  BY DEF OneToOne, QuicknodeSlugs

(***************************************************************************)
(* The chains that the proxy cannot do without are QuickNode's and Ankr's. *)
(***************************************************************************)
Needed == {Stellar, TON_V2, Solana}

LEMMA NeededAreServed ==
  Needed \subseteq DOMAIN AnkrSlug /\ Needed \subseteq DOMAIN QuicknodeSlug
<1>1. Needed \subseteq {p[1] : p \in AnkrSlugs}
  <2>1. <<1100, "stellar_soroban">> \in AnkrSlugs /\ <<1117, "premium-http/ton_api_v2">> \in AnkrSlugs
        /\ <<1001, "solana">> \in AnkrSlugs
    BY DEF AnkrSlugs
  <2> QED
    BY <2>1 DEF Needed, Stellar, TON_V2, Solana
<1>2. Needed \subseteq {p[1] : p \in QuicknodeSlugs}
  <2>1. <<1100, "stellar-mainnet">> \in QuicknodeSlugs /\ <<1117, "ton-mainnet">> \in QuicknodeSlugs
        /\ <<1001, "solana-mainnet">> \in QuicknodeSlugs
    BY DEF QuicknodeSlugs
  <2> QED
    BY <2>1 DEF Needed, Stellar, TON_V2, Solana
<1> QED
  BY <1>1, <1>2 DEF AnkrSlug, QuicknodeSlug, Table

(***************************************************************************)
(* Address by address, what QuickNode's endpoints are made of.             *)
(***************************************************************************)
Account(base) == StripNetworkLabel(base.prefix)

LEMMA AccountFacts ==
  ASSUME NEW base \in Bases, OnQuicknode(base)
  PROVE  /\ Account(base) \in Seq(STRING)
         /\ Len(Account(base)) \in Nat \ {0}
         /\ StripNetworkLabel(Account(base)) = Account(base)
<1>1. base.prefix \in Seq(STRING) /\ base.prefix # << >>
  BY BasesAssumption DEF Address, IsAccount
<1>2. CASE Account(base) = base.prefix
  BY <1>1, <1>2, BasesAssumption DEF Account, IsAccount
<1>3. CASE Account(base) # base.prefix
  <2>1. Len(base.prefix) > 1 /\ Account(base) = SubSeq(base.prefix, 1, Len(base.prefix) - 1)
    BY <1>3 DEF Account, StripNetworkLabel, Front
  <2>2. Account(base) \in Seq(STRING) /\ Len(Account(base)) = Len(base.prefix) - 1
    BY <1>1, <2>1
  <2>3. StripNetworkLabel(Account(base)) = Account(base)
    BY BasesAssumption DEF Account, IsAccount
  <2> QED
    BY <1>1, <2>1, <2>2, <2>3
<1> QED
  BY <1>2, <1>3

LEMMA QuicknodeAddress ==
  ASSUME NEW base \in Bases, NEW id \in DOMAIN QuicknodeEndpoints(base)
  PROVE  /\ QuicknodeEndpoints(base)[id].host = base.host
         /\ OnQuicknode(base) =>
              QuicknodeEndpoints(base)[id].prefix =
                IF id = 1 THEN Account(base) ELSE Append(Account(base), QuicknodeSlug[id])
<1> DEFINE e == BaseEndpoint(base)
           a == QuicknodeEndpoints(base)[id]
<1>0. base \in Address
  BY BasesAssumption
<1>1. e.host = base.host /\ DOMAIN e = DOMAIN base
  BY <1>0 DEF BaseEndpoint, Address
<1>2. OnQuicknode(base) => e.prefix = Account(base) /\ OnQuicknode(e)
  BY <1>0, <1>1 DEF BaseEndpoint, Address, Account, OnQuicknode
<1>3. CASE id = 1
  <2>1. a = e
    BY <1>3 DEF QuicknodeEndpoints
  <2> QED
    BY <1>1, <1>2, <1>3, <2>1
<1>4. CASE id # 1
  <2> DEFINE f == EndpointWithSlug(e, QuicknodeSlug[id])
  <2>1. a = [f EXCEPT !.path = @ \o QuicknodePath(id)]
    BY <1>4 DEF QuicknodeEndpoints
  <2>2. f.host = base.host /\ DOMAIN f = DOMAIN base
    BY <1>0, <1>1 DEF EndpointWithSlug, Address
  <2>3. OnQuicknode(base) => f.prefix = Append(Account(base), QuicknodeSlug[id])
    BY <1>0, <1>1, <1>2, AccountFacts DEF EndpointWithSlug, Address
  <2>4. a.host = f.host /\ a.prefix = f.prefix
    BY <1>0, <2>1, <2>2 DEF Address
  <2> QED
    BY <1>4, <2>2, <2>3, <2>4
<1> QED
  BY <1>3, <1>4

(***************************************************************************)
(* Providers are told apart by the host, chains by the rest of an address. *)
(* On QuickNode, Ethereum's address is the account alone, which carries no *)
(* network label at its end, while the others end in one.                  *)
(***************************************************************************)
LEMMA AnkrAddress ==
  ASSUME NEW id, NEW a \in FromProvider("ankr", id)
  PROVE  id \in DOMAIN AnkrSlug /\ a = AnkrEndpoints[id] /\ a.host = "rpc.ankr.com"
<1>1. Fetched("ankr") = {AnkrEndpoints}
  BY DEF Fetched
<1>2. id \in DOMAIN AnkrEndpoints /\ a = AnkrEndpoints[id]
  BY <1>1 DEF FromProvider
<1> QED
  BY <1>2 DEF AnkrEndpoints

LEMMA AlchemyAddress ==
  ASSUME NEW id, NEW a \in FromProvider("alchemy", id)
  PROVE  id \in DOMAIN AlchemySlug /\ a = AlchemyEndpoints[id] /\ a.host = "g.alchemy.com"
<1>1. Fetched("alchemy") = {AlchemyEndpoints}
  BY DEF Fetched
<1>2. id \in DOMAIN AlchemyEndpoints /\ a = AlchemyEndpoints[id]
  BY <1>1 DEF FromProvider
<1> QED
  BY <1>2 DEF AlchemyEndpoints

LEMMA FromQuicknode ==
  ASSUME NEW id, NEW a \in FromProvider("quicknode", id)
  PROVE  \E base \in Bases : id \in DOMAIN QuicknodeEndpoints(base) /\ a = QuicknodeEndpoints(base)[id]
<1>1. Fetched("quicknode") = {QuicknodeEndpoints(base) : base \in Bases}
  BY DEF Fetched
<1> QED
  BY <1>1 DEF FromProvider

LEMMA OneHostEach ==
  ASSUME NEW p \in Provider, NEW q \in Provider, NEW c, NEW d,
         NEW a \in FromProvider(p, c) \cap FromProvider(q, d)
  PROVE  p = q
<1> DEFINE HostOf(r) ==
      CASE r = "ankr" -> {"rpc.ankr.com"} [] r = "alchemy" -> {"g.alchemy.com"}
        [] r = "quicknode" -> {base.host : base \in Bases}
<1>1. ASSUME NEW r \in Provider, NEW id, a \in FromProvider(r, id) PROVE a.host \in HostOf(r)
  <2>1. CASE r = "ankr"
    BY <1>1, <2>1, AnkrAddress
  <2>2. CASE r = "alchemy"
    BY <1>1, <2>2, AlchemyAddress
  <2>3. CASE r = "quicknode"
    <3>1. PICK base \in Bases : /\ id \in DOMAIN QuicknodeEndpoints(base)
                                /\ a = QuicknodeEndpoints(base)[id]
      BY <1>1, <2>3, FromQuicknode
    <3> QED
      BY <2>3, <3>1, QuicknodeAddress
  <2> QED
    BY <2>1, <2>2, <2>3 DEF Provider
<1>2. a.host \in HostOf(p) \cap HostOf(q)
  BY <1>1
<1>3. \A base \in Bases : base.host # "rpc.ankr.com" /\ base.host # "g.alchemy.com"
  BY BasesAssumption
<1> QED
  BY <1>2, <1>3 DEF Provider

LEMMA OneChainOnQuicknode ==
  ASSUME NEW b1 \in Bases, NEW b2 \in Bases, OnQuicknode(b1), OnQuicknode(b2),
         NEW c \in DOMAIN QuicknodeEndpoints(b1), NEW d \in DOMAIN QuicknodeEndpoints(b2),
         QuicknodeEndpoints(b1)[c] = QuicknodeEndpoints(b2)[d]
  PROVE  c = d
<1>0. /\ Account(b1) \in Seq(STRING) /\ Len(Account(b1)) \in Nat \ {0}
      /\ Account(b2) \in Seq(STRING) /\ Len(Account(b2)) \in Nat \ {0}
      /\ StripNetworkLabel(Account(b1)) = Account(b1)
      /\ StripNetworkLabel(Account(b2)) = Account(b2)
  BY AccountFacts
<1>1. ASSUME NEW seq \in Seq(STRING), NEW slug
      PROVE  /\ Len(Append(seq, slug)) = Len(seq) + 1
             /\ Append(seq, slug)[Len(seq) + 1] = slug
  <2>1. seq \in Seq(STRING \cup {slug})
    OBVIOUS
  <2> QED
    BY <2>1
<1>2. ASSUME NEW e \in DOMAIN QuicknodeSlug, NEW x \in Seq(STRING), Len(x) \in Nat \ {0},
             NEW y \in Seq(STRING), StripNetworkLabel(y) = y, y = Append(x, QuicknodeSlug[e])
      PROVE  FALSE
  <2>1. Len(y) > 1 /\ y[Len(y)] = QuicknodeSlug[e]
    BY <1>1, <1>2
  <2>2. StripNetworkLabel(y) = SubSeq(y, 1, Len(y) - 1)
    BY <2>1 DEF StripNetworkLabel, IsNetworkLabel, Last, Front
  <2>3. Len(SubSeq(y, 1, Len(y) - 1)) = Len(y) - 1
    BY <2>1
  <2> QED
    BY <1>2, <2>2, <2>3
<1>3. /\ c # 1 => c \in DOMAIN QuicknodeSlug
      /\ d # 1 => d \in DOMAIN QuicknodeSlug
  BY DEF QuicknodeEndpoints
<1>4. (IF c = 1 THEN Account(b1) ELSE Append(Account(b1), QuicknodeSlug[c])) =
      (IF d = 1 THEN Account(b2) ELSE Append(Account(b2), QuicknodeSlug[d]))
  BY QuicknodeAddress
<1>5. CASE c = 1 /\ d # 1
  <2>1. Account(b1) = Append(Account(b2), QuicknodeSlug[d])
    BY <1>4, <1>5
  <2> QED
    BY <1>0, <1>2, <1>3, <1>5, <2>1
<1>6. CASE c # 1 /\ d = 1
  <2>1. Account(b2) = Append(Account(b1), QuicknodeSlug[c])
    BY <1>4, <1>6
  <2> QED
    BY <1>0, <1>2, <1>3, <1>6, <2>1
<1>7. CASE c # 1 /\ d # 1
  <2>1. Append(Account(b1), QuicknodeSlug[c]) = Append(Account(b2), QuicknodeSlug[d])
    BY <1>4, <1>7
  <2>2. Len(Account(b1)) = Len(Account(b2))
    BY <1>0, <1>1, <2>1
  <2>3. QuicknodeSlug[c] = QuicknodeSlug[d]
    BY <1>0, <1>1, <2>1, <2>2
  <2> QED
    BY <1>3, <1>7, <2>3, TableFacts, QuicknodeTable DEF QuicknodeSlug
<1> QED
  BY <1>5, <1>6, <1>7

LEMMA OneChainEach ==
  ASSUME NEW p \in Provider, NEW c, NEW d, NEW a \in FromProvider(p, c) \cap FromProvider(p, d)
  PROVE  c = d \/ \E base \in Bases : ~OnQuicknode(base) /\ a.host = base.host
<1>1. CASE p = "ankr"
  <2>1. /\ c \in DOMAIN AnkrSlug /\ d \in DOMAIN AnkrSlug
        /\ a = AnkrEndpoints[c] /\ a = AnkrEndpoints[d]
    BY <1>1, AnkrAddress
  <2>2. <<AnkrSlug[c]>> = <<AnkrSlug[d]>>
    BY <2>1 DEF AnkrEndpoints
  <2> QED
    BY <2>1, <2>2, TableFacts, AnkrTable DEF AnkrSlug
<1>2. CASE p = "alchemy"
  <2>1. /\ c \in DOMAIN AlchemySlug /\ d \in DOMAIN AlchemySlug
        /\ a = AlchemyEndpoints[c] /\ a = AlchemyEndpoints[d]
    BY <1>2, AlchemyAddress
  <2>2. <<AlchemySlug[c]>> = <<AlchemySlug[d]>>
    BY <2>1 DEF AlchemyEndpoints
  <2> QED
    BY <2>1, <2>2, TableFacts, AlchemyTable DEF AlchemySlug
<1>3. CASE p = "quicknode"
  <2>1. PICK b1 \in Bases : c \in DOMAIN QuicknodeEndpoints(b1) /\ a = QuicknodeEndpoints(b1)[c]
    BY <1>3, FromQuicknode
  <2>2. PICK b2 \in Bases : d \in DOMAIN QuicknodeEndpoints(b2) /\ a = QuicknodeEndpoints(b2)[d]
    BY <1>3, FromQuicknode
  <2>3. a.host = b1.host /\ a.host = b2.host
    <3>1. QuicknodeEndpoints(b1)[c].host = b1.host
      BY <2>1, QuicknodeAddress
    <3>2. QuicknodeEndpoints(b2)[d].host = b2.host
      BY <2>2, QuicknodeAddress
    <3> QED
      BY <2>1, <2>2, <3>1, <3>2
  <2>4. CASE OnQuicknode(b1) /\ OnQuicknode(b2)
    <3>1. QuicknodeEndpoints(b1)[c] = QuicknodeEndpoints(b2)[d]
      BY <2>1, <2>2
    <3> QED
      BY <2>1, <2>2, <2>4, <3>1, OneChainOnQuicknode
  <2> QED
    BY <2>3, <2>4
<1> QED
  BY <1>1, <1>2, <1>3 DEF Provider

-----------------------------------------------------------------------------

(***************************************************************************)
(* A chain's list: servers of the operator's files and of the providers in *)
(* P, of which only the former may occur twice.                            *)
(***************************************************************************)
IsMerged(id, list, P) ==
  /\ list \in Seq(Sources(id, P))
  /\ \A i, j \in DOMAIN list : i < j /\ list[i] = list[j] => Given(id, list[i])

IsEntry(id, entry) ==
  /\ entry = [threshold |-> Majority(Len(entry.servers)), servers |-> entry.servers]
  /\ entry.servers # << >>
  /\ IsMerged(id, entry.servers, Provider)

(***************************************************************************)
(* The inductive invariant: every list is what the providers asked so far  *)
(* make of a file, and every entry, also one that an earlier run wrote,    *)
(* what all of them do.                                                    *)
(***************************************************************************)
RunTypeOK ==
  /\ stage \in {"fetching", "checked", "writing", "truncated", "written", "ended"}
  /\ keys \subseteq Provider /\ providers \subseteq keys

ListsAreMerged == \A id \in DOMAIN config : IsMerged(id, config[id], keys \ providers)

EntriesAreSound ==
  /\ \A id \in DOMAIN entries : IsEntry(id, entries[id])
  /\ \A id \in DOMAIN output : IsEntry(id, output[id])

ChainsAreCovered ==
  stage # "ended" =>
    /\ DOMAIN file \subseteq DOMAIN config
    /\ {"quicknode", "ankr"} \cap (keys \ providers) # {} => Needed \subseteq DOMAIN config

StagesInOrder ==
  /\ stage \in {"checked", "writing", "truncated", "written"} => providers = {}
  /\ stage \in {"writing", "truncated", "written"} => DOMAIN entries = DOMAIN config
  /\ stage = "written" => output = entries

RunInv == RunTypeOK /\ ListsAreMerged /\ EntriesAreSound /\ ChainsAreCovered /\ StagesInOrder

-----------------------------------------------------------------------------

LEMMA Widen ==
  ASSUME NEW S, NEW T, S \subseteq T, NEW seq \in Seq(S)
  PROVE  seq \in Seq(T)
  OBVIOUS

LEMMA GivenIsInFiles ==
  ASSUME NEW id, NEW a
  PROVE  a \in FileServers(id) <=> Given(id, a)
  BY DEF FileServers, Given

(***************************************************************************)
(* The list of a file, before any provider is asked.                       *)
(***************************************************************************)
LEMMA FileIsMerged ==
  ASSUME NEW f \in Files, NEW id \in DOMAIN f
  PROVE  IsMerged(id, f[id], {})
<1>1. f[id] \in Seq(Address)
  BY FilesAssumption
<1>2. \A i \in DOMAIN f[id] : f[id][i] \in FileServers(id)
  BY DEF FileServers, ToSet
<1>3. f[id] \in Seq(FileServers(id))
  BY <1>1, <1>2
<1>4. \A i \in DOMAIN f[id] : Given(id, f[id][i])
  BY <1>2, GivenIsInFiles
<1> QED
  BY <1>3, <1>4 DEF IsMerged, Sources

LEMMA SourcesGrow ==
  ASSUME NEW id, NEW P, NEW Q, P \subseteq Q
  PROVE  Sources(id, P) \subseteq Sources(id, Q)
  BY DEF Sources

LEMMA MergedGrows ==
  ASSUME NEW id, NEW list, NEW P, NEW Q, P \subseteq Q, IsMerged(id, list, P)
  PROVE  IsMerged(id, list, Q)
<1>1. list \in Seq(Sources(id, Q))
  BY SourcesGrow, Widen DEF IsMerged
<1> QED
  BY <1>1 DEF IsMerged

(***************************************************************************)
(* A provider adds an address that is on no provider's list yet.           *)
(***************************************************************************)
LEMMA PushKeepsMerged ==
  ASSUME NEW P \in SUBSET Provider, NEW p \in Provider \ P, NEW id, NEW list,
         IsMerged(id, list, P), NEW a \in FromProvider(p, id)
  PROVE  IsMerged(id, Append(list, a), P \cup {p})
<1> DEFINE Q == P \cup {p}
           S == Sources(id, Q)
           new == Append(list, a)
<1>1. list \in Seq(Sources(id, P)) /\ list \in Seq(S) /\ a \in S
  <2>1. list \in Seq(Sources(id, P)) /\ Sources(id, P) \subseteq S
    BY SourcesGrow DEF IsMerged
  <2>2. a \in S
    BY DEF Sources
  <2> QED
    BY <2>1, <2>2, Widen
<1>2. /\ new \in Seq(S)
      /\ DOMAIN new = DOMAIN list \cup {Len(list) + 1}
      /\ \A i \in DOMAIN list : new[i] = list[i] /\ i < Len(list) + 1
      /\ new[Len(list) + 1] = a
      /\ DOMAIN list \subseteq Nat
  <2> HIDE DEF S
  <2> QED
    BY <1>1
<1>3. ASSUME NEW i \in DOMAIN list, list[i] = a PROVE Given(id, a)
  <2>1. list[i] \in Sources(id, P)
    BY <1>1
  <2>2. CASE \E q \in P : list[i] \in FromProvider(q, id)
    <3>1. PICK q \in P : a \in FromProvider(q, id)
      BY <1>3, <2>2
    <3>2. q = p
      BY <3>1, OneHostEach
    <3> QED
      BY <3>1, <3>2
  <2> QED
    BY <1>3, <2>1, <2>2, GivenIsInFiles DEF Sources
<1>4. ASSUME NEW i \in DOMAIN new, NEW j \in DOMAIN new, i < j, new[i] = new[j]
      PROVE  Given(id, new[i])
  <2>1. i \in DOMAIN list
    BY <1>2, <1>4
  <2>2. CASE j \in DOMAIN list
    BY <1>2, <1>4, <2>1, <2>2 DEF IsMerged
  <2>3. CASE j = Len(list) + 1
    BY <1>2, <1>3, <1>4, <2>1, <2>3
  <2> QED
    BY <1>2, <2>2, <2>3
<1> QED
  BY <1>2, <1>4 DEF IsMerged

LEMMA EmptyIsMerged == \A id, P : IsMerged(id, << >>, P)
  BY DEF IsMerged

(***************************************************************************)
(* `config.entry(chain_id).or_default().push(ep)`, for all of a provider's *)
(* chains.                                                                 *)
(***************************************************************************)
LEMMA MergeKeepsLists ==
  ASSUME NEW P \in SUBSET Provider, NEW p \in Provider \ P, NEW e \in Fetched(p), NEW c,
         \A id \in DOMAIN c : IsMerged(id, c[id], P)
  PROVE  /\ DOMAIN Merged(c, e) = DOMAIN c \cup DOMAIN e
         /\ \A id \in DOMAIN Merged(c, e) : IsMerged(id, Merged(c, e)[id], P \cup {p})
<1>1. DOMAIN Merged(c, e) = DOMAIN c \cup DOMAIN e
  BY DEF Merged
<1>2. ASSUME NEW id \in DOMAIN Merged(c, e)
      PROVE  IsMerged(id, Merged(c, e)[id], P \cup {p})
  <2>1. CASE id \in DOMAIN e
    <3> DEFINE old == IF id \in DOMAIN c THEN c[id] ELSE << >>
    <3>1. Merged(c, e)[id] = Append(old, e[id])
      BY <1>1, <1>2, <2>1 DEF Merged, Pushed
    <3>2. IsMerged(id, old, P)
      BY EmptyIsMerged
    <3>3. e[id] \in FromProvider(p, id)
      BY <2>1 DEF FromProvider
    <3> HIDE DEF old
    <3>4. IsMerged(id, Append(old, e[id]), P \cup {p})
      BY <3>2, <3>3, PushKeepsMerged
    <3> QED
      BY <3>1, <3>4
  <2>2. CASE id \notin DOMAIN e
    <3>1. Merged(c, e)[id] = c[id] /\ id \in DOMAIN c
      BY <1>1, <1>2, <2>2 DEF Merged
    <3>2. IsMerged(id, c[id], P) /\ P \subseteq P \cup {p}
      BY <3>1
    <3> QED
      BY <3>1, <3>2, MergedGrows
  <2> QED
    BY <2>1, <2>2
<1> QED
  BY <1>1, <1>2

LEMMA NeededAreFetched ==
  ASSUME NEW p \in {"quicknode", "ankr"}, NEW e \in Fetched(p)
  PROVE  Needed \subseteq DOMAIN e
<1>1. CASE p = "quicknode"
  <2>1. PICK base \in Bases : e = QuicknodeEndpoints(base)
    BY <1>1 DEF Fetched
  <2> QED
    BY <2>1, NeededAreServed DEF QuicknodeEndpoints
<1>2. CASE p = "ankr"
  <2>1. e = AnkrEndpoints
    BY <1>2 DEF Fetched
  <2> QED
    BY <2>1, NeededAreServed DEF AnkrEndpoints
<1> QED
  BY <1>1, <1>2

-----------------------------------------------------------------------------

LEMMA RunInitInvariant == RunInit => RunInv
  BY DEF RunInit, RunInv, RunTypeOK, ListsAreMerged, EntriesAreSound, ChainsAreCovered,
         StagesInOrder, NoChains

LEMMA StartKeeps ==
  ASSUME RunInv, NEW f \in Files, NEW k \in SUBSET Provider, Start(f, k)
  PROVE  RunInv'
<1> USE DEF RunInv, Start
<1>1. RunTypeOK'
  BY DEF RunTypeOK
<1>2. ListsAreMerged'
  <2>1. keys' \ providers' = {} /\ config' = f
    OBVIOUS
  <2> SUFFICES ASSUME NEW id \in DOMAIN f PROVE IsMerged(id, f[id], {})
    BY <2>1 DEF ListsAreMerged
  <2> QED
    BY FileIsMerged
<1>3. EntriesAreSound'
  BY DEF EntriesAreSound, NoChains
<1>4. ChainsAreCovered' /\ StagesInOrder'
  BY DEF ChainsAreCovered, StagesInOrder
<1> QED
  BY <1>1, <1>2, <1>3, <1>4

LEMMA FetchKeeps ==
  ASSUME RunInv, NEW p \in Provider, Fetch(p)
  PROVE  RunInv'
<1> USE DEF RunInv, Fetch, InTurn
<1> DEFINE P == keys \ providers
<1>1. PICK e \in Fetched(p) : config' = Merged(config, e)
  OBVIOUS
<1>2. /\ P \in SUBSET Provider /\ p \notin P /\ p \in keys
      /\ keys' \ providers' = P \cup {p}
  BY DEF RunTypeOK
<1>3. /\ DOMAIN Merged(config, e) = DOMAIN config \cup DOMAIN e
      /\ \A id \in DOMAIN Merged(config, e) : IsMerged(id, Merged(config, e)[id], P \cup {p})
  <2>1. \A id \in DOMAIN config : IsMerged(id, config[id], P)
    BY DEF ListsAreMerged
  <2> HIDE DEF P, RunInv, Fetch
  <2> QED
    BY <1>1, <1>2, <2>1, MergeKeepsLists
<1>4. RunTypeOK' /\ StagesInOrder'
  BY DEF RunTypeOK, StagesInOrder
<1>5. ListsAreMerged'
  BY <1>1, <1>2, <1>3 DEF ListsAreMerged
<1>6. EntriesAreSound'
  BY DEF EntriesAreSound
<1>7. ChainsAreCovered'
  <2>1. DOMAIN config' = DOMAIN config \cup DOMAIN e /\ file' = file /\ stage # "ended"
    BY <1>1, <1>3
  <2>2. CASE p \in {"quicknode", "ankr"}
    BY <2>1, <2>2, NeededAreFetched DEF ChainsAreCovered
  <2>3. CASE p \notin {"quicknode", "ankr"}
    BY <1>2, <2>1, <2>3 DEF ChainsAreCovered
  <2> QED
    BY <2>2, <2>3
<1> QED
  BY <1>4, <1>5, <1>6, <1>7

LEMMA ChooseThresholdsKeeps ==
  ASSUME RunInv, ChooseThresholds
  PROVE  RunInv'
<1> USE DEF RunInv, ChooseThresholds
<1>1. RunTypeOK'
  BY DEF RunTypeOK
<1>2. ListsAreMerged' /\ ChainsAreCovered'
  BY DEF ListsAreMerged, ChainsAreCovered
<1>3. StagesInOrder'
  BY DEF StagesInOrder
<1>4. ASSUME NEW id \in DOMAIN config PROVE IsEntry(id, entries'[id])
  <2>1. entries'[id] = [threshold |-> Majority(Len(config[id])), servers |-> config[id]]
    OBVIOUS
  <2>2. config[id] # << >> /\ IsMerged(id, config[id], keys \ providers)
    BY DEF ListsAreMerged
  <2>3. IsMerged(id, config[id], Provider)
    BY <2>2, MergedGrows DEF RunTypeOK
  <2> QED
    BY <2>1, <2>2, <2>3 DEF IsEntry
<1>5. EntriesAreSound'
  BY <1>4 DEF EntriesAreSound
<1> QED
  BY <1>1, <1>2, <1>3, <1>5

LEMMA RunOthersKeep ==
  ASSUME RunInv,
         \/ FetchFails \/ Healthchecked \/ Bail \/ Truncate \/ Write \/ Killed
         \/ UNCHANGED runVars
  PROVE  RunInv'
<1> USE DEF RunInv, RunTypeOK, ListsAreMerged, EntriesAreSound, ChainsAreCovered, StagesInOrder
<1>1. CASE FetchFails
  BY <1>1 DEF FetchFails
<1>2. CASE Healthchecked
  BY <1>2 DEF Healthchecked
<1>3. CASE Bail
  BY <1>3 DEF Bail
<1>4. CASE Truncate
  BY <1>4 DEF Truncate, NoChains
<1>5. CASE Write
  BY <1>5 DEF Write
<1>6. CASE Killed
  BY <1>6 DEF Killed
<1>7. CASE UNCHANGED runVars
  BY <1>7 DEF runVars
<1> QED
  BY <1>1, <1>2, <1>3, <1>4, <1>5, <1>6, <1>7

LEMMA RunNextKeeps == RunInv /\ [RunNext]_runVars => RunInv'
<1> SUFFICES ASSUME RunInv, [RunNext]_runVars PROVE RunInv'
  OBVIOUS
<1>1. ASSUME NEW f \in Files, NEW k \in SUBSET Provider, Start(f, k) PROVE RunInv'
  BY <1>1, StartKeeps
<1>2. ASSUME NEW p \in Provider, Fetch(p) PROVE RunInv'
  BY <1>2, FetchKeeps
<1>3. CASE ChooseThresholds
  BY <1>3, ChooseThresholdsKeeps
<1>4. CASE \/ FetchFails \/ Healthchecked \/ Bail \/ Truncate \/ Write \/ Killed
           \/ UNCHANGED runVars
  BY <1>4, RunOthersKeep
<1> QED
  BY <1>1, <1>2, <1>3, <1>4 DEF RunNext, Step

THEOREM RunInvariant == RunSpec => []RunInv
  BY RunInitInvariant, RunNextKeeps, PTL DEF RunSpec

-----------------------------------------------------------------------------

LEMMA MajorityIsLeast ==
  ASSUME NEW n \in Nat \ {0}
  PROVE  /\ Majority(n) # 0 /\ n >= Majority(n) /\ 2 * Majority(n) > n
         /\ ~(2 * (Majority(n) - 1) > n)
  BY DEF Majority

(***************************************************************************)
(* Whatever the operator's files, the keys and the runs before: a written  *)
(* threshold is the smallest strict majority of servers that nobody but    *)
(* the operator listed twice.                                              *)
(***************************************************************************)
THEOREM MajorityIsWritten == RunSpec => []ThresholdsAreMajorities
<1>1. ASSUME RunInv PROVE ThresholdsAreMajorities
  <2> SUFFICES ASSUME NEW id \in DOMAIN output
               PROVE  LET entry == output[id] IN
                      /\ Rules!validate_chain_config(entry)
                      /\ ~Rules!StrictMajority([entry EXCEPT !.threshold = @ - 1])
                      /\ \A i, j \in DOMAIN entry.servers :
                           i < j /\ entry.servers[i] = entry.servers[j] => Given(id, entry.servers[i])
    BY DEF ThresholdsAreMajorities
  <2> DEFINE list == output[id].servers
             n == Len(list)
  <2>1. /\ output[id] = [threshold |-> Majority(n), servers |-> list]
        /\ list # << >> /\ IsMerged(id, list, Provider)
    BY <1>1 DEF RunInv, EntriesAreSound, IsEntry
  <2>2. n \in Nat \ {0}
    BY <2>1 DEF IsMerged
  <2>3. /\ Majority(n) # 0 /\ n >= Majority(n) /\ 2 * Majority(n) > n
        /\ ~(2 * (Majority(n) - 1) > n)
    BY <2>2, MajorityIsLeast
  <2> HIDE DEF n, list
  <2>4. Rules!validate_chain_config(output[id])
    BY <2>1, <2>3 DEF Rules!validate_chain_config, Rules!StrictMajority, n
  <2>5. ~Rules!StrictMajority([output[id] EXCEPT !.threshold = @ - 1])
    BY <2>1, <2>3 DEF Rules!StrictMajority, n
  <2> QED
    BY <2>1, <2>4, <2>5 DEF IsMerged, list
<1> QED
  BY <1>1, RunInvariant, PTL

(***************************************************************************)
(* For any accounts with at most one network label: no server that a       *)
(* provider named is asked about two chains, but on a foreign host.        *)
(***************************************************************************)
THEOREM ServersKnowTheirChain == RunSpec => []ChainsKeepApart
<1>1. ASSUME RunInv PROVE ChainsKeepApart
  <2> SUFFICES ASSUME NEW c \in DOMAIN output, NEW d \in DOMAIN output,
                      NEW a \in ToSet(output[c].servers) \cap ToSet(output[d].servers),
                      ~Given(c, a), ~Given(d, a)
               PROVE  c = d \/ \E base \in Bases : ~OnQuicknode(base) /\ a.host = base.host
    BY DEF ChainsKeepApart
  <2>1. ASSUME NEW id \in DOMAIN output, a \in ToSet(output[id].servers), ~Given(id, a)
        PROVE  \E p \in Provider : a \in FromProvider(p, id)
    <3>1. output[id].servers \in Seq(Sources(id, Provider))
      BY <1>1 DEF RunInv, EntriesAreSound, IsEntry, IsMerged
    <3>2. a \in Sources(id, Provider)
      BY <2>1, <3>1 DEF ToSet
    <3> QED
      BY <2>1, <3>2, GivenIsInFiles DEF Sources
  <2>2. PICK p \in Provider : a \in FromProvider(p, c)
    BY <2>1
  <2>3. PICK q \in Provider : a \in FromProvider(q, d)
    BY <2>1
  <2>4. p = q
    BY <2>2, <2>3, OneHostEach
  <2> QED
    BY <2>2, <2>3, <2>4, OneChainEach
<1> QED
  BY <1>1, RunInvariant, PTL

(***************************************************************************)
(* With NEAR in the file and a key of QuickNode or Ankr, whatever else the *)
(* file holds and whichever runs came before: the written file loads.      *)
(***************************************************************************)
THEOREM ProxyCanStart == RunSpec => []WrittenConfigLoads
<1>1. ASSUME RunInv PROVE WrittenConfigLoads
  <2> SUFFICES ASSUME stage = "written", Near \in DOMAIN file,
                      keys \cap {"quicknode", "ankr"} # {}
               PROVE  Loads(output)
    BY DEF WrittenConfigLoads
  <2>1. output = entries /\ DOMAIN entries = DOMAIN config /\ providers = {}
    BY <1>1 DEF RunInv, StagesInOrder
  <2>2. Near \in DOMAIN config /\ Needed \subseteq DOMAIN config
    BY <1>1, <2>1 DEF RunInv, ChainsAreCovered
  <2> QED
    BY <2>1, <2>2 DEF Loads, Needed
<1> QED
  BY <1>1, RunInvariant, PTL
=============================================================================
