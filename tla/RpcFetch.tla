------------------------------ MODULE RpcFetch ------------------------------
(***************************************************************************)
(* The `rpc-fetch` program: it merges the operator's own servers with      *)
(* those of the providers it has keys for, gives every chain a threshold   *)
(* and writes the configuration that the proxy loads.  It is run again and *)
(* again over the same output file, and may be killed anywhere.            *)
(*                                                                         *)
(* An address is a host, the labels in front of it and the parts of the    *)
(* path behind it; the key in it is left out.                              *)
(***************************************************************************)
EXTENDS ChainIds, Sequences, SequencesExt

CONSTANTS
  Files,   \* what the operator's file may hold: lists of servers by chain
  Bases    \* the Ethereum endpoints a QuickNode account may have

VARIABLES
  stage,      \* "fetching", "checked", "writing", "truncated", "written", "ended"
  file,       \* the operator's file
  keys,       \* the providers this run has a key for
  providers,  \* those still to be asked
  config,     \* the servers of each chain
  entries,    \* what is to be written: an RPC configuration by chain
  output      \* the output file; no chains when it is absent or empty

runVars == <<stage, file, keys, providers, config, entries, output>>

Provider == {"quicknode", "ankr", "alchemy"}
Address == [host : STRING, prefix : Seq(STRING), path : Seq(STRING)]
NoChains == [id \in {} |-> << >>]

Rules == INSTANCE RpcConfig WITH Url <- Address, Plaintext <- {}

-----------------------------------------------------------------------------
(***************************************************************************)
(* Each provider's names for the chains it serves, `slug`.                 *)
(***************************************************************************)
Table(pairs) ==
  [id \in {p[1] : p \in pairs} |-> (CHOOSE p \in pairs : p[1] = id)[2]]

AnkrSlugs == {
  <<1, "eth">>, <<10, "optimism">>, <<56, "bsc">>, <<137, "polygon">>,
  <<10143, "monad_testnet">>, <<324, "zksync_era">>, <<1100, "stellar_soroban">>,
  <<8453, "base">>, <<42161, "arbitrum">>, <<43114, "avalanche">>, <<534352, "scroll">>,
  <<1001, "solana">>, <<2222, "kava_rpc">>, <<196, "xlayer">>, <<59144, "linea">>,
  <<8217, "kaia">>, <<5000, "mantle">>, <<14, "flare">>, <<1117, "premium-http/ton_api_v2">>}
AnkrSlug == Table(AnkrSlugs)

AlchemySlugs == {
  <<1, "eth-mainnet">>, <<10, "opt-mainnet">>, <<56, "bnb-mainnet">>,
  <<137, "polygon-mainnet">>, <<143, "monad-mainnet">>, <<10143, "monad-testnet">>,
  <<324, "zksync-mainnet">>, <<8453, "base-mainnet">>, <<42161, "arb-mainnet">>,
  <<43114, "avax-mainnet">>, <<534352, "scroll-mainnet">>, <<80094, "berachain-mainnet">>,
  <<1001, "solana-mainnet">>, <<999, "hyperliquid-mainnet">>, <<59144, "linea-mainnet">>,
  <<5000, "mantle-mainnet">>, <<2741, "abstract-mainnet">>, <<57073, "ink-mainnet">>,
  <<36900, "adi-mainnet">>, <<9745, "plasma-mainnet">>, <<6342, "megaeth-testnet">>,
  <<4326, "megaeth-mainnet">>}
AlchemySlug == Table(AlchemySlugs)

QuicknodeSlugs == {
  <<10, "optimism">>, <<56, "bsc">>, <<137, "matic">>, <<143, "monad-mainnet">>,
  <<10143, "monad-testnet">>, <<324, "zksync-mainnet">>, <<1100, "stellar-mainnet">>,
  <<8453, "base-mainnet">>, <<42161, "arbitrum-mainnet">>, <<43114, "avalanche-mainnet">>,
  <<80094, "bera-mainnet">>, <<534352, "scroll-mainnet">>, <<1117, "ton-mainnet">>,
  <<1001, "solana-mainnet">>, <<196, "xlayer-mainnet">>, <<999, "hype-mainnet">>,
  <<59144, "linea-mainnet">>, <<8217, "kaia-mainnet">>, <<5000, "mantle-mainnet">>,
  <<2741, "abstract-mainnet">>, <<57073, "ink-mainnet">>, <<14, "flare-mainnet">>,
  <<9745, "plasma-mainnet">>, <<4326, "megaeth-mainnet">>}
QuicknodeSlug == Table(QuicknodeSlugs)

-----------------------------------------------------------------------------
(* Faulty variants of the definitions below, for the mutation checks.      *)

NoSlug(base, slug) == base
HalfRoundedUp(n) == (n + 1) \div 2
AllEmpty(c) == \A id \in DOMAIN c : c[id] = << >>
AnkrWithoutTon ==
  [id \in DOMAIN AnkrSlug \ {TON_V2} |->
    [host |-> "rpc.ankr.com", prefix |-> << >>, path |-> <<AnkrSlug[id]>>]]

-----------------------------------------------------------------------------
(***************************************************************************)
(* QuickNode: the addresses of the other chains are made from the account's *)
(* Ethereum endpoint.  A network label at the end of the prefix is taken   *)
(* off first; an endpoint on another host is left as it is.                *)
(***************************************************************************)
IsNetworkLabel(label) ==
  \/ label \in {"eth-mainnet", "ethereum-mainnet", "mainnet"}
  \/ \E id \in DOMAIN QuicknodeSlug : QuicknodeSlug[id] = label

StripNetworkLabel(prefix) ==
  IF Len(prefix) > 1 /\ IsNetworkLabel(Last(prefix)) THEN Front(prefix) ELSE prefix

OnQuicknode(base) == base.host = "quiknode.pro"

BaseEndpoint(base) ==
  IF OnQuicknode(base)
  THEN [base EXCEPT !.prefix = StripNetworkLabel(base.prefix)]
  ELSE base

EndpointWithSlug(base, slug) ==
  IF OnQuicknode(base)
  THEN [base EXCEPT !.prefix = Append(StripNetworkLabel(base.prefix), slug)]
  ELSE base

QuicknodePath(id) ==
  CASE id \in {43114, 14} -> <<"ext/bc/C/rpc/">>
    [] id = TON_V2 -> <<"jsonRPC">>
    [] OTHER -> << >>

QuicknodeEndpoints(base) ==
  [id \in {1} \cup DOMAIN QuicknodeSlug |->
    IF id = 1
    THEN BaseEndpoint(base)
    ELSE [EndpointWithSlug(BaseEndpoint(base), QuicknodeSlug[id])
            EXCEPT !.path = @ \o QuicknodePath(id)]]

(***************************************************************************)
(* An account has a name, with at most one network label behind it.        *)
(***************************************************************************)
IsAccount(base) ==
  OnQuicknode(base) =>
    /\ base.prefix # << >>
    /\ StripNetworkLabel(StripNetworkLabel(base.prefix)) = StripNetworkLabel(base.prefix)

AnkrEndpoints ==
  [id \in DOMAIN AnkrSlug |->
    [host |-> "rpc.ankr.com", prefix |-> << >>, path |-> <<AnkrSlug[id]>>]]

AlchemyEndpoints ==
  [id \in DOMAIN AlchemySlug |->
    [host |-> "g.alchemy.com", prefix |-> <<AlchemySlug[id]>>, path |-> <<"v2">>]]

Fetched(provider) ==
  CASE provider = "quicknode" -> {QuicknodeEndpoints(base) : base \in Bases}
    [] provider = "ankr" -> {AnkrEndpoints}
    [] provider = "alchemy" -> {AlchemyEndpoints}

ASSUME FilesAssumption ==
  \A f \in Files : DOMAIN f \subseteq ExtendedChainId /\ f \in [DOMAIN f -> Seq(Address)]
ASSUME BasesAssumption ==
  \A base \in Bases :
    base \in Address /\ base.host \notin {"rpc.ankr.com", "g.alchemy.com"} /\ IsAccount(base)

-----------------------------------------------------------------------------

RunInit ==
  /\ stage = "ended"
  /\ file = NoChains /\ keys = {} /\ providers = {}
  /\ config = NoChains /\ entries = NoChains /\ output = NoChains

Rank == [quicknode |-> 1, ankr |-> 2, alchemy |-> 3]
InTurn(p) == p \in providers /\ \A q \in providers : Rank[p] <= Rank[q]

(***************************************************************************)
(* A file that cannot be read counts as one without chains.                *)
(***************************************************************************)
Start(f, k) ==
  /\ stage \in {"ended", "written"}
  /\ stage' = "fetching"
  /\ file' = f /\ keys' = k
  /\ providers' = k
  /\ config' = f /\ entries' = NoChains
  /\ UNCHANGED output

Pushed(c, e, id) == Append(IF id \in DOMAIN c THEN c[id] ELSE << >>, e[id])
Merged(c, e) ==
  [id \in DOMAIN c \cup DOMAIN e |-> IF id \in DOMAIN e THEN Pushed(c, e, id) ELSE c[id]]

Fetch(p) ==
  /\ stage = "fetching" /\ InTurn(p)
  /\ \E e \in Fetched(p) : config' = Merged(config, e)
  /\ providers' = providers \ {p}
  /\ UNCHANGED <<stage, file, keys, entries, output>>

(***************************************************************************)
(* Only QuickNode is asked over the network.                               *)
(***************************************************************************)
FetchFails ==
  /\ stage = "fetching" /\ InTurn("quicknode")
  /\ stage' = "ended"
  /\ UNCHANGED <<file, keys, providers, config, entries, output>>

(***************************************************************************)
(* Every server is probed, with a timeout; what fails is only logged.      *)
(***************************************************************************)
Healthchecked ==
  /\ stage = "fetching" /\ providers = {}
  /\ stage' = "checked"
  /\ UNCHANGED <<file, keys, providers, config, entries, output>>

NoEndpoints(c) == \E id \in DOMAIN c : c[id] = << >>
Majority(n) == n \div 2 + 1

Bail ==
  /\ stage = "checked" /\ NoEndpoints(config)
  /\ stage' = "ended"
  /\ UNCHANGED <<file, keys, providers, config, entries, output>>

ChooseThresholds ==
  /\ stage = "checked"
  /\ \A id \in DOMAIN config : config[id] # << >>
  /\ entries' = [id \in DOMAIN config |->
                  [threshold |-> Majority(Len(config[id])), servers |-> config[id]]]
  /\ stage' = "writing"
  /\ UNCHANGED <<file, keys, providers, config, output>>

(***************************************************************************)
(* fs::write empties the file before it fills it.                          *)
(***************************************************************************)
Truncate ==
  /\ stage = "writing"
  /\ output' = NoChains
  /\ stage' = "truncated"
  /\ UNCHANGED <<file, keys, providers, config, entries>>

Write ==
  /\ stage = "truncated"
  /\ output' = entries
  /\ stage' = "written"
  /\ UNCHANGED <<file, keys, providers, config, entries>>

Killed ==
  /\ stage \notin {"ended", "written"}
  /\ stage' = "ended"
  /\ UNCHANGED <<file, keys, providers, config, entries, output>>

Local == Provider \ {"quicknode"}
Step == Healthchecked \/ Bail \/ ChooseThresholds \/ Truncate \/ Write

RunNext ==
  \/ \E f \in Files, k \in SUBSET Provider : Start(f, k)
  \/ \E p \in Provider : Fetch(p)
  \/ FetchFails \/ Step \/ Killed

(***************************************************************************)
(* The program's own steps are taken.  The call to QuickNode has no        *)
(* timeout, so its answer may never come.                                  *)
(***************************************************************************)
RunFairness ==
  /\ WF_runVars(Step)
  /\ WF_runVars(\E p \in Local : Fetch(p))

RunSpec == RunInit /\ [][RunNext]_runVars /\ RunFairness

-----------------------------------------------------------------------------
(***************************************************************************)
(* What the proxy needs of the file: Validation::new panics without these. *)
(***************************************************************************)
Loads(o) == {Near, Stellar, TON_V2, Solana} \subseteq DOMAIN o

Given(id, a) == \E f \in Files : id \in DOMAIN f /\ a \in ToSet(f[id])

(***************************************************************************)
(* The threshold of every written chain is the smallest that the proxy's   *)
(* validate_chain_config accepts, and it counts servers: one has two votes *)
(* only if the operator's own file listed it, whatever the providers add.  *)
(***************************************************************************)
ThresholdsAreMajorities ==
  \A id \in DOMAIN output :
    LET entry == output[id] IN
      /\ Rules!validate_chain_config(entry)
      /\ ~Rules!StrictMajority([entry EXCEPT !.threshold = @ - 1])
      /\ \A i, j \in DOMAIN entry.servers :
           i < j /\ entry.servers[i] = entry.servers[j] => Given(id, entry.servers[i])

(***************************************************************************)
(* A server is never asked about two chains, unless the operator listed it *)
(* or QuickNode's endpoint is on another host, which hides the chain.      *)
(***************************************************************************)
ChainsKeepApart ==
  \A c, d \in DOMAIN output :
    \A a \in ToSet(output[c].servers) \cap ToSet(output[d].servers) :
      c = d \/ Given(c, a) \/ Given(d, a) \/ \E base \in Bases : ~OnQuicknode(base) /\ a.host = base.host

(***************************************************************************)
(* A run with NEAR servers in its file and a key of QuickNode or Ankr      *)
(* writes a file the proxy starts with.                                    *)
(***************************************************************************)
WrittenConfigLoads ==
  stage = "written" /\ Near \in DOMAIN file /\ keys \cap {"quicknode", "ankr"} # {}
    => Loads(output)

(***************************************************************************)
(* A run that has no QuickNode key ends.                                   *)
(***************************************************************************)
RunEnds == stage = "fetching" /\ "quicknode" \notin keys ~> stage \in {"ended", "written"}
=============================================================================
