# A TLA+ model of hot-validation-sdk

The SDK decides whether an MPC network may sign a message, and has it signed. A
message is signed for a wallet (a *uid*); the wallet's record on NEAR names the
methods that have to approve it; each method is a view call on NEAR, which may
send the proxy on to a contract on another chain. No RPC server is trusted:
every call goes to several of them and `threshold` must agree. The signature
comes from `threshold` MPC servers of one cluster.

This directory holds the specifications of that program, the TLC configurations
that check them on small instances and the TLAPS proofs about them. Paths are
relative to the root of the repository.

Contents: 1 inventory, 2 modules, 3 runs, 4 proofs, 5 assumptions and fairness,
6 bounds, 7 what the checks found, 8 what is not modelled, 9 plan.

## 1. Inventory

### Components, their state and operations

| Component | Source | State | Operations |
|---|---|---|---|
| Threshold call | `core/src/threshold_verifier.rs` | per call: shuffled stream, requests in flight, votes by answer, errors by server | `threshold_call`, `verify` |
| RPC configuration | `primitives/src/validation.rs` | `threshold`, `servers` | `validate_chain_config`, the field rules of `Validate` |
| Validation | `core/src/lib.rs` | one verifier per chain, fixed; per call: the wallet's access list, one check per method | `new`, `verify`, `verify_auth_method`, `get_transfer` |
| NEAR verifier | `core/src/verifiers/near` | none | `get_wallet`, `verify`, `call_view_method` |
| EVM verifier | `core/src/verifiers/evm` | none | `eth_blockNumber`, then `eth_call` one block below |
| TON verifier | `core/src/verifiers/ton` | none | treasury call, then child call |
| Solana, Stellar, Cosmos verifiers | `core/src/verifiers/*.rs` | none | simulate, read an account, query a contract |
| HTTP client | `core/src/http_client.rs`, `core/src/metrics.rs` | two counters | POST and GET of JSON, error quoting |
| Cluster | `mpc-proxy/src/domain/mpc/cluster.rs` | threshold, list of live servers, health-check job, cancellation token | `new_initialized`, `compute_alive`, `start_alive_job`, `stop_alive_job` |
| Cluster manager | same file | the clusters; per request: combinations, attempts | `new`, `sign`, `get_public_key` |
| MPC API | `mpc-proxy/src/domain/mpc/api.rs` | none | `/health`, `/participants`, `/public_key`, `/sign`, 2 s each |
| Bridge | `mpc-proxy/src/domain/bridge`, `api/bridge.rs`, `primitives/src/bridge` | none of its own; treasuries and NEAR keep the nonces | sign a deposit, a withdrawal, a removal |
| Proxy | `mpc-proxy/src/main.rs`, `api/`, `domain/mod.rs`, `domain/errors.rs` | how far the process has come; per request: how far it has come, its time, its answer | start-up, `/sign`, `/sign_raw`, the three bridge endpoints, `/public_key`, `/healthcheck`, 15 s timeout, graceful shutdown |
| Secrets | `mpc-proxy/src/secrets.rs` | the encrypted file; the configuration, fixed once read | ask for the key, decrypt, parse |
| Wallet creation | `mpc-proxy/src/api/create_wallet.rs` | none; NEAR keeps the wallets | one NEAR transaction and the reading of its result |
| Inputs of other chains | `primitives/src/bridge/{evm,stellar,cosmos,ton,solana}.rs` | none | parsing of an AuthCall's arguments, conversion to the chain's values |
| Chain ids | `primitives/src/chain_id.rs` | none | conversions, `is_cosmos`, `can_reorg` |
| Uids, MPC types, encodings | `primitives/src/{uid,mpc,integer,base58_wrapper,hex_wrapper}.rs` | none | conversions |
| RPC health check | `rpc-healthcheck/src` | gauges | `healthcheck_many`, `Observer` |
| rpc-fetch | `rpc-fetch/src` | the output file | merge servers, choose thresholds, write |
| Telemetry, command line | `mpc-proxy/src/{telemetry,cli}.rs`, `core/src/metrics.rs` | process-wide counters | export |

### How they interact

    client -> endpoint -> Validation::verify --> threshold call (NEAR): wallet's methods
                 |                 |-> per method: threshold call (NEAR), then
                 |                 |               threshold call (the chain NEAR names)
                 |                 `-> each threshold call: one HTTP request or two per server
                 `----> ClusterManager::sign --> combinations of Cluster's live servers
                                                     `-> leader's /sign, 3 at a time

Everything runs on one tokio runtime. A request is one task: its threshold calls,
its checks (`try_join_all`) and its sign attempts (`buffer_unordered`) are
futures polled by that task, so a panic in one ends them all, and the 15 s
timeout or a lost client drops them all at any await. Requests share the
clusters' lists of live servers, which one background job per cluster replaces
under a lock. Configuration is read once at start-up from files written by an
operator, or by rpc-fetch.

### What makes each part correct, and where it is hard

* **Threshold call.** The answer has `threshold` backers and does not depend on
  shuffling or on who is first. Hard: order of completion, early return with
  requests in flight, the cap of the buffer, degenerate configurations.
* **Validation.** Success means that all of the wallet's methods were approved by
  NEAR and by the chains it named; a deserving proof is not refused; what makes a
  call panic instead of failing is known: a chain without servers or without a
  name, arguments that do not fit, a server's text that cannot be cut for the error.
  Hard: concurrent checks of which the first
  error drops the others, a list that changes meanwhile, the order of the arms of
  the dispatch, arguments that say nothing of the kind they are of.
* **EVM verifier.** The answer is one the chain will not take back. Hard: the
  chain moves between the two requests, servers are at different blocks.
* **Bridge.** Nothing is credited without a deposit or paid without a record; a
  cleared transfer is never paid. Hard: three endpoints and two keys share a
  message space, the chains move between verification and signature, nonces are
  remembered in two different ways.
* **Cluster, cluster manager.** A signature comes from one cluster; a request
  gives up only when no cluster could have signed. Hard: stale lists, flapping
  servers, dropped attempts, job and token life cycles.
* **Proxy.** No MPC server hears of what was not verified or, for a withdrawal,
  read from NEAR in that request; an answer says what happened; a timeout has a cause; the process starts or fails, and a signal ends
  it without cutting anybody off. Hard: limits inside limits, requests in flight
  when the caller is gone, two clients after one wallet, signals at any moment.
* **HTTP client.** Whatever a server sends becomes an answer or an error.
* **rpc-fetch.** What it writes is a configuration the proxy can load and that
  means what it should. Hard: repeated runs over the same file, kills, merging.
* **Observer.** The gauges say what the checks saw, an outage shows.

`PROJECT.json` lists every component with its status, and the hazards by line.

## 2. Modules

| Module | Models | Variables and actions |
|---|---|---|
| `RpcConfig` | `ChainValidationConfig` and its validation rules | operators only |
| `ThresholdOracle` | what a threshold call promises: one atomic decision | `Accept`, `Reject`, `Abandon` |
| `ThresholdCall` | `threshold_call` as the stream runs it | `waiting`, `inflight`, `votes`, `errors`; `Pull` and `Invoke` fill the buffer, `ReturnVote`, `CountVote`, `CountError` take an answer, `NoConsensus` is the end of the stream |
| `ChainIds` | the numbers of chains, `is_cosmos`, `can_reorg`, which ids `ExtendedChainId` lists | operators only |
| `Validation` | `Validation::verify` with its concurrent checks | `ReadWallet`, `LengthDiffers`, then per method NEAR's answer, the dispatch (`VerifierOf`), the parsing of the arguments (`Kind`) and the chain's answer |
| `EvmVerifier` | a threshold call of EVM verifiers on a moving chain | `Begin` (`eth_blockNumber`), `BlockNumbered`, `EthCall`; `Grow` and `CatchUp` are the chain |
| `HttpClient` | the requests of one verification, polled by one task; a body is its length and the places between its characters | `Send`, `TransportFails`, `Receive`, `NonSuccess`, `Decode`, `DecodeFails` |
| `Cluster` | the inside of one cluster: its start-up, its rounds and its job | `Probe`, `InitReady`, `InitFails`; `NextTick`, `JobTicks`, `JobCancelled`, `JobWrites`; `Flip` is the servers |
| `ClusterManager` | one `sign` or `get_public_key` on snapshots of the clusters | `Attempt`, `NoLeader`, `Signed`, `AttemptFailed`, `SignFails`; `Ask`, `KeyReturned`, `KeyMissed`, `KeyFails` |
| `Startup` | the life of the proxy's process up to serving, and its signals | `KeyTyped` (with `Decrypts`), `VerifiersBuilt`, `BeginInitialisation`, `Initialised`, `ClustersReady`, `AllClustersFail`, `Bound`, `KilledBySignal`, `shutdown_signal` |
| `Proxy` | requests to the proxy under its time limits, over `Startup` | `Arrives`, `BodyAccepted`, `BodyRejected`, `BodyPanics`; `Verified`, `RecordRead`, `Refused`, `VerifyPanics`; `Ask`, `Answered`, `Missed`, `GivesUp`; `Sends`, `NearExecutes`, `NearReplies`; `TimesOut`, `Leaves`, `Tick`, `Exit` |
| `BridgeLedger` | what the bridge promises: the books of a bridge in which every step is taken once, for all to see | `Hold`, `Credit`, `Record`, `Pay`, `Close` |
| `Bridge` | the three bridge endpoints with NEAR and the treasuries around them | `AskDeposit`, `AskClear`, `AskWithdraw`, `ChainCall`, `TreasuryCall`, `ChildCall`, `Sign`, `Fails`; the contracts' `Deposited`, `PaidOut`, `Minted`, `Recorded`, `Removed` |
| `RpcFetch` | rpc-fetch, run repeatedly over one file | `Start`, `Fetch`, `FetchFails`, `Bail`, `ChooseThresholds`, `Truncate`, `Write`, `Killed` |
| `Observer` | the passes of the observer's checker | `Tick`, `CheckChain`, `Pull`, `Ends`, `Record` |

They compose by what each promises the next:

* `ThresholdCall` is proved to implement `ThresholdOracle`. `Validation` uses the
  oracle's outcome: a set of possible answers per call (`"yes"`, `"no"`,
  `"fails"`, `"panics"`), which is what a threshold call may return when its servers
  disagree or change their minds. `EvmVerifier` does not: there the answers
  depend on when each server is asked, so it models the requests themselves.
* `Proxy` EXTENDS `Startup`: requests are served by the process whose life
  `Startup` is, with the clusters that its start-up left. Each part of a request
  is there as what its own module promises, with its time limit: verification
  ends within `VerifyLimit` in success, error or panic (`Validation`), and so does the
  reading of a withdrawal, of which NEAR may return any transfer (what it is worth is
  the business of `Bridge`); a request to an MPC server within `TIMEOUT`, at most
  `SIGN_CONCURRENCY` at a time and one per combination (`ClusterManager`). A cluster's `Initialised` in `Startup` is
  `InitReady` or `InitFails` of `Cluster`, whose `StartupEnds` justifies the
  fairness of it.
* `Bridge` implements `BridgeLedger` (`Implements`): held and credited deposits,
  recorded, paid and closed withdrawals are the same facts, which in `Bridge` lie
  on two sides that only signatures connect.
* `Bridge` keeps of `Validation::verify` that an endpoint's proof has one method,
  NEAR's answer first and the chain's second, and of `ClusterManager::sign` that
  it returns a signature of the message or fails. `ClusterManager` starts from
  any snapshot of live servers: every list that `Cluster` can have produced, and
  more.
* `RpcFetch` INSTANCEs `RpcConfig`: what one program writes is held against the
  rules of the program that reads it.

The `*Proofs` modules extend the module they are named after. Two hold a second
component as well: `ThresholdCallProofs` has `HttpClient`, whose requests are what
a threshold call invokes, and `RpcServersProofs` has `RpcFetch` and `Observer`, the
two programs around the lists of RPC servers. (One module cannot extend two with
an `Init` each, hence `HttpInit`, `RunInit` and the like.) The `MC*` modules give constants to TLC. Operators under "Faulty variants" are plausible bugs: each
names what a definition would be with that bug, and each property is checked to
be violated when the definition is replaced by its variant.

## 3. Runs

| Run | Instance | Shows |
|---|---|---|
| `threshold_call` | eleven configurations of up to four verifiers, validated and not, two answers and failure, 56,449 states | a rejection is right, a validated configuration gives one outcome from `threshold` different servers, requests are bounded, calls end, the oracle is implemented |
| `cluster` | three servers that flap and report different thresholds, 99,043 states | start-up ends; a listed server was up in the list's round |
| `cluster_stale` | the same | violated: a server gone for good stays listed (section 7) |
| `cluster_manager` | three clusters, thresholds 2, 1 and 0, a shared server, crashes and returns, 174,143 states | who signs, when a request may fail, every request is answered |
| `validation` | two methods on ten pairs of chain and arguments, a chain without servers, changing lists and answers, 97,896 states | success means approved by all, refusal has a cause, so has a panic, calls end |
| `evm_verifier` | three servers, one faulty, one whose text cannot be cut, a chain of up to three irreversible blocks, 330,088 states | answers and verdicts are final, no consensus and panics have a cause |
| `bridge` | two requests at a time on four transfers, 1,130,688 states | mints are backed, payments recorded, removals final, what is removed is never paid; the ledger is implemented |
| `proxy` | one client that uses one of the five signing endpoints, asks for a key or creates a wallet, one that creates the same wallet or asks for the health, two clusters that come up or not, two keys, two files, 414,909 states | only what was verified, or read for a withdrawal, is asked, answers are true, a timeout has a cause, start-up settles, a signal ends the process without cutting anybody off |
| `rpc_fetch` | four operator's files, three QuickNode accounts, any keys, kills, 12,864 states | thresholds are the smallest strict majority of servers that nobody but the operator listed twice, no server is listed under two chains, the file loads, runs end |
| `observer` | two chains, three servers, a shared domain and a shared server, 267,392 states | the margin was real, a gauge that one server has for itself is right, a lasting outage shows |
| `http_client` | two servers, seven bodies around the length that is cut, 1,859 states | failures are counted, what a panic takes, requests end |
| `http_client_snip` | the same | violated: a non-success answer that never becomes an error (section 7) |

Deadlock is checked everywhere but in the two runs of `HttpClient`, whose task
ends with nothing left to happen; the modules of the other calls have an explicit
`Ended` step, and `Proxy` has `Gone`, the process that is no more.

## 4. Proofs

For every value of the constants, under the ASSUMEs of the modules:

| Module | Theorems | Inductive invariant |
|---|---|---|
| `ThresholdCallProofs` | types; an accepted answer is backed (`Integrity`); a rejection is right (`Completeness`); unique outcome; distinct servers; bounded requests; threshold 0 never decides; `Refinement` of the oracle | while the call runs the votes are exactly the answers of the slots that have left the buffer, and none has reached the threshold |
| the same, `HttpClient` | types; failures are counted; what a panic takes | the counter is exact while the task runs and at most one ahead after a panic; a panicked task has a body that is cut inside a character |
| `ValidationProofs` | types; success is earned; refusal has a cause; panics explained | what a check has been told when it reaches each stage; a failed call has found something to object to, a panicked one a server of NEAR whose answer cannot be cut, or a check that NEAR approved with one of the causes of `PanicsForCause` |
| `EvmVerifierProofs` | types; answers final; verdict final; no consensus has a cause; panics explained | a correct server is only asked about blocks it never replaces; a panic is a step of one request, so its causes need no invariant |
| `ClusterManagerProofs` | types; one cluster signs; `sign` and `get_public_key` give up last; bounded attempts | every combination whose servers have been up throughout is waiting or under way, every such server is still to be asked; keys are asked for one at a time |
| `BridgeProofs` | types; mints backed; payments recorded; removals final; removed is never paid; `Refinement` of the ledger | what a request has read still holds when it signs, each signature stands for a fact, nonces are unique; a nonce counts as used only where something was paid |
| `ProxyProofs` | types; verified first; truthful answers; timeouts explained | what is asked was verified in the same request, or read from NEAR in it, and stays in the history; whoever created a wallet on NEAR did so alone; attempt number n is begun after as many rounds of `TIMEOUT` as fit before it |
| `ClusterProofs` | a listed server was up in its round; a list is a snapshot: configured servers, each once; the threshold was reported | the servers up now and those found have been seen up in this round; a server that was found is not asked again in it |
| `RpcServersProofs`, `RpcFetch` | thresholds are the smallest strict majority; servers keep to their chain; the proxy can start | at any time every list is what the providers asked so far make of the operator's: each entry comes from the file or from one of them, and what is there twice the operator listed; the entries and the output are such lists with their majority |
| the same, `Observer` | types; the margin was real; lone gauges are right | the answers of a check are of different slots, and what answered has been seen up |

Why the properties alone are not inductive: `RejectionIsRight` speaks of the
end of a call, and nothing in it says how the votes come about; `VerifiedByAll`
needs to know what each concurrent check had been told; `AnswersAreFinal` needs
which block the open request names; `SignFailureIsRight` needs that no
combination is lost on its way through the stream; `MintsAreBacked` holds
because of signatures made long before, so each signature carries the fact it
stands for. `Refinement` of `ThresholdCall` maps the variables by name: a step that returns a
vote is `Accept`, the end of the stream is `Reject`, dropping is `Abandon`, all
else stutters. That of `Bridge` maps the contracts' steps to entries of the books
and all of the proxy's to stutters; `Close` is the hard one, since it needs what
the proxy had read when it signed the removal. `TimeoutsForCause` is about a
sum of limits, so its invariant puts every attempt on a schedule: when all slots
are taken, the oldest attempt is at least that many numbers behind the newest,
and when it ends a whole round has been worked off.
`LoneServersAreShown` needs that every slot has answered when a round is over: an
injection of a finite set into itself is onto. `ChainsKeepApart` speaks of the
output, made by a run that may be long over, while the reason lies in the shape of
the addresses: its proof shows that the host tells the provider
(`OneHostEach`), and within a provider the label or the path tells the chain
(`OneChainEach`), since no table gives one name to two chains (`OneToOne`, for the
literal tables of the source). Cardinality facts come from `FiniteSetTheorems`.

Every invariant that a run checks is stated by a theorem. Only model-checked is all
liveness (`Termination`, `Answered`, `StartupEnds`, `StartupSettles`,
`StopsGracefully`, `OutagesAreShown`, `RunEnds`, `Ends`), since the proof system does
not handle fairness and ENABLED. In `RpcFetch` the proofs do not type a provider's
address as an `Address`: the provers cannot show that a string literal is in
`STRING`. Nothing rests on it, for what they need of an address is which provider
made it.

## 5. Assumptions and fairness

Assumptions about what is outside the repository:

* **MPC servers.** A leader returns a signature if and only if the accounts it
  was given take part in time; a server that was up throughout does not fail.
* **RPC servers of an EVM chain.** A URL answers from one node whose irreversible
  part only grows; reverts reach at most the newest block (the comment at
  `core/src/verifiers/evm/mod.rs:50`), and not even that on the chains for which
  `can_reorg` is false. A URL that balances over nodes at different blocks counts
  as faulty. Fewer than `threshold` servers are faulty.
* **NEAR's bridge contract** answers a clear request from its record of the nonce
  or refuses; its nonces are unique and grow. It removes a transfer once it holds
  the signed removal.
* **Treasuries.** On TON and Solana they pay only nonces above the last one paid
  to that receiver; elsewhere they keep the set of paid nonces. "Completed" on
  the former means "cannot be paid any more". What is asked of them never becomes
  false again, so a server that lags behind is a spurious failure.
* **QuickNode.** The account's Ethereum endpoint is one of the forms of
  `rpc-fetch/src/providers/quicknode.rs`: an account with at most one network
  label behind it (`IsAccount`), on a host that is neither Ankr's nor Alchemy's. The
  code takes a label off once for Ethereum and twice for the others, so of an
  account with two labels, `x.matic.mainnet`, Ethereum and Polygon would get one
  address. On a host other than `quiknode.pro` the address hides the chain and is
  the same for all but the three chains whose path differs; `ChainsKeepApart`
  excepts it.
* **The operator's file** holds lists of addresses of listed chains, or is not read
  (`FilesAssumption`).
* **Bodies** are UTF-8: a character takes one to four bytes (`IsText`).
* **Libraries.** The clients of Stellar and Solana, the decoders of TON's cells and
  serde do not panic beyond what section 7 lists.

* **Time, in `Proxy`.** Computing takes no time, waiting takes any number of ticks
  up to the limit that the code sets. A verification's limit is the sum of its
  threshold calls': with a majority for threshold the last server is asked no
  later than one server's limit, so the wallet and NEAR's answer take 3 s each and
  an EVM call, with two requests per server, 6 s: 12 s. On Stellar, whose library gets no
  limit from here, it is more than the service's. Reading a withdrawal from NEAR is one
  threshold call, 3 s. NEAR's library retries for a
  time the proxy does not set.
* **The registry on NEAR** creates a wallet once.

Fairness, and what justifies it:

* `ThresholdCall`, `Validation`: weak fairness of the call as a whole. The runtime
  polls the task, `http_client` bounds each request (`TIMEOUT`, 1.5 s).
* `HttpClient`: weak fairness of each request's own steps. Receiving an answer is
  not among them, as no server owes one; the timeout is.
* `ClusterManager`: weak fairness of the request's steps, each bounded by the 2 s
  of `api.rs:15`.
* `Proxy`: weak fairness of each request's steps that wait for nobody (`OnTime`:
  the runtime polls what is ready), of time, of start-up once the key is typed
  (each of its steps is bounded) and of the exit. Nothing is assumed of clients,
  operators, RPC servers, MPC servers and NEAR: `StopsGracefully` rests on the
  service's limit alone.
* `Cluster`: weak fairness of probes (`HEALTHCHECK_TIMEOUT`), of round ends and of
  the interval; strong fairness of the two branches of `select!`, which tokio
  polls in random order, so a branch that keeps being ready is taken.
* `Observer`: weak fairness of the tick, of each check and of its probes (5 s).
* `RpcFetch`: weak fairness of a run's steps. The request to QuickNode has no
  timeout (`quicknode.rs:78-113`), so nothing is assumed of it, and `RunEnds` is
  about runs without QuickNode's key.

No liveness property relies on a server answering, except `OutagesAreShown`,
which assumes that the servers stop flapping.

## 6. Bounds

* `threshold_call`: four verifiers are enough for a buffer that is full, empties
  and is refilled, for a majority and half of the servers, and for one URL twice.
  The order of the stream is free, so no permutation is fixed.
* `evm_verifier`: `MaxBlocks = 3` irreversible blocks (the first, one to be asked
  about, one to move on to) and one replaceable; `WordSize = 16` stands for 2^64
  and only has to be above every block number, so that the underflow at block 0
  is the only wrapped number.
* `validation`: two methods, so two checks run at once; the pairs of chains cover
  every arm of the dispatch, including the ids that two arms would accept; the
  arguments cover every kind, some of another kind than their chain's, some of two
  kinds at once, some of none, and some that do not fit what they are converted to.
* `proxy`: `VerifyLimit = 2` (4 for a proof that goes to Stellar, 1 for the one call
  that reads a withdrawal), `TIMEOUT = 1`, `ServiceLimit = 4` and
  `SIGN_CONCURRENCY = 2` relate as the code's 12, 2 and 15 s do: verification and
  one round of attempts fit, two rounds do not.
  With three combinations there are two rounds. A body may take one tick or never
  come. Two requests are enough for a race after one wallet, two clusters for one
  that fails and one that does not.
* `cluster_manager`: three servers with threshold 2 give three combinations, which
  with those of the other clusters exceed SIGN_CONCURRENCY = 3.
* `bridge`: two requests, so that one chain or NEAR acts between the steps of
  either; two nonces of one receiver on a counting chain, the same nonce on
  another chain, an amount that does not fit. `AmountWord = 2` stands for 2^64.
* `http_client`: `LOG_SNIP_MAX = 4`, so that bodies are shorter, as long and
  longer, and a cut falls between and inside characters of one to three bytes.
* `observer`: at most two probes at a time, so that the third waits.
* Symmetry is used only in `bridge`, over requests, which has no liveness.

Each action of every passing run is taken.

## 7. What the checks found

* `cluster_stale` (`cluster.rs:246`): `start_alive_job` stops a previous job by
  cancelling the cluster's token and then hands the new job a child of that same
  token. A child of a cancelled token is cancelled, so the job ends within a few
  rounds, and the list of live servers keeps for good what those rounds left.
* `http_client_snip` (`http_client.rs:60`): the quoted part of a long body is cut
  at fixed bytes; when a character lies across the cut, slicing panics. The
  answer then is no `RequestFailed`, as the comment at line 68 has it, and the
  task takes the requests to the other servers with it.

Noted on the way and not stated as findings:

* Nothing calls `validate` on the configuration that the proxy loads
  (`main.rs:47`), although the comment at `validation.rs:43` says that a strict
  majority is required. A list of four with threshold two may give two outcomes,
  and one that repeats a URL gives a server two votes: `OutcomeIsUnique` and
  `AcceptedByDistinctServers` hold for validated configurations only.
* A chain that `ExtendedChainId` does not list can be configured, and a failed
  check on it panics while the error is built; so does a call to a chain that is
  configured without servers (`PanicsForCause` of `Validation` and `EvmVerifier`).
* The panic of `http_client_snip` is met by every verifier that `http_client` serves,
  NEAR's included, and ends all the checks of the request: `NearPanics` and
  `ChainPanics` of `Validation`, `SnipPanics` of `EvmVerifier`, `VerifyPanics` of `Proxy`.
* `Word::from_slice` (`primitives/src/bridge/evm.rs:31`) panics on a bytes32 that
  does not have 32 bytes; the comment of a test (`evm.rs:77`) expects that it "will
  be padded later when converting to DynSolValue". On Solana the amount of a deposit
  above u64 (`primitives/src/bridge/solana.rs:118`) and a seed that is too long for
  `find_program_address` panic in the same way, before any request. `PanicsForCause`
  names both (`DoesNotFit`).
* `/deposit/sign` and `/withdraw/sign` build the challenge of a transfer with a panic
  for NEAR, and for Solana above u64 (`primitives/src/bridge/mod.rs:154,164`): the
  connection closes without an answer (`ChallengePanics`, `VerifyPanics`).
* `/withdraw/sign` has its message signed without `validation.verify`, as the comment at
  `withdrawal.rs:28` says: `OnlyVerifiedIsAsked` names it as its one exception and says
  what holds instead.
* The help text of `rpc_call_fails` (`core/src/metrics.rs:76`) says that it counts calls
  "that failed due to transport error". The code counts answers with an unsuccessful
  status as well (`http_client.rs:99`), and answers that do not decode not at all.
  `FailuresAreCounted` states what the code does.
* Arguments for Stellar that are only `bytes`, or an empty list, are parsed as EVM's
  (`primitives/src/bridge/mod.rs:228`), and the Stellar verifier then turns them
  down whatever the contract would say: the exception in `RejectedForCause`.
* A configuration without clusters hangs at start-up: `buffer_unordered(0)` never
  polls its stream, and the error of `cluster.rs:57` is not reached. This is the
  exception in `StartupSettles`.
* A uid of another length, or a number that is no `KeyType`, closes the connection
  without an answer on some endpoints and is a rejected body on others (`UidPanics`,
  `KeyTypePanics` and `Rejected` of `Proxy`).
* Two servers of one provider on one chain share a gauge of the observer, so the
  later answer hides the earlier (`LoneServersAreShown` says when it is right).
* A cluster that reports threshold 0 has one empty combination, which never signs.
* rpc-fetch's README calls the threshold a user-defined value although it is
  computed.


## 8. What is not modelled, and why

* **Bytes.** Encodings, hashes, signatures, ciphers and the exact layouts of
  messages are values that differ when their inputs differ. The challenge of a
  transfer is a record of what it hashes; that no two of them collide is SHA-256's.
  Decryption succeeds for the key that sealed the file, if the form is right.
* **The contracts and chains** beyond the assumptions above, and the MPC protocol.
* **Durations** outside `Proxy`: there timeouts are steps that may happen.
* **A signature that the MPC servers make after the request was dropped** never
  reaches the caller: in `Bridge` only what the proxy returned is in `signed`.
* **Idle connections** that a graceful shutdown closes, and HTTP below requests.
* **The metrics endpoint, `cli.rs` and `telemetry.rs`**: single calls to libraries,
  without state of their own.
* **`providers/infura.rs`** is not used by rpc-fetch.
* **The observer's** shutdown token: nothing in the repository cancels it.

## 9. Plan

Order, most important behaviour first: threshold call and its oracle, clusters and
the cluster manager, validation, EVM verifier, bridge and its ledger, the programs
around them (rpc-fetch, observer, HTTP client), the process and its requests. All
of these are written. What is left:

1. *Conversions.* Chain ids to and from their JSON and numeric forms, uids and
   base-58 texts, as operators checked against reference definitions.
2. *Proofs.* What is left besides liveness are lemmas for other uses: that
   `Validation`'s sets of answers are those a threshold call may have.
3. *Refinement.* `Validation` with two threshold calls inside it against the
   abstract answers it uses now, and `Startup` with `Cluster` inside it.
