# A TLA+ model of fabric-x-evm

fabric-x-evm puts an Ethereum JSON-RPC gateway in front of a Fabric or Fabric-X
network: a client's transaction is admitted, ordered by nonce, queued, endorsed
by EVM endorsers, submitted to the orderer, and found again in the committed
blocks that a synchronizer feeds to every store of the process. This directory
holds TLA+ modules of its parts, the TLC configurations that check them on small
instances, and TLAPS proofs for arbitrary ones.

## The system and its modules

| part | modules | what is hard |
|---|---|---|
| hybrid synchronizer (`synchronizer/hybridx`) | `HybridSync`, `BlockFeed`, `HybridSyncProofs` | two goroutines hand over without a lock; stream loss; crash between handlers |
| dependency-aware queue (`gateway/core/txqueue_v2.go`) | `TxQueueV2`, `TxQueueV2Proofs` | cycles, duplicate links, lost wake-ups, commits of queued transactions |
| FIFO queue, workers, submitter (`txqueue.go`, `api.go`, `batch_submitter.go`) | `TxPipeline`, `TxPipelineProofs` | a bounded channel, failures of what did commit, shutdown |
| dependency-graph queue (`depgraph_queue.go`, `depgraph_adapter.go`) | `DepGraphQueue`, `DepGraphProofs` | reuse of an endorsement, three kinds of goroutines, blocks that overtake them |
| nonce gate (`nonce_parking.go`) | `NonceGate`, `NonceGateProofs` | a store read off the lock, eviction of held entries, stranded transactions |
| queries (`api.go`, `gateway/api/eth.go`) | `TxLookup`, `EthReads` | several reads for one answer while blocks arrive |
| errors (`gateway/api/rpcerrors.go`, `common/callerror.go`) | `RpcErrors` | an error passes many layers, each of which may reclassify it |
| endorsement client, executor, endorser core (`endorse.go`, `executor.go`, `endorser.go`) | `Endorsing`, `GasEstimate` | stale views, a cancellation that hides its cause, probes between blocks |
| endorser services (`endorser/client`, `endorser/server`) | `EndorserRPC` | what the wire loses |
| endorser stores (`endorser/storage`) | `VersionedStore`, `KvsRecords`, `LightKVS`, `RevertibleLightKVS`, `PebbleKVS`, `VersionedDBWrapper` | reads beside a block, pruning, replay, power loss, reverts |
| query-service store (`endorser/query`) | `QueryKVS` | views that must be ended, a cached height |
| EVM state (`statedb.go`, `dual_statedb.go`) | `StateDB`, `CallFrames`, `DualStateDB` | nested reverts; the read-write set is what was simulated |
| chain store (`chain.go`, `gateway/storage`) | `ChainStore` | crash between trie and tables, redelivery under another hash |
| filters and subscriptions (`gateway/api/filters`) | `HeadSubs`, `HeadSubsProofs`, `PollingFilters`, `LogMatch` | capped buffers, channels closed under a sender, two matchers for one question |
| process (`gateway/app`, `endorser/app`) | `AppLifecycle` | a failure at any step of the construction, shutdown with requests under way |
| configuration (`config`) | `Startup` | what `Validate` accepts the constructors must take |
| metrics (`gateway/metrics`) | `TxTimes` | a map written by every stage of the pipeline |
| test node (`gateway/testimpl`) | `TestNode`, `StatePriming`, `StatePrimingProofs` | reverts against transactions under way, one shared StateDB |
| baseline tool (`cmd/baseline`) | `Baseline`, `GoTestEvents` | merged reports, streams that end early |

The synchronizer calls the handlers in the order endorser store, chain, filters,
gateway (`gateway/app/app.go:240`). The gateway handler first lets the nonce gate
observe the block, which may enqueue a parked transaction, and then lets the
queue complete what was committed, which may promote others.

Six modules put components together for TLC: `Queues` (the three transaction
queues), `Stores` (the four state stores), `EvmState` (StateDB alone and beside
go-ethereum's), `Requests` (what a client's request meets), `ChainClients` (the
chain and those who read it) and `Processes` (test node, start, life and end of a
process, baseline tool). Each instantiates its components with small constants,
sometimes twice with different ones, and its initial state chooses the one that a
behaviour is about; the others keep their initial states. `Requests`,
`ChainClients` and `Processes` let the components that are not extended share
variables (`c1`, `d1`, `e1`, ...), of which the chosen one gives the meaning. The
properties of a group are conjunctions over its components' own, which are
defined and explained in their modules. The synchronizer and the nonce gate are
checked on their own modules.

Operators whose comment begins with "Mutant" or "MUTANT" are deliberately wrong
versions of the definition after them. They are not used by the specifications:
they document which mistake each property detects.

### Blocks

* `HybridSync`: every access to one of the two atomics and every call of a
  handler is an action, so that a step of the other goroutine may come between
  any two. `deliveryShim.Handle` is `DeliveryReceive`, `DeliverySeed`,
  `DeliverySeedDispatched`, `DeliveryClaim`, `DeliveryHandle`, `DeliveryPublish`;
  `notifGate.HandleBatch` is `NotifClaim`, `NotifWait`, `NotifSwitch`,
  `NotifBatch`, `NotifDispatch`, `NotifHandle`. `Crash` keeps the stores and
  loses the rest; a shutdown is one too, so that the wait for delivery that gives up
  because its context is done has no action of its own (that the streamer hands on
  the context of `Start`, and does not end it when a stream fails, is assumed). External: the ledger, the SDK's delivery (in order, from the
  height reader's block or the one after) and the stream (in order, only while
  connected, perhaps without blocks that hold no EVM transaction).
* `BlockFeed` is the abstract promise to the handlers: one block at a time,
  handler by handler, numbers that only grow in one process life, without gaps
  before the feed goes live. `HybridSync!ImplementsFeed` is the refinement: the
  block in the chain is that of whichever goroutine runs it.
* `ChainStore`: `Chain.Handle` in its steps (trie commit, insert, publication),
  the conflict clauses and constraints of the tables, start-up from them, and
  faults between any two steps: a block that cannot be converted, which stays in the
  way however often it is delivered, a trie commit or an insert that fails, a crash. `Hybrid` chooses the feed: without gaps and with
  real hashes, or what the hybrid synchronizer brings after a restart.
* `HeadSubs`: `newHeads` subscribers, their channels and caps, one goroutine each,
  against `fanOutHeads` and `Close`. `PollingFilters`: installation, buffers,
  polls, deadlines and the sweep, with a clock. `LogMatch`: the in-memory and
  the SQL matcher as operators, both against a definition of what a filter asks
  for, over all small logs and filters. The four topic columns are scaled to two;
  a filter up to "earliest" is unbounded in memory and ends at 0 in the tables.

### Transactions

* `TxQueueV2` models the queue with its callers. An entry is a number, the
  slices `blocks` and `isBlockedBy` are bags (their order has no effect, their
  multiplicities do: two shared participants link two entries twice). The block
  handler keeps the lock across its completions (`HandleBegin`, `HandleNext`);
  `Woken` is the condition variable. A block may hold transactions that were
  never submitted here.
* `TxPipeline`: clients, the FIFO queue with its condition variable, the workers,
  the channel to the batch submitter, its workers, blocks, and `Stop` with and
  without a cancelled context. A rate limiter is one of the reasons a submission
  fails.
* `DepGraphQueue`: endorse workers, the batcher, released nodes, completion and
  the reuse of an endorsement that is recent enough. The committer's dependency
  manager is external: it releases a node when no earlier one touches its keys.
  The channels with one reader on the way to and from the manager are folded into
  two; the time spent in them is that of a later flush or release.
* `NonceGate`: `Admit` is one step for a cached sender and otherwise three:
  `AdmitReserve`, `NonceAt`, `AdmitSeeded`. A block first changes the store
  (`CommitBlock`), then is observed, then handled by the queue. Times are left
  open: any parked transaction may be the one that expired and any idle sender
  the least recently seen, which allows more than the clock does. The queue refuses
  for as long as it likes and takes transactions again (`QueueRefusal`): it was
  closed, or full until there was room. `TxLookup` adds the block database and one
  `TransactionByHash`; its initial state chooses what a behaviour is about (`Scopes`).
* `TxTimes`: the entry the metrics keep of one transaction, in every step that
  writes, reads or deletes it, from `SendTransaction` to the block. Left out: a
  copy parked and then admitted at its own nonce by a seed, and a submission that
  is reported failed though it was ordered.
* `EthReads`: the block parameter of every read and the two or three reads behind
  an answer, while blocks pass the handlers and the process restarts. The whole
  history of the state is available; integer widths are scaled down, their order
  is kept. `RpcErrors`: every outcome of a call, an estimate and a submission,
  from the executor through the endorser's status, the wire, the client and the
  gateway to the JSON-RPC code.

### State and execution

* `VersionedStore` is what the endorser needs of a store: blocks at growing
  heights, readers that keep the state of their height, steps back by a crash or a
  revert. `LightKVS`, `RevertibleLightKVS`, `PebbleKVS` and `VersionedDBWrapper`
  are shown to implement it (`ViewsAreSnapshots`, each with its own refinement
  mapping). The lock-free walk of `LightKVS` is one step per ring slot, a `Get` of
  `PebbleKVS` two database reads. A record is a value with its height; Pebble's
  byte layout is left out. `KvsRecords` holds what they share: versions, replay
  verification, the reference state.
* `QueryKVS`: snapshots as views of the external query service, with their cache,
  and the life of a snapshot in the engine that opens it.
* `StateDB`: the journal, the write index that is built on demand, refunds, logs,
  transient storage, the access list and the snapshots, with the read-write set
  of the end. `CallFrames` is what the EVM asks of it (a frame that fails brings
  everything back at once) and `RevertsRestore` the refinement. `DualStateDB` runs it
  next to go-ethereum's, as the conformance tests do, and compares what the two
  answer, `Exist` included: go-ethereum keeps an account it was told to create or
  touched, so there the two may differ over empty accounts only. Values are abstract,
  one slot stands for an account's storage.
* `Endorsing`: the concurrent fan-out with cancellation, deadlines and choice of
  error, endorsers with views of different age, and the committer's validation, for
  one sender; an endorser refuses, fails on its own account (status 500) or cannot
  be reached. `GasEstimate`: the probes, with blocks between them. `EndorserRPC`:
  every message out and back, against a local endorser; the wire loses the version of
  a proposal response and the difference between no endorsement and an empty one,
  neither of which is looked at. go-ethereum's EVM is
  external: a call's outcome is chosen.

### Processes and tools

* `AppLifecycle`: construction with a failure at any step, the wait for the first
  synchronisation, serving, and shutdown, of the gateway (`Kind = "gateway"`) and of
  the standalone endorser. A handler fails because its store was closed or because it
  cannot handle the block; unless the context is done the process dies of it. A
  construction that fails closes the connections to remote endorsers and the filter
  goroutine; the chain, the endorser's store, the submitters and the batch queue stay
  open in a process that then exits.
* `Startup`: validation and use of a configuration that is one of the samples with up
  to two fields changed, before the first or the second start on the same endorser
  store. Whether the SDK's clients refuse a TLS section when they are created or at
  first use is left open; `Dial` and `flogging.Init` refuse at once. The accounts a test node funds in sqlite are not recorded.
* `TestNode`: submissions under the fence, the gate, the queue, the block's way
  through the handlers, snapshots and reverts, for one sender and one transaction
  in a block; a submission that fails though it was ordered is left out, the store's
  history is long enough for every revert. `StatePriming`: concurrent
  `hardhat_set*` calls over one primer and one StateDB, with failures at every step;
  `Submit` is the hand-over to the orderer.
* `Baseline`: `check`, `update` and `tag` over sequences of tests in several report
  files; a regular expression is the set of strings it matches. `GoTestEvents`: the
  stream of a tree of subtests, cut anywhere.

## Runs

| run | configuration | checks |
|---|---|---|
| `hybrid_safety` | `HybridSync_safety.cfg` | `NeverOverlap`, `CancelNeverAbortsDispatch`, `ProtocolNeverPanics`, `HolesOnlyFromStreamLoss`, `ImplementsFeed`, `EveryBlockArrives` |
| `hybrid_streamgap` | `HybridSync_streamgap.cfg` | *violated*: `EveryBlockDispatched` |
| `txqueue_safety` | `Queues_safety.cfg` | `ConflictsSerial`, `LinksMatch`, `NoCircularWait`, `NoLostWakeup`, `PipelineKeepsTrack`, `GraphServesSafely` |
| `txqueue_live` | `Queues_live.cfg` | `Drains`, `StopReturns` |
| `gate` | `TxLookup_gate.cfg` | `CacheCoherent`, `ParkedInFuture`, `IndexMatches`, `PinnedStays`, `QueuedIsFound`, `NextNeverFalls`, `ParkedLeaveForAReason` |
| `lookup_race` | `TxLookup_race.cfg` | *violated*: `PendingIsFound` |
| `stores` | `Stores.cfg` | `StoresAreFaithful`, `ViewsAreSnapshots` |
| `evm` | `EvmState.cfg` | `JournalIsTheState`, `RevertsRestore` |
| `evm_destroyed` | `EvmState_destroyed.cfg` | *violated*: `DestructionsAgree` |
| `requests` | `Requests.cfg` | `HandledIsForgotten`, `EndorsedAsAsked`, `ReportedIsTrue`, `RequestsEnd` |
| `chain` | `ChainClients.cfg` | `HeadsSound`, `HeadsInOrder`, `StoredIsTheLedger`, `ClientsSeeTheChain`, `NothingIsRevised`, `DueIsDone` |
| `processes` | `Processes.cfg` | `CarriesOnlyItsWrite`, `NothingOverwritten`, `ProcessesInOrder`, `SuiteTells`, `EverythingReturns` |

What they show:

* `hybrid_safety`: in every interleaving of delivery, notification, stream failures
  and a crash, the handler chain sees one serial feed (`BlockFeed`), a cancelled
  delivery never cuts a dispatch short, and stores lack blocks only through stream
  loss. Without a disturbance every committed block reaches the stores, whichever
  path has to bring it.
* `txqueue_safety`: in the dependency-aware queue links, lists and maps agree,
  conflicting transactions never run together, nobody waits in a circle and no
  ready transaction waits on a sleeping worker. In the FIFO queue the maps stay in
  step, one copy of a transaction is on its way and none leaks. In the
  dependency-graph queue contending transactions are never in flight together and
  reused endorsements stay valid.
* `txqueue_live`: every tracked transaction leaves the configured queue, through
  failures, resubmissions, other gateways and submissions of unknown outcome; `Stop`
  and `Close` end every worker.
* `gate`: two `Admit`s that read the store off the lock, blocks, a queue that refuses
  at times and the reaper in every order. The cached nonce is right, no parked transaction is
  stranded or lost, held entries survive evictions, and a queued transaction is
  found by `TransactionByHash` all through its commit.
* `stores`: whichever store is configured, versions follow the ledger and a reader
  sees exactly its height, beside blocks, redeliveries, prunes, reverts, restarts
  and a power loss. All four implement `VersionedStore`.
* `evm`: a revert restores accounts, storage, refunds, logs, transient storage and
  the access list at once; the read-write set commits what was simulated; the two
  databases of the conformance tests answer alike. All this but for one sequence, a
  contract of the transaction that self-destructs again in a call that is reverted
  (`DestroyedAgain` is FALSE), which `evm_destroyed` is about.
* `requests`: nonces are given out in order however stale the endorsers are; one
  refusal stops a submission and is what the caller is told; remote endorsers are
  asked and answer like local ones; a request reads one state of the query service;
  an estimate is a limit that worked; errors tell who is to blame; the metrics
  forget what was handled. Calls, views and searches end.
* `chain`: no head channel is misused, the caps count right and nobody misses a
  block without being behind; the tables are the ledger through failed conversions,
  commits and inserts, crashes and redeliveries; lookups, filters and both log matchers are consistent
  with it; what is due is stored, swept or given back.
* `processes`: concurrent state directives never mix their writes or undo a user's;
  no transaction crosses a revert of the test node; shutdown takes nothing from
  under a worker or a request of the gateway; a configuration that `Validate` accepts
  is refused by nothing that follows, unless it is one that `Startup!Unchecked` names
  (an unknown database, a negative history, a TLS section that cannot be used, log
  levels that do not parse, and for the test node one without a gateway or the
  in-memory store); the baseline gate
  is red exactly for uncovered failures. Calls, rewinds and `Run` return.

### Why the bounds are enough

A handover of the synchronizer takes a block of delivery, a block of notification
and one after it. A cycle or a stale link in the queue takes three entries, a
promotion of two at once takes one entry that blocks two which do not share a
participant, and a lost wake-up takes two workers. In the gate, two clients are
enough for seeds that land in the wrong order, one nonce beyond the next for a
stranded transaction and two variants for a replacement; a cache limit of zero
lets the reaper evict whatever may be evicted. A behaviour of the run has one sender
with three nonces and their replacements, or two senders without, or a lookup beside
one `Admit` (`Scopes`): senders share nothing but the cache and its limit, and
`PinsCounted` is proved for any limit and any number of them. The two runs of `Queues` differ in this: safety has two
workers, blocks of two transactions and, in one half of its behaviours, two transfers
that are linked twice, in the other two transactions that do not conflict and a
transfer that waits for both; liveness has one worker, so that every wake-up and every
promotion it misses strands a transaction for good.

A store with a history of two and four blocks evicts, prunes, reverts and is read
in the middle of each; a second reader only matters to Pebble's pins. The journal
of `StateDB` is cut at four to seven entries and one to three nested frames: a
revert, a write after it and a second revert fit. The groups of operations
(accounts, runtime state, access list) share no state but the snapshots, so that a
behaviour uses one of them; contracts have seven entries, enough to create one, fund
it, destroy it, destroy it again in a call and revert, alone and beside
go-ethereum. Three
transactions over two keys give the dependency-graph queue a chain and a pair
that does not conflict. Two or three blocks with two or one faults let `ChainStore`
crash, take a block again and crash again. A channel of one is full with one transaction and
blocks the next. Two callers, two clients or two tests are the least for a race;
in the code a third one takes the same steps as the second.

Deadlock is not checked: the ledgers and the numbers of calls are bounded, and
closed queues, ended processes and parsed reports really stop.

### Fairness

Weak fairness stands for the Go scheduler, for tickers and timers that fire, and
for the loops that retry (`Start` of the synchronizer, the sweep).
Strong fairness is used where a goroutine competes for a lock or a channel that
others use too: `sync.Mutex` hands over to a waiter that starves, and a blocked
sender or receiver of a channel is served in turn. Of the outside it is assumed
that a submitted transaction has an outcome, a block or a failure report
(`TxQueueV2`, `TxPipeline`), that the ledger and the dependency manager go on
(`DepGraphQueue`, `ChainStore`), that a reachable endorser answers or its deadline
passes (`Endorsing`) and that gRPC requests are answered (`AppLifecycle`; HTTP
requests need not be). Nothing is assumed of clients, crashes, failures or of the
chain in `StatePriming` and `TestNode`.

In the group modules fairness is stated of disjunctions over the components (`Worker`,
`Goroutine`, `Applies`, ...). A behaviour never changes its component, so that this is
fairness of the one it is about.

## Where code and documentation differ

Three sentences of the repository are refuted by runs:

* `hybrid_streamgap`: `hybrid.go:11-13` promises that exactly one path
  dispatches each block. After the switch delivery is cancelled for good and a
  stream that fails is simply called again: a block committed in between is
  dispatched by neither. `HolesOnlyFromStreamLoss` shows that this is the only way.
* `lookup_race`: a parked transaction that `Observe` moves to the queue between two
  lookups of `TransactionByHash` is answered with nil, although `api.go:360` reserves
  that answer for a transaction in neither location. `QueuedIsFound` shows that a
  transaction that was queued already is always found.
* `evm_destroyed`: `dual_statedb.go:37` says that both state implementations are kept
  in sync. `SelfDestruct` journals an entry each time a new contract self-destructs and
  the undo of any of them deletes the mark (`statedb.go:559-562`, `666-667`): destroy a
  contract, destroy it again in a call that is reverted, and StateDB takes it for
  alive, where go-ethereum, which marks once, still deletes it.

Others were met while modelling. The modules follow the code; what a comment or a
document says beyond it is not among the properties.

* `Ready` of the synchronizer answers nil when delivery fails before any switch.
* The tip delivered again after a restart of the hybrid feed comes with its real hash
  while the stored row keeps the placeholder, so that the next block's parent is a
  hash no stored block has: `Linked` is checked of the delivery feed only. A
  transaction that lost to a conflict and is submitted again keeps its failed row and
  gets the logs of its success.
* `eth_getLogs` returns logs with fewer topics than the filter has positions; the
  in-memory matcher does not. State queries treat the tags safe and finalized as
  latest. A full or closed queue is reported as a rejected transaction, a failed
  execution as an internal error by `eth_estimateGas`.
* A queued transaction that commits through another gateway leaves `hashMap` but not
  its list, so `InFlight` does not count it. The FIFO queue accepts transactions after
  its workers have left. The dependency-graph queue converts classic endorsements.
* With two callers, a second copy may reset the start time of the first, and an entry
  stored between `ForgetTx` and `Complete` stays; without the notification stream no
  entry is deleted. This is why `NothingLeft` and `StartIsItsOwn` are checked with one
  sender at a time.
* Block 0 and the empty store share the height 0, which each store confuses in its own
  way (`GenesisWrites` and `Funded` keep the cases apart). Reads may be of another
  height after a racing revert, after a revert into a gap, or above the tip
  (`RacingReverts`, `GapReverts`, `FutureReads` are FALSE in `Stores`).
* A read that a revert drops from the journal is no dependency of the endorsement; the
  refund counter is not always 0; a failed execution is endorsed with status 202.
* The standalone endorser closes its store under requests that drain, the gateway never
  closes its endorser's store. Some configurations pass `Validate` and fail later (`Startup!Unchecked`).
* `Chain.Handle` and `Gateway.Handle` return the error of a block they cannot convert
  "so release builds stay up" (`chain.go:83`, `api.go:473`); the hybrid synchronizer
  panics over it, and delivery brings the same block again.
* Mined and priming transactions go around the fence of the test node, which is why
  `ProcessesInOrder` is about a client that waits for its calls.
* Reports with a title that both passed and failed are read in ways that depend on
  files and order; a `go test` stream cut between two subtests looks clean.
* `argsToCallMsg` lets `"input": null` hide `data`;
  `eth_getBlockTransactionCountByHash` answers 0 for an unknown block;
  `rpcTransaction` shows transactions of block 0 as pending;
  `cmd/baseline/README.md:168-170` says that suites are sorted worst first while
  `baseline.go:594` sorts by name; a Mocha failure with an empty message is read as a
  pass (`baseline.go:114-116`).

## Proofs

The theorems hold for every value of the constants that satisfies the named
assumptions (`HybridAssumption`, `QueueAssumption`, `WorkersFinite`,
`GateAssumption`, `SomeNonce`, `ClientsFinite`, `FreeIsNobody`, `HeadsAssumption`):
any number of handlers, blocks, crashes, transactions, workers, senders, calls,
subscribers. The assumptions
say that numbers are naturals, that goroutines are finitely many, and that nobody
is called like the free lock. The theorems on the FIFO queue and on the
dependency-graph queue carry theirs as a hypothesis (`Sizes`, `Params`), since TLC runs
these components as instances inside `Queues`: `txqueue_safety` checks
`Pipeline!PipelineKeepsTrack` and `Graph!GraphServesSafely` for the constants given there, the
theorems state `PipelineKeepsTrack` and `GraphServesSafely` of the components themselves.

`HybridSyncProofs` proves every safety property of `hybrid_safety`, the
refinement included, and that in one life of the process every handler is given each
block at most once and in order. The properties are not inductive: that the two goroutines
never overlap rests on how `claimed`, `dispatched` and the two program counters
fit together (delivery's claimed block is one ahead of what it published, the
block notification owns is one ahead of that). The invariant `FullInv` joins
this protocol invariant with the order of the stream's queue, the order of the
heights, and the bookkeeping of which blocks each store has.

`TxQueueV2Proofs` proves the structural properties of the queue. Its invariant
`IInv` joins the types with `StructInv`: maps and hashes agree, links agree in
both directions with their multiplicities, an entry waits exactly if something
blocks it, lists have no duplicates. That no circle of waiting arises
needs an order on the entries that fits every link; the invariant states it
without naming the order, as the existence of an unblocked member in every
non-empty set of tracked entries, and the proof shows that `Enqueue` adds an
entry blocked only by entries that are themselves not waiting.

`NoLostWakeup` is proved on top of it. Between the completions of a
block the lock is held and nobody has been signalled yet, so that the property is
not inductive: `WakeInv` counts what `Handle` still has to signal for (`promoted`),
and says that while a worker sleeps the ready list is covered by the woken workers
and these. The cases are a `Signal` for one entry, a `Broadcast` for several, and a
woken worker that takes an entry away.

`TxPipelineProofs` proves `PipelineKeepsTrack`, with and without other gateways. The
property counts copies of a transaction; its invariant says instead where they are:
no two of the workers, channel slots and submission workers hold the same transaction
unless another gateway's block completed it early (`Single`), what they hold is in
`inProgressMap` (`HeldTracked`), and what is in `inProgressMap` is held by one of
them, ordered, or about to be completed by `Handle` (`TrackedGoesOn`). The step from
places to counts is the lemma `Counted`. `Sizes` says that transactions and goroutines are
finitely many and that there is a transaction.

`DepGraphProofs` proves `GraphServesSafely`, both halves, for any transactions,
read and write sets, endorsers, workers, batch sizes and window of reuse. `Params` has
`Foreign` and `Ambiguous` empty, as in the instance that the run checks the property on:
a transaction that reaches the ledger behind the queue's back is in flight without
the manager knowing it, and then the property fails. The invariant comes in two
layers. `PlaceInv` follows a transaction: it is admitted or with an endorser (`EarlyInv`),
then endorsed or a node that the dependency manager or `markReady` has (`MiddleInv`), then
ready, with a worker, in the pool or in a block that `Handle` has not seen (`LateInv`),
in one place at a time, with the flags and node number in `tracked` to match; and the
released unfinished nodes conflict with no older unfinished one (`Apart`), which is what
the manager promises and what `NodeKept` must not give up before `Handle`. `NeverClash` is a
consequence. The second layer is about endorsements: `commitSeq` is
loaded before the execution (`LoadedFirst`), what is kept or being endorsed is not in a
handled block (`Uncommitted`), `lastWrite` has every write of the blocks in the window
(`Noted`), and what a worker or the pool holds read nothing that a later block wrote
(`AllGood`). An endorsement that `Fresh` lets pass is good because a block after its
execution is either handled, and then inside the window and noted, or not handled, and
then its transactions are in flight and by the first layer do not conflict
(`FreshIsGood`); so every committed transaction is valid (`AllValid`).

`NonceGateProofs` proves every property of the run `gate`, the action properties too. The interesting part of its invariant
is `SeedInv`: a nonce read off the lock may be stale, but then a block of that sender has been applied, and
once that block is observed the entry, which the reference kept in the cache, has
a nonce, so that `raise` ignores the stale one. This takes the exactness of the
reference counts (`PinnedStays`, as a cardinality that each step moves by one),
the truth of every entry up to the block being observed (`AllTruthful`), and that
the block's nonces end where the store is (`BlockInv`). `NonceNeverFalls` and
`ParkedNotLost` then follow from one lemma on what a step does to the cache
(`StepEffect`). A lookup only reads, which carries all this over to the gate with a
lookup beside it (the lemma `LookupsOnlyRead`), and `QueuedFound` adds that a transaction
queued when the lookup began is found. Its invariant follows the transaction: it is in the queue or in the database, and in the
database once the queue has been asked without finding it (`LookupInv`).

`HeadSubsProofs` proves `HeadsSound` and `HeadsInOrder` for any buffer, caps, clients and
blocks. Neither is inductive: that a channel is closed once rests on who may still hold
it (`Owned`: a channel is open while its subscription is registered, and from the moment
`unsubscribeHeads` takes the subscription to the moment it closes the channel), that the
counters are exact on a new identifier being `Fresh`, and that a subscriber who keeps up misses
nothing on the contents of the channel being ascending and ending at the last block
sent (`Ascending`, `NoneMissed`). The counters are cardinalities, which each
subscription and removal moves by one.

`TxTimes` has its proof in the module: `HandledIsForgotten` holds because the calls of
`SendTransaction` differ from each other and from the one that brought the transaction
in (`CallsDiffer`), so that a late `TrackTxStart` stores another call's time.
`StatePrimingProofs` proves `CarriesOnlyItsWrite`: whoever is past `Lock` holds the
mutex, and `Reset` makes the StateDB forget what a failed call left there. It also
proves `NothingOverwritten`: `ReadInv` says that what a call sends has in its read set
the version of every balance or code it computed from, so that the committer accepts
it only on that version.

Only model-checked: the liveness properties (`EveryBlockArrives`, `Drains`,
`StopReturns`, `RequestsEnd`, `DueIsDone`, `EverythingReturns`), since fairness and
ENABLED are beyond the prover; what is computed by folds over blocks, journals and
reports (`StoresAreFaithful`, `ViewsAreSnapshots`, `JournalIsTheState`,
`RevertsRestore`, `StoredIsTheLedger`, `SuiteTells`), since induction over data is too;
and the remaining properties of the groups, whose components no proof module extends:
`EndorsedAsAsked`, `ReportedIsTrue`, `ClientsSeeTheChain`, `NothingIsRevised`,
`ProcessesInOrder`.

## Not modelled, and why

* go-ethereum's EVM, the trie's nodes, Pebble, sqlite, the Fabric SDK, the ordering
  and query services and the committer's dependency manager are external: they are
  modelled as far as the code here relies on them.
* Generated code (protocol buffers, SQL rows, contract bindings): no decisions of
  its own. The SQL statements are in `ChainStore` and `LogMatch`.
* The integration harness, the benchmark tools and the conformance tests' wrappers
  and loggers: I/O around the modelled parts.
* Rendering of blocks, transactions and receipts, the HTTP and WebSocket servers,
  TLS handshakes, the health service and its monitor, YAML and flags, log output, Prometheus
  instruments, the counters of `Stats`:
  no state that another part reads.
* Starvation of a waiting transaction by an endless stream of others that share one
  of its addresses (`txqueue_v2.go:187`): the runs accept finitely many
  transactions, and in a finite run nobody starves.
