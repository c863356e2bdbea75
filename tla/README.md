# A TLA+ model of AlgoVNode

AlgoVNode is a virtual Algorand node: it keeps a cluster of upstream algod
nodes, follows the chain on all of them, caches blocks, and answers algod and
indexer requests from its cache or from the best node it has. It keeps nothing
on disk. What can go wrong in it is concurrency: goroutines of requests, loads,
nodes and three monitors share caches, channels, locks and lists.

This directory holds TLA+ modules that model those parts, TLC configurations
that check them on small instances, and TLAPS proofs of what matters most for
every instance. `PROJECT.json` lists the components, runs, mutants, the map from
definitions to source lines, findings, hazards and theorems.

## Inventory

| Part | State | Operations | What makes it correct |
|---|---|---|---|
| Unified block cache (`internal/blockcache`) | two LRUs of `BlockEntry` (block, error, wait channel), `last` | `GetBlock`, `PromiseBlock`, `AddBlock`, `IsBlockCached` | nobody sleeps through a delivery; no channel is closed twice; a block served is the fetched block of its round; every call returns |
| Loading and feeding (`cluster.go`, `node.go`, `blockfetcher`) | `latestRound`, the lists of nodes | `LoadBlockSync`, `fetchBlockRaw`, `BlockSink`, `SinkError`, `MakeBlockWrap` | a load delivers to the waiters or they time out; the latest round only grows |
| Prefetcher (`prefetch.go`) | streams `bps`, channel `bpSink` | `prefetchNotify`, `prefetchDetect`, `prefetchPrune` | stays ahead of a sequential reader; never promises more than a window |
| Round announcements (`cluster.go`, `handlers.go`) | `latestRound`, `lastSrc`, each node's `lastStatus`, the broadcaster | `SetLatestRound`, `WaitForStatusAfter`, `broadcastListener`, `waitHandler` | no nil status; a status is not behind its round; every wait returns; the answer is after the round asked for |
| Node life cycle (`node.go`, `cluster.go`) | node state, `Catchup`, `rttEwma`, `genesis`, `cState`, `catchupNodes`, `archNodes` | `boot`, `Monitor`, `setState`, `EnsureGenesis`, `updateNodeLists`, `stateChangeMonitor`, `WaitForFatal` | the lists are the synced nodes; one network; no circular wait |
| Retry (`utils.Backoff`) | tries, wait | `Backoff` and its four callers | stops on success, at the limit, on a fatal error and on cancellation, and for no other reason |
| Proxy and authentication (`handlers.go`, `proxy.go`, `auth.go`) | the lists, read without a lock | `defaultHandler`, `ProxyHTTP`, token check, routes | one answer per request; nobody is refused while a node is there to ask; a request is answered in the end |
| Conversion (`utils/convert_*.go`, `stxn.go`) | none | `GenerateBlock`, `signedTxnWithAdToTransaction`, ... | numbering of inner transactions, created indexes, own amounts, a stable order of deltas |
| Servers, configuration, `main` | the context, two servers, requests in flight | `LoadConfig`, `ListenAndServe`, `Shutdown`, signals | every cause ends the process; open requests that `Shutdown` knows of get their two seconds |
| Logging set-up (`cmd/algovnode/logging.go`) | none | `setLogging` | |
| Indexer types (`indexer_block.go`) | none | declarations | |

The parts interact through calls and shared memory. A request calls
`NodeCluster.GetBlock`, which notifies the prefetcher through `bpSink` and calls
the cache; the cache starts `LoadBlockSync`, which goes through the lists of
nodes and delivers blocks and errors back into the cache. Each node's goroutine
feeds the newest block into the cache, moves `latestRound`, submits its status to
the broadcaster and announces state changes on `cState`; `stateChangeMonitor`
rebuilds the lists. Handlers and loads read the lists without a lock. `main` starts
everything with one context, which a signal or a closed server cancels.

The hard behaviours are in `PROJECT.json` under `hazards`, each at its line.

## Modules

**`UnifiedCache`** (composes the cache, its loads and the nodes' feeds).
Pointers are numbers from a pool and `make()` takes the lowest that nothing
refers to; a step is one critical section. `GetBlock` is five statements
(`phase` 1 to 5): a `getBlock` on each cache, `PromiseBlock`, and a `getBlock` on
each cache again. `Get`, `Wake`, `Reread` and `Expire` are one `getBlock`;
`Conclude` is what `GetBlock` does with its result. `PromiseBlock` is two steps,
`Route` (which cache) and `Promise`, because it runs without the lock; the
goroutine it starts is `LoadFuture`, `LoadStart`, `LoadFail`, `LoadFetched`,
`LoadSink`, `LoadWrapError` and `LoadGiveUp`. `BootStatus`, `Ask`, `AskFailed`,
`BlockSink`, `BlockSinkAdd` and `BlockSinkWrapError` are a node's goroutine as far
as it touches the cache. `AddBlock` routes and adds in one step, under the
unified lock. A promise or an expired `getBlock`, which do not take that lock, may come
between its halves; that is as if they came before or after it, unless they evict from the
archive cache the entry the choice rests on, and then as if the block arrived there after
its promise was evicted. `Round` differences are taken modulo `Word`, which stands
for 2^64. The LRU (hashicorp/golang-lru) is external.

**`BlockService`** is the abstract specification: a request asks for a round, is
refused, served or given up, at most once; a served block was delivered by a node
after the cluster knew its round; the latest round never goes back.
`UnifiedCache!ImplementsService` states the refinement, with the answers, the
delivered rounds and the latest round mapped to the service's state.

**`Prefetch`** models `prefetch.go`. A stream is a record as in the code; `gs.bps`
is a function from positions, of which pruning removes some. `prefetchDetect` is
one step, since one goroutine runs it; `Hits` stops at 3, the only value above 2
the code can tell.

**`StatusWait`** models the announcement of rounds and `WaitForStatusAfter`. A
status is its `LastRound`. The broadcaster (dustin/go-broadcast, external) is one
goroutine with an input channel of capacity 1 that sends to unbuffered channels
one by one and serves nobody else meanwhile.

**`NodeCluster`** models each node's `mainLoop` and the rebuilding of the lists.
`sending` are the nodes blocked in `setState`'s send with their lock held;
`ClusterLocked` is the time `updateNodeLists` holds the cluster's lock, one
`scanNode` per node. Rounds are left out: the comparisons that depend on them are
free choices. The sort is one step with the response times of that moment;
`storeArch` stores the first list and `updateNodeLists` the second.

**`NodeLists`** is the abstract specification of those lists for somebody who reads
them without the lock: any scan, any order, `archNodes` replaced before
`catchupNodes`, and an archival node stays archival. `NodeCluster!ImplementsLists`
states that the cluster implements it.

**`Gateway`** (built on `NodeLists`) has the readers: a request that is passed on by
`defaultHandler`, and a load by `LoadBlockSync`. A slice header is an array and a
length, read in two steps (`ReadArray`, `ReadLength`); with a store in between the
length may be another list's, and what lies beyond the array is `Junk`. `Forward`,
`Loaded`, `TryNext`, `FallBack` and `GiveUp` are the walk over the nodes; `Panic` is a call
on `Junk` and `LoadPanics` a block that a load cannot convert (an account index out of range
at `convert_stxn.go:194`, say), both of which end the process when they happen in a load.
An answer that has been found is still to be taken by the client (`Written`).
`AnswerHere` is every request answered without a node (CORS, rate limit, no route,
no token, the handlers of other modules). `steady`, `tried` and `torn` are history.
The branch of `auth.go` for `/urlAuth/:token` is left out: no route has the parameter.

**`ClusterReaders`** composes the two: the tasks of `Gateway` over the variables of
`NodeCluster`, whose steps (`ClusterMoves`) interleave with those of the readers
(`Starts`, `ReaderMoves`, taken from `Gateway` through `INSTANCE`). `insync` is history:
the nodes that were in sync all the time since a task started in a quiet cluster. No run
is kept for it, since two nodes with both modules' interleavings are beyond a run of five
minutes; its properties are proved.

**`Backoff`** is `utils.Backoff` with the policies of its callers: `forever`
(`GetGenesis`, `Status`), `limited` (`StatusAfterBlock`) and `block` (`BlockRaw`,
which alone may fail for good). Negative `tries` are one value.

**`Lifecycle`** (built on `Backoff`) is the process: `main` from `LoadConfig` to its
return, the two servers with the requests in flight, each node's `mainLoop`, `boot`
and `Monitor` as far as they call and stop, and loads, whose context nobody cancels.
`grace` is the end of `Shutdown`'s two seconds. `H2C` is on by default: `h2c` then takes
connections over from the server (`Hijack`), which `Shutdown` neither waits for nor closes.
`inFlight` are the requests on the others; what goes on on a hijacked connection nobody in the
module waits for, so the connection stands for its requests.

**`Conversion`** models `GenerateBlock`, `genTransactions` and
`signedTxnWithAdToTransaction` as far as they compute something: the recursion is
a stack of calls, each with its `intra` and its `rowData`; a transaction keeps its
offset, what it created, the amount it closed out and its local state deltas, which
are maps read in any order (`KeyOrders` for the keys of each account, an order of the
accounts besides). `SortStrings` is the sort by its result, the ascending list of the
same keys, and `AccountStateDeltas` is the loop that appends one account after the other
and leaves out those without a delta. Transactions are numbered
in the order they are nested and listed. What the ledger puts into the block
(`Nested`, `LedgerId`, `OwnId`, `ApplyId`, `TxnCounter`) is external: before version
30 there are neither inner transactions nor ids in `ApplyData`, and a created index
is the number of its transaction; afterwards `ApplyData` has it, and the model
numbers backwards there so that a position can never be taken for an id.

Each of `UnifiedCache`, `Prefetch`, `StatusWait`, `NodeCluster`, `Gateway`,
`ClusterReaders`, `Lifecycle` (with `Backoff`) and `Conversion` has its proofs in a module with the
suffix `Proofs`; **`MCUnifiedCache`** and **`MCStatusWait`** hold model values. A
definition commented as a mutant stands before the one it changes, and belongs to
the mutants of `PROJECT.json` only.

## Runs

Runs that pass:

| Run | Instance | Shows |
|---|---|---|
| `UnifiedCache` | 1 request, 1 prefetch, 1 node, rounds 0..2 (0..1 while the prefetch runs), caches of 1 entry | `NoLostWakeup`, `CloseOnce`, `CacheInv`, `BlocksStay`, `ImplementsService`, `EveryGetReturns`, with two promises and two loads on one entry |
| `Prefetch` | windows of 4, channel of 1, 2 streams, rounds 0..5 | `AheadOfReader`, `BoundedLookahead` |
| `StatusWait` | 2 waiters and the listener, 1 node, rounds 0..2 | `StatusInv`, `StatusNeverNil`, `AnnouncesRound`, `StaleOnlyByReboot`, `WedgedStays`, `ReturnsUnlessWedged` |
| `NodeCluster` | 2 nodes, 2 networks, `cState` of 1 | `ListsFresh`, `ListedShareGenesis`, `SetStateReturns`, `StuckStays`, `ScanBounded`, `ImplementsLists` |
| `Gateway` | 1 request or load, 2 nodes, tokens required | `GatewayInv`, `OneAnswer`, `RefusedAfterAll`, `EffortFalls`, `RequestsAnswered` |
| `Lifecycle` | 1 node, 1 load, 2 servers with 1 request or `h2c` connection each (H2C on one), limit 2 | `GivesUpForCause`, `TriesAddUp`, `ExitDrains`, `MainExits`, `RetriesEnd` |
| `Conversion` | every block of 4 transactions, inner ones included; 2 accounts, 2 keys | `OffsetsCountInner`, `CreatedIsLedgers`, `AmountsAreOwn`, `DeltasStable` |

Each also checks the types of its module.

Three of these properties say how far a disagreement of the next table goes, and where
it ends: `BlocksStay` that an error hides a block only if it came first, `StaleOnlyByReboot`
that the fast path's status falls behind only when the very node that set the latest
round boots again, and `WedgedStays` that the broadcaster never gets out of its circular wait.

Runs that find a disagreement between the code and what it says of itself:

| Run | What the code does |
|---|---|
| `ReadsCachedBlock` | an error that came first hides a cached block from `GetBlock` |
| `BlocksTillFetched` | a block is delivered to the other cache than the one its promise waits in |
| `EveryWaitReturns` | a waiter that times out while the broadcaster sends to it wedges the broadcaster and every wait |
| `AnswerIsAfter` | the fast path returns the status of a node that has since reported an earlier round |
| `ListsOrderedByRTT` | the lists are sorted when a state changes, not when a response time does |

The bounds. With caches of one entry and rounds 0 to 2 the catchup cache has room for one of
two rounds and `last` moves past a round somebody waits for, so that entries are evicted and
rounds re-routed under a waiter. A prefetch beside that is beyond a run of five minutes:
`PrefetchBound` (`MCUnifiedCache`, a CONSTRAINT) lets it run while nobody has met round 2,
where it is enough to share a promise and its load with the request. The safety properties
are proved without either bound. The violation runs have three and four rounds
(`BlocksTillFetched` has larger caches too, to show that eviction is not needed).
A request and a prefetch are the two kinds of thread that promise, so
that one entry has two loads; more of either is left to the proofs. Word = 8 makes
the subtraction wrap as for a chain younger than the cache. Pools of entries and channels are larger than the number that can be
referred to at once, so an allocation is never refused. `MaxSynced` = 1 gives a
load no, one or two nodes to try. A window of 4 has a half and an off-by-one; a
channel of one entry drops notifications. `cState` with capacity 1 is full as soon
as one change is pending, which is what the 100 of the code are after a hundred.
Tasks of `Gateway` share only the lists, which they do not write, so one task meets
everything a second could do to it but the end of the process; two nodes make a list grow, shrink and lose a
node to the other one. A limit of 2 has a first, a last and no middle try; one
request per server is in flight or not, or one connection of `h2c` open instead.

Four transactions are enough for an inner call with an inner transaction of its own
between two top-level ones; all kinds and nestings of them are initial states.

Deadlock checking is off where the system may stop: requests are finite in the
instances, a conversion and the process end, and the circular waits named below are
reachable.

## Fairness

- `UnifiedCache!Fairness`: a request's goroutine runs when it can, and the ten
  second timer of its context fires. Nothing is assumed of loads and nodes, since
  `BlockRaw` is called without a timeout of its own.
- `StatusWait!Fairness`: the broadcaster's goroutine runs, receivers that are ready
  receive, timers fire; `Register` and `Unregister` are strongly fair because a Go
  `select` chooses at random among ready cases and queued senders are served in
  order. Nothing is assumed of the nodes.
- `NodeCluster!Fairness`: the monitor's goroutine runs, and a sender blocked on
  `cState` is served in order when there is room.
- `Gateway!FairGatewaySpec`: the goroutine of a request runs until the answer is there, and
  what `ProxyHTTP` asks a node for ends, since its context and its client have timeouts of
  at most ten seconds. Nothing is assumed of the write to the client: `WriteTimeout` is
  commented out (`algod.go:60`), and a client that stalls holds its request. Nor is anything
  assumed of a load, which calls `BlockRaw` without a timeout, nor of the cluster.
- `Lifecycle!LifecycleFairness`: `main` and the servers run and timers fire. Nothing is
  assumed of handlers, of the nodes' loops or of their calls, so that `MainExits` holds
  although the cluster may be stuck. `RetriesEnd` has a premise, `NeverStuck`: the loops go
  on, and a call ends if its attempt has a timeout (`CallBounded`; `BlockRaw` has none and
  ends for sure only when its context is cancelled, which a load's never is). The code
  grants that only while its callbacks get the cluster's lock, the node's own and room in
  `cState`, which no context bounds: until `NodeCluster!Stuck`.

Two circular waits remain, and the liveness properties name them instead of
assuming them away: `Wedged` (broadcaster and leaving waiter) and `Stuck` (monitor
and a node in `setState` over a full `cState`). Both are final (`WedgedStays`,
`StuckStays`). How near the second one is, `ScanBounded` says: while the monitor holds the
cluster's lock, a node announces at most three changes and then needs that lock itself.
So a scan gets stuck only if more than `CStateSize` - 3 * `NodeCount` changes were pending
when it took the lock: with the 100 of the code and ten nodes, more than 70.

## Proofs

All are checked by TLAPS for every value of the constants that satisfies the
named assumptions (`CacheAssumption`, `PrefetchAssumption`, `StatusAssumption`,
`ClusterAssumption`, `GatewayAssumption`, `BackoffAssumption`,
`LifecycleAssumption`, `ConversionAssumption`): finite bounds on rounds stay as parameters, and the numbers
of requests, nodes, waiters, servers and transactions and all capacities are
arbitrary.

- `CacheInvariant`: `CacheInv` is inductive. `NoLostWakeup` alone is not: that a
  waiter whose channel is open still has it in its entry needs that channels are
  not shared between entries (`CloseOnce`), that a new channel or entry is none
  anybody refers to, and that a waiter's entry is of its own round
  (`WaitersHold`). `WakeupsNotLost` and `ClosedOnce` follow. `BlocksAreKept` (`BlocksStay`) needs that
  a new entry is one that no cache and no waiter refers to.
- `Refinement`: the cache implements `BlockService`. Each step maps to a step of
  the service or to a stutter; `BlocksFetched` says that a block in an entry was
  fetched, `LoadsKnown` that a load fetches no round the cluster does not know,
  `AnsweredWhenDone` that a request is answered once.
- `ReaderNeverOutruns`, `LookaheadBounded`: from `StreamInv`, which relates the
  window's end, the trigger and the last request of each stream.
- `StatusInvariant`, `NoNilStatus`, `RoundsAnnounced`: from `ReachedInv`, that a
  node's stored status is at least at the round it is about to set. `StaleNeedsReboot`
  needs `SourceInv` besides: the node that set the latest round asks for the round after
  it, so that what its monitor stores next is never behind. `WedgeIsFinal` goes through
  every step of everybody.
- `ClusterInvariant`, `ListsAreFresh`, `ListedPassedGenesis`: from `ScanInv`, that what the
  scan found of a node stays true unless a change of it is on its way, and `BootInv`, that a node
  changes its kind or its genesis only while it is booting.
- `ScansAreBounded`: `Pending` bounds what a node can still announce without the
  cluster's lock, and no step under the lock raises it. That it starts at three at most
  needs `SendInv`, that a node in `setState`'s send has not come far since. `StuckIsFinal`
  uses that a locked node is scanned by nobody and runs nothing.
- `ListsPromise`: every step of `NodeCluster` is a step of `NodeLists` or a stutter,
  with `synced` and `archival` mapped to the nodes' states and the scan to `kind`.
  It needs that the list sorted before the first store still holds what the scan
  found at the second (`StoreInv`).
- `GatewayInvariant`, `AnsweredOnce`, `NobodyTurnedAway`: from
  `SteadyInv`, that a node that was listed all along is in the reader's hands or
  still ahead of it in `archNodes`. This holds because the reader takes
  `catchupNodes` first, the monitor stores `archNodes` first, and a node found
  archival is never found to be a catchup node later (`ArchInv`). A torn list is
  excepted: of what it makes a reader miss, or panic over, nothing is claimed.
- `TasksRunDown` (`EffortFalls`): every step of a request or a load lowers what it has
  ahead of it, so that it can take finitely many. From `ShortInv`, that no list or array
  has more entries than there are nodes: what is set aside for a list not read yet is
  more than walking it can cost, torn or not.
- `ReadersRefine`, `ReadersServed`, `InSyncAreTried`: the readers over the cluster itself.
  Every step of `ClusterReaders` is one of `Gateway` or a stutter, by the lemma that makes
  `NodeCluster` implement `NodeLists` and by `SteadyListed`, that what was listed all along
  is listed now; so `Gateway`'s theorems hold there, their assumption being proved.
  `InSyncTried` is what neither module can say alone: who starts in a quiet cluster can
  count on the nodes' states instead of on the lists. It follows from `RefusedAfterAll` and
  `InSyncInv`: a node that stays in sync keeps its kind, is found as what it is by every
  scan that has passed it, and is in its list before and after each of the two stores.
- `LifecycleInvariant`, `BackoffGivesUpForCause`, `BackoffTriesAddUp`, `MainDrains`:
  from `TriesAddUp`, without which a call could reach the limit early, and `DrainInv`,
  that a server whose `Shutdown` has returned takes no new request that it keeps track of.
  `MainDrains` is about those requests alone; what is open on a connection of `h2c` may be
  cut off at once.
- `ConversionInvariant`, `OffsetsCount`, `CreatedAreLedgers`, `AmountsOwn`: from
  `WalkInv`, that the recursion meets the transactions in their order, so that its
  count is the number of the last one it has met, and `RowInv`, that the row of a
  call has the call's own id and amount.
- `DeltasAreStable`, `ConversionTypes`: the lists of deltas come out the same however the
  maps are read. The lemmas say that every finite set of numbers has an ascending list
  (`AscendingExists`), that the sort returns it (`SortedKeys`), that the loop's recursive
  function exists (`LoopExists`) and what it has appended after each account (`LoopLists`).
  Induction is by the least counterexample (`LeastExists`), as the induction theorems of
  the library are out of the provers' reach. This is what `ConversionAssumption` needs
  finite sets of accounts and keys for, which maps have.
- `TypeCorrect`, `PrefetchTypes`, `ClusterTypes`, `LifecycleTypes`: the
  type invariants; `Gateway`'s is a part of `GatewayInv`,
  `StatusWait`'s of `StatusInv`.

Only model-checked: the liveness properties (`EveryGetReturns`,
`ReturnsUnlessWedged`, `SetStateReturns`, `RequestsAnswered`, `MainExits`, `RetriesEnd`), since
liveness under fairness is out of the prover's reach. Every invariant and every action
property of a passing run is proved.

## Not modelled

- Cancellation inside `UnifiedCache`, `StatusWait` and `NodeCluster`: what it does to
  the process is in `Lifecycle`; there a goroutine that it ends is like one that never
  runs again.
- The rest of the conversion to the indexer format: copying of fields, global deltas
  (the same function as the local ones), signatures and `pointers.go`, which decide
  nothing; `DecodeTxnId`, which nothing calls.
- A backend that is swapped for one of another network while its node stays in sync
  (`node.go:279`, a TODO): nodes tell their genesis only when they boot, in the code as in
  `NodeCluster`, and `ListedShareGenesis` speaks of what they told.
- Panics outside `Gateway`: a node's goroutine converts blocks as a load does and would end
  the process in the same way, from outside what `Lifecycle` says of `main`.
- Parsing of parameters, headers and bodies: `Gateway` chooses among the answers.
- Response times in `ProxyHTTP`'s timeout: a try may time out at any time.
- Torn writes of words: a slice header is read in two halves, each of them whole.
- The generated indexer types and the set-up of the log: declarations and settings
  without behaviour.

## Plan

1. Done: the cache with its loads, the prefetcher, the announcements, the node life
   cycle and its lists, the readers of the lists alone and over the cluster, retries, the
   process and the conversion, with the proofs above.
2. Composition of `Gateway`'s loads with `UnifiedCache`'s, where a load has a number of
   nodes to try instead of a list.
3. A reboot that `updateStatusAfter` causes by returning round 0 (`node.go:282`): rounds
   in `NodeCluster`.
4. The safety half of the other liveness properties, as `EffortFalls` is that of
   `RequestsAnswered`: measures for `RetriesEnd` and `EveryGetReturns`.
