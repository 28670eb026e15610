# TLA+ verification of itt-engine

itt-engine is a Go library that ingests a stream of events into a graph of
weighted edges and measures "informational tension" on it.  It is built as a
small multi-version store: one worker goroutine turns events into new versions
of an overlay graph, a compaction folds the overlay into a base graph, and
readers take snapshots (one version plus one base) and analyse them.

This directory holds TLA+ modules translated from the Go source, TLC
configurations that check them on small instances, and proofs that TLAPS checks
for every instance.  `PROJECT.json` maps each definition to the source lines it
stands for and lists runs, mutants, hazards, findings and theorems.

## 1. Inventory

| component | state | operations | interacts through |
|---|---|---|---|
| Event store (`engine.go`) | `base`, `baseMu`, current version in `vc`, `versionID`, `overlayCount`, `eventsTotal`, `snapshotsActive` | `processEvent`, `doCompact`, `Compact`, `Reset`, `Snapshot`, `Stats` | worker, user goroutines and readers share atomics; `baseMu` guards only `base` |
| Lifecycle and event channel (`engine.go`) | `started`, `stopped`, `ctx`, `cancel`, `wg`, `eventCh` | `Start`, `Stop`, `Running`, `AddEvent` (starts the engine if needed), `AddEvents`, `worker`, `gcWorker`, `cacheEvictionWorker` | channel, context, WaitGroup; the flags are atomics without a lock around them |
| MVCC versions and collector (`mvcc/`) | current version, `refCount` of each, tracked versions with age and warning flag | `Acquire`, `Release`, `Track`, `Collect` | called by `Snapshot`, `Snapshot.Close` and `gcWorker` |
| Results cache (`cache/`) | entries by version, query and arguments, expiry | `Get`, `Set`, `InvalidateVersion`, `EvictExpired`, `Clear` | filled by analyses, emptied by the two ticking workers |
| Graph data (`graph/`, `compact/`) | nodes (degree, first and last time), edges (weight, count, times) | `AddNode`, `AddEdge`, `WithEvent`, `Compact`, `UnifiedView` | overlay and base graphs are immutable once published |
| Persistence (`callbacks.go`, `engine.go`) | what the storage holds | `Load` when an engine is built, `Save` in a goroutine per compaction | the user's `Storage` |
| Snapshot analysis (`snapshot.go`, `aggregation.go`) | closed flag, mutex | `Analyze`, `AnalyzeNode`, `AnalyzeRegion`, accessors, `Export` | reads the view, fills the cache, feeds the calibrator |
| Change feed and callbacks (`engine.go`) | `tensionHistory`, `lastTrend` | `onChange`, `onAnomaly`, `onTensionSpike`, `onCompact`, `onGC`, `onError` | run on the goroutine that causes them, mostly the worker, and may call the engine |
| Tension history (`analysis/temporal.go`) | ring buffer per node | `Push`, `Latest`, `Previous`, `Slice`; trend, spike, decay, phase | worker writes, analyses read; `Reset` leaves it |
| Calibrator (`analysis/calibrator.go`) | observations, threshold, `warmedUp` | `Observe`, `IsAnomaly`, `Recalibrate` | worker and analyses observe |
| Detectors and numerics (`analysis/`) | none | divergence, curvature, connectivity, concealment, detectability | pure functions of a graph, called by the worker and by analyses |
| GPU backend (`gpu/`) | serialized graph kept between calls, `closed` | `Available`, `AnalyzeTensions`, `Close` | called by analyses, closed by `Stop` or by its owner |
| Configuration, export (`builder.go`, `types.go`, `export/`) | plain data | setters, `Build`, JSON and DOT writers | none at run time |

### What is hard

* **Concurrency.**  `AddEvent` may come from any goroutine, `Compact`, `Reset`,
  `Start` and `Stop` too; the only lock of the store is around `base`.
  `doCompact` changes the base and the overlay in two steps, `Snapshot` reads
  them in two, `Start` and `Stop` read and write four fields one at a time.
* **Deferred effects.**  Saves run in goroutines of their own; the collector
  loads the current version once and then looks at versions one by one; results
  computed on an old version arrive in the cache later, and are compared with
  histories that the worker has added to since.
* **Re-entrance.**  The worker runs the user's callbacks itself: one that calls
  `AddEvents` or `Stop` waits for the goroutine it runs on.
* **Failure.**  A save may fail, be lost with the process or overtake another;
  the context a caller passed to `Start` may be cancelled at any time.
* **Numeric details.**  Compaction re-adds edges through the function that
  counts an event, and corrects counts and times afterwards.

### What makes each component correct

* Store: each published event is counted once, wherever it lies; snapshots see
  a prefix of the published events; published versions never change; storage
  never runs ahead of the base.
* Lifecycle: an accepted event is neither lost nor processed twice; `Stop`
  returns, and not before what was accepted earlier has been processed; callers
  of `AddEvents` get out of a full channel.
* Versions and cache: counts match holders, nothing held or current is
  collected, nothing is kept for ever.
* Graph data: the two layers together say what one uncompacted graph would say.
* Analyses: an answer, computed or cached, belongs to the version of the snapshot
  it is given to, and never mixes two graphs; the backend's kernel and the
  calculator agree on a graph, and so do the full analysis, that of the region of
  all nodes and that of each node.
* Temporal summary: only nodes that are gone count as lost, and a reported trend
  is one that was told and comes with a change.
* Numerics: distances are found as far as they are needed, walks count a node
  once, and what an estimate tells does not depend on the order of a Go map.
* Change feed: what a subscriber adds up is the graph, until a user calls `Compact`
  or `Reset`; it is told of each turn of a trend once.

`PROJECT.json` lists the hazards behind these at the lines where they bite, with
the properties that cover them, or why none does.

## 2. Modules

| module | models | about |
|---|---|---|
| `EngineCore` | `engine.go`, the store | the interleavings of worker, `Compact`, `Reset`, saves and readers |
| `EventLedger` | abstract | what the store promises its callers; `EngineCore` implements it |
| `EngineLifecycle` | `engine.go`, the rest | `Start`, `Stop`, `AddEvents`, channel, worker loop, tickers |
| `VersionGC` | `mvcc/`, `cache/` | reference counts, collector, cache invalidation |
| `GraphStore` | `graph/`, `compact/` | the data of the layers, view, compaction, save and load |
| `EdgeLedger` | abstract | one graph that is never compacted; `GraphStore` implements it |
| `Tension` | `analysis/`, `gpu/` | operators: the tension of nodes, by the calculator and by the kernel on serialized arrays |
| `ChangeFeed` | `engine.go`, `analysis/` | the worker's deltas, tension histories, trends and calibrator, and a user's `Compact` and `Reset` on the same data; extends `Tension` |
| `Analysis` | `snapshot.go`, `gpu/` | analyses of snapshots, cache and backend beside the worker and the calls of `ChangeFeed`, which it extends |
| `Temporal` | `snapshot.go`, `analysis/temporal.go`, `engine.go` | the temporal summary of a full analysis, beside the worker and the `Reset` of `ChangeFeed`, which it extends |
| `Measures` | `analysis/`, `snapshot.go` | curvature, concealment, connectivity, detectability, and the results put together from them, on every small graph; extends `Tension` |
| `MC*` | | small instances of the components; `PROJECT.json` names the configurations |
| `EngineCoreProofs`, `EngineLifecycleProofs`, `VersionGCProofs`, `GraphStoreProofs` | proofs | about `EngineCore`, `EngineLifecycle`, `VersionGC` and `GraphStore` |
| `TensionProofs` | proofs | about the operators of `Tension`: calculator, serialization and kernel on any graph |
| `ChangeFeedProofs` | lemmas | what each step of the worker and of a user's call keeps, in whatever module composes it; extends `TensionProofs` |
| `AnalysisProofs`, `TemporalProofs` | proofs | about `Analysis` and `Temporal`; extend `ChangeFeedProofs` |

The component modules meet at named actions.  `EngineLifecycle.Process` is
one call of `processEvent`, whose steps are `TakeEvent` to `DecideCompact` of
`EngineCore`.  `VersionGC.Publish` is a version published by `EngineCore`, and
the reader of `VersionGC` refines what `EngineCore` calls `AcquireVersion` and
`CloseSnapshot`.  `GraphStore` takes each operation of the store as one step and
has the data that `EngineCore` abstracts to a count per event; a count is all
that matters there, because every total of an edge is a sum, minimum or maximum
over events.  `ChangeFeed` has one worker, and users who call `Compact` and `Reset`
one at a time; `Analysis` composes both with readers: they share versions, base
and calibrator.  `Temporal` composes the worker and `Reset` with a reader of the
histories.  A callback's
call in `EngineLifecycle` is made while `Process` holds the worker.

### EngineCore

One variable per shared field of `Engine`, a program counter per goroutine, and
what a goroutine carries between two accesses (`ev`, `seen`, `mine`).

| code | actions |
|---|---|
| `processEvent` | `TakeEvent`, `ExtendOverlay`, `PublishEvent`, `CountEvent`, `DecideCompact` |
| `doCompact` | `LockBase`, `MergeBase`, `FreshVersion`, `SwapOverlay`, `ZeroCount`, `SpawnSave` |
| the save goroutine | `FinishSave`, `FailSave` |
| `Compact` | `CallCompact`, then the steps of `doCompact` |
| `Reset` | `CallReset`, `ResetCount`, `ResetFresh`, `ResetSwap` |
| `Snapshot`, `Close` | `AcquireVersion`, `ReadBase`, `CloseSnapshot` |

Two accesses share a step only where the second is invisible to everybody else
(receiving an event and loading the version to extend) or made under `baseMu`.
`log` and `since` are history variables: the order of publication, and how much
of it there was when a reader asked.  `Compact`'s test that the engine runs is
left to `EngineLifecycle`: users call it while it does.

### EngineLifecycle

A context is the number of the `Start` that made it.  `ctx` and `cancel` are
assigned in steps of their own, as the Go assignment may be observed; a
goroutine evaluates `ctx` when it enters its `select` and then waits on what it
found, which is why a second `Start` can leave the first worker behind.  Waiting
in a `select` with several ready cases is one action per case.  `Tickers` is
`gcWorker` and, with a cache, `cacheEvictionWorker`; what they do at a tick is
`VersionGC`'s.  `Inner` are the calls that callbacks make: `Process` may hand an
event to a callback that makes one of them, and `CallbackDone` keeps the worker
from going on until that call has returned.  `before` and `processed` are
history.

### VersionGC

`Acquire` is split at the load and the count.  `Collect` holds the collector's
mutex while `at = "sweep"`; it looks at the tracked versions in any order, as a
Go map is ranged over, one step each.  Ages are "young", "old" (past the
warning timeout) and "ancient" (past the force timeout); time is an action.
The cache holds one entry per version; `Set` overwrites, expired entries miss.

### GraphStore

A graph is two functions, from names to nodes and from pairs of names to edges.
An operator makes one graph of another as a function of the source does.  The
view's `MergeEdges` is one thing, and what compaction and loading do is another:
`MergedEdge` adds a whole edge as if it were one event at its first time
(`AddEdge`, by `EdgeAdded`), then adds the count less one and raises the last time;
`RebuiltEdge` adds the edge to an empty graph and then sets its count and last
time.  Degrees are counted as the source counts them, once more with each
rebuilding.  That the view is the same before and after is what
`ImplementsEdgeLedger` finds out.  Saving copies every field and is the identity.
`Restart` is a new engine on the same storage; saves in flight may be lost with
the old one or still finish.

### Tension, ChangeFeed, Analysis, Temporal, Measures

| code | definitions |
|---|---|
| `UnifiedView`, as analyses use it | `Merge`, `Outs`, `Ins`, `Neighbors`, `Weight` |
| `Calculate`, `CalculateAllParallel` | the same names, `partitionNodes` |
| `SerializeCSR`, `SerializeCSC`, `ComputeNodeTensionF32` | `SerializeCSR`, `SerializeCSC` (with `Fill`), `ComputeNodeTension`, `collectNeighbors` |
| `processEvent`, its part after the store | `Process`, `MergeBase`, `SwapOverlay`, `Announce` |
| `checkAnomalies` | `ExamineSource`, `ExamineTarget`: one turn of its loop each |
| `TensionHistory`, `MADCalibrator` | `Push`, `Latest`, `Previous`, `Slice`; `Observe`, `Baseline` |
| `Analyze`, `AnalyzeNode`, `AnalyzeRegion` | `Ask` (cache), `Route`, `Dispatch`, `CalculateTensions`, `Visit` per node, `Answer` |
| `GoSLBackend` | `Available`, `Serialization`, `Dispatch`, `CloseBackend` |
| `Analyze`, its temporal summary | `ReadPrevious`, `ReadTrends`: one read lock each; `TensionSpike`, `Decay`, `Critical`, `Healing`, `ClassifyPhase` |
| `Compact`, `Reset`, on this data | `CompactBase`, `CompactSwap`, `CompactCount`; `ResetBase`, `ResetCount`, `ResetSwap` |
| `CurvatureCalculator` | `BfsDistances`, `BuildMeasure`, `BuildCostMatrix`, `Curvature` |
| concealment, connectivity, detectability | `Expand`, `Concealment`; `BfsOrders`, `Cheeger`, `FiedlerApprox`, `VelocityOfSilence`; `SNRAbove`, `Classify`, `CPS` |
| the results of `Analyze`, `AnalyzeNode`, `AnalyzeRegion` | `FullNode`, `Full`; `AnalyzeNode`; `RegionNode`, `Region` |

A graph is a function from edges to weights; distributions are integers that add
up to `Scale`, and the divergence of two is the sum of their differences.  The
program takes the divergence as a parameter (the backend ignores it and always
uses Jensen-Shannon's), and the properties ask for the same distributions in
the same graph, not for a formula.  Rounding is not modelled.  The two goroutines
that touch the calibrator take a step per observation; a turn of
`checkAnomalies` is one step, for nobody else writes what it reads.  The model
keeps a calibrator's observations up to the warm-up: later ones are kept by the
program and not read.  A key joins sorted ids with a comma, and ids hold none: it
is modelled as the bag of the ids.
`samples` is history, and so is `bases`: the bases that the engine has had since
each version was stored, which are those that a snapshot of the version may have
been opened with.  `Process` loads the current version and stores the next in one
step: that another writer may undo one of them there is `EngineCore`'s.  A user's
call takes its steps between any two of the worker's or the readers', one access
each; nobody tells the subscriber of it, so the part of `FeedAddsUp` that is about
the graph holds until the first.  `Temporal` leaves `Compact` to `Analysis`: what it
drops beside the worker is no `Reset`'s, and would be a loss of its own kind.

`Measures` has no concurrency; its one variable of interest is a view that takes
in one event after the other, so that a run visits every graph within the bounds.
Quantities are exact: a quotient is kept as numerator and denominator, a mean as
its sum, and a square root by its square.  `Transport`, what the Sinkhorn iteration
returns, is a constant operator: a hundred rounds that end on the rows give
neither the least cost nor the same for the two measures exchanged, so nothing
is assumed of it and no bound or symmetry of curvatures is stated.  The three
analyses each have operators of their own, down to the loops that find the mean
and the maximum of a region, because they are copies in the source.  Where the
code ranges over a Go map and the order shows in the result, as in the search of
`FiedlerApprox`, the operator gives the set of results.  The decay exponent in `Temporal` depends on
the clock: its sign is exact and its size anything.

## 3. Runs

Every passing run explores its whole state space.

| run | instance | what it shows |
|---|---|---|
| `core_worker` | one worker, four events, two readers, threshold two, storage that may fail | each event counted once at each step; snapshots are prefixes and count nothing more than twice; the overlay counter is right; storage stays behind the base; the store implements `EventLedger` |
| `core_users` | one worker, one event, two users with two calls of `Compact` or `Reset`, one reader; fair | nothing invented; every event gets published, every snapshot opens, every call returns |
| `core_compact` | one worker, one user of `Compact` | **violated**: `Compact` beside the worker drops or doubles an event |
| `life_race` | a `Start`, an auto-starting producer of three events, a `Stop`, a ticker, a parent context that may be cancelled | events conserved and in their batch's order, the WaitGroup exact and never negative, the channel within its size; an engine that is started and has no worker has a done context, so that no producer waits on it for ever |
| `life_feed` | two producers and one inside a callback, a `Stop`, channel of one; fair | what was accepted before `Stop` is processed when it returns; accepted events get processed, unless the engine is being stopped or stays so; `AddEvents` and `Stop` return, unless a callback is waiting for its own worker |
| `life_stop_hangs` | two auto-starting producers and a `Stop`; fair | **violated**: `Stop` never returns |
| `gc_cache` | two readers, versions 0 and 1, forced release on; fair | counts exact; nothing held or current collected; no entry without its version; entries and orphans go away |
| `graph_view` | two nodes (so loops and both directions), times 1 and 2, three events, three compactions or restarts | layers are well formed, overlay degrees and last times exact, the view implements `EdgeLedger` |
| `analysis` | two events over an edge out of a node and an edge into it; a user who calls `Compact` or `Reset` once; one reader with four openings or requests (all, one node, a region); a backend from two nodes on | an answer of the calculator is that of one view of its version; one of the backend, which may be stale, is for the nodes of such a view and of one graph of its size |
| `analysis_stale` | three events, no compaction, full analyses only | **violated**: the backend's answer is not what the calculator finds |
| `temporal` | three events over a loop and a path, compaction at two, a `Reset`, histories of two, one reader at a time opening and comparing | deltas add up to the graph and tell each turn of a trend, histories exact; nodes count as lost only when `Reset` dropped them or the snapshot is older than they are; the trends of an analysis are those of the feed and come with a spike |
| `measures` | every multigraph of four events over four nodes | kernel and calculator agree; the costs of a curvature's transport are distances; the concealment walk counts each node once; a region is connected just when the estimate is positive, whatever the order of neighbors; the analyses of all nodes, of their region and of each of them agree |

### Bounds, and why they are enough

* `core_worker`: four events and a threshold of two give two full compactions,
  so a snapshot can straddle one, hold its base across the next, and two saves
  can overtake each other.  `MaxID = 6` is never reached short of the end: four
  events and two compactions use six ids.
* `core_users`: one event already allows every overlap of worker, two
  compactions and two resets, because a user interferes with one `processEvent`
  at a time; `MaxID = 4` fits one event, its compaction and two calls.
* `life_race`: `MaxStarts = 2` is one explicit and one automatic start; a third
  would repeat the second.  A batch of three over a channel of two fills the
  channel and leaves a drain of several events.
* `life_feed`: three producers over a channel of one give a full channel, a
  blocked call inside a callback, and a restart after `Stop`.  `MaxStarts = 3` is
  the given start and two more, which may race each other or a `Stop`.
* `gc_cache`: two versions are a current and an old one; two readers suffice
  for one to hold what the other lets go.  The proofs cover more.
* `graph_view`: three events are an edge, its repetition and another, with
  compactions before, between and after.  One weight is enough for a sum to be
  wrong; two times are enough for a minimum or maximum to be.
* `analysis`: two events and one call are enough for a graph to be replaced by
  another with as many edges, before or after the backend has serialized the
  first; an edge may be repeated, or come back after a `Reset`; and a snapshot may
  open across the compaction.  The worker's own compaction, which writes base and
  overlay as the user's does, is left to `temporal`: the threshold of nine is out of reach.
  Three nodes are the fewest where a neighbour has edges to others, which the
  tension is made of; the limits of one (512 in the program) put a node with two
  edges beyond the kernel's buffers.  Four are one opening with three requests, so
  that answers come from the cache, or two openings of different versions with a
  request each.  `WarmupSize = 1`, here and in `temporal`, keeps the calibrator small;
  no property of these runs is about its threshold.
* `temporal`: three events with a compaction after the second wrap a history of two
  and repeat an edge across the compaction, a loop samples its node twice
  in one event, and a path leaves a node for `Reset` to drop while others stay;
  the loop's two samples are enough for a comparison after one event.  One
  `Reset` at any point, between the steps of a reader and
  between two events, is what a second would do again.
* `measures`: four nodes put the ends of a path three edges apart, which is as
  far as the walks from the two ends of an edge reach.  `Farthest` stands for
  `Transport`: it tells apart the measures, which of the two comes first, and the
  costs, so that a copy of the code that took another edge or direction would
  show.  `Scale = 120` and a walk
  that stays with one half make every share of a walk a whole number.  Four
  events give a graph of four edges, or one with a weight above one.

`CHECK_DEADLOCK FALSE` stands in the lifecycle configurations because the
program stops there: callers make one call each and an idle worker waits for
ever.  It stands in the graph, analysis, temporal and measures configurations because
events, rounds, requests and calls of `Compact` and `Reset` are bounded.  The core and
collector runs do check for deadlock: readers can always go on.

Symmetry (`core_worker`) permutes events and readers, which the
module treats alike; liveness runs use none.

### Fairness

* The Go scheduler runs every goroutine that can run: weak fairness on the steps
  of each worker and each started call.  Nothing makes a user start a call, and
  nobody has to close a snapshot or call `Stop`.  A call made by a callback is
  under way as any other once its callback runs, and gets the same fairness; the
  callback returns when its calls have.
* A reader waiting for `baseMu.RLock` is not overtaken for ever by writers, and
  writers are finitely many: weak fairness is enough in `core_users`.
* A `select` with several ready cases picks one at random: strong fairness for
  a case that is ready again and again, namely a done context against ticks,
  and a send or a done context for a blocked producer.
* The tickers of the two background workers keep firing and time passes: weak
  fairness for `StartCollect`, `EvictExpired`, `GrowOld` and `Expire`.

### Mutants

Each property of a passing run has a slip: the same definition as a plausible bug would leave it
(`SlipLeave`, `SlipTrack`, `SlipRegionNode`, ...), written beside the right one.
Put in its place, TLC finds the property violated in the same configuration.

## 4. What is proved

Theorems are for all values of the constants that satisfy the named `ASSUME`s
(disjoint sets of goroutines, finite sets where a cardinality is taken).

| theorem | states | further assumption |
|---|---|---|
| `EngineCoreProofs!TypeCorrect` | `TypeOK` of `EngineCore` | none |
| `EngineCoreProofs!FrozenVersions` | `VersionsFrozen` | none |
| `EngineCoreProofs!NothingIsInvented` | `NothingInvented` | none: any number of workers and users |
| `EngineCoreProofs!ExactlyOnceHolds` | `ExactlyOnce` | one worker, no users |
| `EngineCoreProofs!MonotoneVersions` | `VersionMonotone` | one worker, no users |
| `EngineCoreProofs!OverlayStaysBounded` | `OverlayBounded` | one worker, no users |
| `EngineCoreProofs!StorageIsBehind` | `StorageNeverAhead` | nobody calls `Reset` |
| `EngineCoreProofs!EngineImplementsLedger` | `ImplementsLedger` | one worker, no users |
| `EngineCoreProofs!SnapshotsShowPrefixes` | `SnapshotPrefix` | one worker, no users |
| `EngineLifecycleProofs!TypeCorrect` | `TypeOK` of `EngineLifecycle` | none |
| `EngineLifecycleProofs!WgCorrect` | `WgExact` | none: any number of racing `Start`s |
| `EngineLifecycleProofs!EventsConserved` | `Conserved` | none |
| `EngineLifecycleProofs!DeafContextDone` | `DeafIsDone` | none |
| `EngineLifecycleProofs!BatchesOrdered` | `BatchOrder` | none |
| `EngineLifecycleProofs!StopDrainsAll` | `StopDrains` | started once, one `Stop`, no cancellation from outside |
| `VersionGCProofs!TypeCorrect` | `TypeOK` of `VersionGC` | none |
| `VersionGCProofs!RefsAlwaysExact` | `RefsExact` | none |
| `VersionGCProofs!HeldAlwaysTracked` | `HeldTracked` | none |
| `VersionGCProofs!CurrentAlwaysKept` | `CurrentKept` | none |
| `VersionGCProofs!CacheAlwaysCovered` | `CacheCovered` | none |
| `GraphStoreProofs!TypeCorrect` | `TypeOK` of `GraphStore` | none |
| `GraphStoreProofs!ViewAlwaysClosed` | `ViewClosed` | none |
| `GraphStoreProofs!OverlayDegreesExact` | `OverlayDegreeExact` | none |
| `GraphStoreProofs!StoreImplementsLedger` | `ImplementsEdgeLedger` | none |
| `GraphStoreProofs!LastSeenAlwaysExact` | `LastSeenExact` | none |
| `TensionProofs!KernelAgreement` | `Agree`, of every graph over `NodeIds`; `CalculateAllParallel` is `Calculate` of each node | none |
| `AnalysisProofs!TypesCorrect` | `TypeOK` of `Analysis` | none |
| `AnalysisProofs!HistoriesExact` | `HistoryExact` | none |
| `AnalysisProofs!FeedComplete` | `FeedAddsUp` | none |
| `AnalysisProofs!AnswersAreExact` | `AnswersExact` | none |
| `TemporalProofs!LossesExplained` | `LossExplained` | none: any number of calls of `Reset` |
| `TemporalProofs!TrendsAreFounded` | `TrendsFounded` | none |

`AnalysisInvariant` and `TemporalInvariant` state the inductive invariants of
their modules.  `FrozenVersions`, `MonotoneVersions` and `ViewAlwaysClosed` are
proved and no run repeats them.  The assumption of a single writer
(`SingleWriter` in the proofs) is the design the documents describe;
`core_compact` shows that `ExactlyOnce` is false with users.  `StorageIsBehind` needs that nobody calls `Reset`: a save spawned before
it finishes after the base is empty.  `StopDrainsAll` assumes `OneStop`: a second
`Stop`, called before the first has set its flags, may find the worker gone that
would drain what was accepted since, and so may a `Stop` after the owner of
the context has cancelled it.
`BatchOrder` and `LastSeenExact` speak themselves of one `Start` and of ordered
timestamps.

### The arguments

* **EngineCore, types.**  The snapshot counter stays natural because it equals
  the number of readers that are not idle; that equality is carried along.
* **EngineCore, nothing invented.**  `NothingInvented` is not inductive: a worker
  about to store a version, a compaction about to merge one and a save in
  flight carry events that are in no shared field.  The strengthening `Backed`
  says that the versions that actors and readers have loaded, and the graphs
  being saved, count published events only; a version allocated and not stored
  counts at most the event in its worker's hands.
* **EngineCore, one writer.**  `SingleInv` says where the worker is in relation
  to the shared state: the version it loaded is still the current one, the id it
  allocated is the newest, the overlay of its unpublished version is the current
  overlay plus the event in its hands, an event in hand has not been published,
  and between the base swap and the overlay swap the base includes the overlay.
  `ExactlyOnce` and `VersionMonotone` follow.
* **EngineCore, refinement.**  `Contents` maps the store to the ledger: the base
  alone while a compaction is between its two swaps, else base plus overlay.
  Publishing is `Accept`, the three steps of a reader are `Ask`, `Open` and
  `Close`, and everything else stutters.  The step `ReadBase` needs that what
  was published when the snapshot was asked for is still in base or overlay:
  a floor under the version a reader holds and the base it is about to read.
* **EngineCore, bounds.**  The overlay counter is behind the overlay by one between
  `PublishEvent` and `CountEvent`, stale from `SwapOverlay` to `ZeroCount`, and right
  everywhere else.  Without `Reset` the base only grows, and what a `Save` carries
  was the base once.  Until it reads the base, a reader would see a prefix of the
  log: the version it holds is frozen, and a merge brings the base to all that
  is published.  The base and an overlay each count an event once.
* **EngineLifecycle.**  A `Start` owns the worker and the tickers of its context
  from the step that makes the context to the step that spawns them (`Owned`):
  nobody else has that number, and none of them runs.  Hence spawning adds just
  what the WaitGroup was told, and leaving takes one away.  `Conserved` adds that
  a worker holds an event exactly while it processes it.  `DeafIsDone` needs
  `Served`: the newest context is always that of `ctx`, a worker waits on its own
  or on a later one, and one that has left did so because that one was done.
  `BatchOrder` follows a batch down the pipeline: what is processed, in hand and
  in the channel is in order from each to the next (`Pipelined`).  `StopDrains`
  needs that until the one `Stop` returns there is one context, which only it can end,
  and a worker that has left has processed what `Stop` found accepted (`Draining`).
* **VersionGC.**  `GCInv` adds to the types and the exact counts that no reader
  holds a version from the future, that what the sweep is to remove is tracked,
  old and unheld, and that versions in use by an open snapshot are tracked.
* **GraphStore.**  No edge was last seen before it was first seen (`TypeOK`).  For such
  edges an `AddEdge` at the first time, with the correction that follows it, makes
  what the view makes of the two (`MergeEdges`), or the edge itself when it is new:
  an edge seen last before it was first seen would get another last time.  Then adding an
  event to the overlay and merging the overlay into the base commute with the
  union of edges, which makes compaction invisible; the union is associative on
  common edges as sums, minima and maxima are.  That a load reverts needs the edges of every saved or saving base to be
  edges the view has shown, which is part of `StoreInv`.  `LastSeenExact` is about
  two layers and a view that takes a node from one of them: in each layer and saved
  graph a node's last time is that of its latest edge (`Timely`), no edge was seen
  after the clock (`Behind`), and none of the base after one of the overlay
  (`NoLater`).
* **Tension.**  A sum is a fold of the library, which takes the elements of a set in
  an order it chooses: that it is defined, and is one summand plus the rest, is
  shown by a least set where it would not be (`Minimal`).  Then a sum does not
  change when its index set is renamed (`SumRenamed`).  The serialized arrays are one
  block per node, as prefix sums say (`Fill`, `Numbered`), and numbers and nodes
  are in bijection.  Within the limits the kernel's buffer of neighbors misses
  none, a distribution over numbers is the one over nodes renamed, and so is
  its divergence: kernel and calculator sum the same.
* **ChangeFeed.**  `Ring` says where in the buffer the k-th latest sample is,
  without a remainder; pushing moves each one back, and `Slice`, `Latest` and
  `Previous` are read off it.  `Deltas` says what the subscriber lacks between the
  store of a version and its announcement: just the event in the worker's hands,
  told by the two overlays that the version ids name, though a compaction may come
  between.  While the base includes the overlay, the base alone is the graph.
  For the types, the calibrator's threshold is a natural number because medians
  of naturals are, and the overlay counts no more events than were processed.
* **ChangeFeed, the calls.**  A user's call comes between any two of the worker's
  steps, so `WorkerInv` speaks only of what no call disturbs: versions already
  stored, samples, histories and turns.  What compares the subscriber with the
  graph (`Deltas`) is carried along until the first call.
* **Analysis.**  No version changes, and no base that a version has had is forgotten
  (`Extends`), so what was right when it was computed stays right in the reader's
  hands and in the cache, where equal keys are of requests about the same nodes.
  That `bases` is the right set is `Remembered`: the engine's base is in the set of
  every version, so in that of the one a reader has acquired.  The backend holds
  the arrays of one such view, whichever (`Held`), and runs on them when they are as
  many: `KernelAgreement` makes its answer the calculator's for that graph.  That
  the graph is the reader's does not follow, and is not true.  The calculator's
  own answer rests on the chunks of `partitionNodes`, which cover the nodes for
  any number of workers.  `AnalysisTyped` carries the types: who computed a cached
  answer, and where a reader is.
* **Temporal.**  `Kept` follows the edges: until the next `Reset`, an edge of a version
  is in each later overlay or in the base, and in the base once a compaction has
  merged.  Compaction makes an overlay lose edges and `Reset` the base, so neither
  part holds without the other; a snapshot opened at any time has what `Kept` says
  then, and a node it does not see is one it is too old for or that `Reset`
  dropped.  `Drawn` says that each sample is its node's tension in its version's
  overlay, so with an empty base the tension that a reader compares is the latest
  sample of its version.  `Reading` says that what was read first is a prefix of
  the samples that there are at the second lock: with nothing come between, the
  trend is computed from the two samples that the spike was.

### What is only model-checked

* All liveness properties (`AllPublished`, `CallsReturn`, `StopReturns`,
  `AddReturns`, `AcceptedProcessed`, `GarbageGoes`): fairness is out
  of the prover's reach.  That an analysis returns is not checked: its steps wait
  for nothing but the backend's mutex, whose holder waits for nobody.
* The invariants of `Measures`.  Of these, `KernelAgrees` is what `KernelAgreement`
  proves of every graph, stated of the graphs the run visits.  `CostsAreDistances`,
  `ConcealmentExact` and `FiedlerSeesConnectivity` are about searches, which add a level
  or a node at a time, and `AnalysesAgree` about sums over a sequence of ids and over
  a set of nodes: each needs an induction, over the search or the sequence, that
  is not done.

## 5. Findings

Each is a run that TLC refutes, with the sentence of the documents it refutes
quoted in `PROJECT.json`.

1. **Compact beside the worker** (`core_compact`).  `doCompact` releases `baseMu`
   before it stores the empty overlay: an event published in between is lost.
   Two calls merge the same overlay twice.
2. **Stop hangs after racing auto-starts** (`life_stop_hangs`).  Both `Start`s
   pass the check, the second overwrites `ctx` and `cancel`; `Stop` cancels one
   context and waits for both workers.
3. **Stale arrays** (`analysis_stale`).  The backend takes the arrays of its last
   run for those of any graph with as many nodes and edges
   (`gpu/gosl_backend.go:95`).  An event on an edge that is there changes neither
   number, and the answer has the old weights; after `a->b` is analysed, a `Reset` and
   `c->d`, it has the old nodes, and the new ones count as zero.  `AnswersExact` says
   what remains true of such an answer: it is of one graph, never of two mixed.

Disagreements with the documents that no run is spent on.  The passing runs do
not hide them: each says what the named property leaves open.

* **Torn snapshots.**  `Snapshot` loads the version, then the base
  (`engine.go:208`); when the worker compacts in between, the snapshot has the
  overlay and the base that includes it, and counts those events twice.
  `README.md:97` of the repository promises "a consistent point-in-time view".
  `SnapshotPrefix` allows twice and no more.
* **A stopped engine accepts.**  `Stop` clears `started`, so the next `AddEvent` starts
  the engine again (`engine.go:172`), with a context that no caller cancels, and
  accepts.  `docs/ITT-SDK-API-REFERENCE (1).md:189` has `Stop` end acceptance ("Para
  de aceitar novos eventos"), `:215` wants of `AddEvent` "DEVE retornar erro se engine
  parada" and `:228` lists `ErrEngineStopped`; `docs/ITT-SDK-IMPLEMENTATION-GUIDE
  (1).md:236` says "Evento após Stop() deve retornar erro".  In the model it is
  `CheckStarted` of an engine that a `Stop` has returned from; `AcceptedProcessed` says
  only that an engine started in this way processes what it accepts.
* **Half a batch.**  `AddEvents` sends event by event (`engine.go:200`); a `Stop` in
  between makes it fail with part of the batch accepted.  The reference says
  "Semântica de batch - todos ou nenhum" (`:237`).  `BatchOrder` says that the part is
  a prefix.

Smaller ones:

* Compaction and loading copy a node's degrees and then add its edges, which
  counts them again (`compact/compact.go:51`); `OverlayDegreeExact` holds of the
  overlay because nothing is ever added to it that way.
* The trends of an analysis compare tensions of base and overlay with samples the
  worker took on the overlay alone; hence the condition on the base in
  `TrendsFounded`.  A sample that comes between the two read locks can give a
  trend without a spike.
* A snapshot older than a node takes it for lost, and may report a damaged region.
* The copies in `Results.Anomalies` are made before trends are set: theirs stay
  "stable".
* A loop counts once in the mean curvature of `Analyze` and twice in that of
  `AnalyzeNode` and `AnalyzeRegion`; `AnalysesAgree` says so.
* The calibrator's warm-up may complete during an analysis, which then mixes two
  thresholds; repeating an analysis feeds it the same tensions again, and
  `Observe` keeps what it is given for ever.
* The results cache keeps a full analysis with the temporal summary of its first
  computation.  Its key for a region joins ids with commas.
* `OldestRemoved` uses zero for unset, which is the id of the first version.
* `FiedlerApprox` calls its value a lower bound; it comes from one cut of one
  search, and the modules check that it tells connected regions apart, not that
  it bounds anything.

## 6. Not modelled, and why

* What Sinkhorn's algorithm computes (any number, see section 2), `FiedlerValue` (a power
  iteration that the engine never calls), median and standard deviation, the
  sigmoid and the exponentials: floating point without a state.
* Curvature, threshold, aggregation and divergence functions that the user sets:
  the modules model the built-in ones (of divergences, any that sums differences).
* `CurvatureShock`, for which `Analyze` passes no curvatures, and `EstimateAge`.
* Callbacks that analyse a snapshot: the hang they can run into, a read lock taken
  again behind a waiting writer, needs a second worker.  A callback that calls
  `Stop` waits for its own goroutine; the model has it, no passing run does.
* The WebGPU pipeline and float32: the kernel is modelled as it runs on the CPU.
* Statistics, aggregation, export, the builder's setters: plain data.
* Types and attributes of nodes and edges; in- and out-degrees apart from their
  sum; neighbour sets, which the edges determine.
* `GC.Start` and `GC.Stop`, `ResultsCache.Clear`, `Controller.Store` with nil:
  the engine never calls them so.
* Wrap-around of the 64-bit version ids and counters: out of reach in practice.
* Go's memory model below atomics: `ctx`, `cancel`, `startTime` and `lastCompact`
  are plain fields read and written without a lock; the model lets their
  accesses interleave but not tear.

## 7. Plan

Done: `EngineCore` with `EventLedger`, `EngineLifecycle`, `VersionGC`,
`GraphStore` with `EdgeLedger`, `Tension` with `ChangeFeed`, `Analysis`, `Temporal`
and `Measures`, and the proofs in section 4.  Left, in order:

1. **Proofs for Measures**: that the region of all nodes gets what the full analysis
   gives, by splitting the sum over a node's edges into those out of it and those
   into it; then the searches, level by level.
2. **Two workers on the histories**: the lock of the histories with callbacks
   that analyse, after racing starts.
3. **Composition**: `EngineCore` under `EngineLifecycle`, so that `Compact` and
   `Reset` race `Stop`, if it stays within reach of TLC.
