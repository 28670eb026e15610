----------------------------- MODULE EngineCore -----------------------------
(***************************************************************************)
(* The engine's store of events: the worker that turns queued events into  *)
(* new versions of the overlay, compaction (by the worker itself and by    *)
(* any goroutine that calls Compact), Reset, the asynchronous Save that    *)
(* follows a compaction, and the readers that open and close snapshots.    *)
(*                                                                         *)
(* A graph is abstracted to how many times it counts each event (a bag):   *)
(* edge weights and counts are sums over events, so adding an event,       *)
(* merging an overlay into a base and the unified view of the two are bag  *)
(* sums.  Every atomic pointer, counter and lock of the source is accessed *)
(* in a step of its own; consecutive accesses are joined only where no     *)
(* other goroutine can tell the difference.                                *)
(***************************************************************************)
EXTENDS Integers, Sequences, FiniteSets

CONSTANTS
    Events,      \* the events producers put on the channel, each one distinct
    Workers,     \* worker goroutines; Start spawns one
    Users,       \* other goroutines that call Compact and Reset
    Readers,     \* goroutines that open and close snapshots
    Calls,       \* what Users may call: a subset of {"Compact", "Reset"}
    Strategy,    \* "volume", "time" or "manual" (config.compactionStrategy)
    Threshold,   \* config.compactionThreshold
    HasStorage,  \* config.storage # nil
    SaveMayFail, \* whether the storage may return an error from Save
    MaxID,       \* bound: the last version id a behaviour may allocate
    MaxCalls,    \* bound: how many calls Users make in a behaviour
    Free,        \* baseMu is not held
    NoEvent      \* a worker that has not received an event yet

Actors == Workers \cup Users

ASSUME ActorsAssumption == Workers \cap Users = {} /\ Free \notin Actors
ASSUME NoEventAssumption == NoEvent \notin Events
ASSUME CallsAssumption == Calls \subseteq {"Compact", "Reset"}
ASSUME StrategyAssumption == Strategy \in {"volume", "time", "manual"}
ASSUME BoundsAssumption ==
    Threshold \in Int /\ MaxID \in Nat /\ MaxCalls \in Nat
ASSUME ReadersAssumption == IsFiniteSet(Readers)
ASSUME StorageAssumption == HasStorage \in BOOLEAN /\ SaveMayFail \in BOOLEAN

VARIABLES
    pending,         \* events on eventCh, or about to be sent there
    base,            \* Engine.base
    baseMu,          \* the actor that holds baseMu for writing, or Free
    graph,           \* the overlay of each version, by version id
    current,         \* id of the version vc points to
    versionID,       \* Engine.versionID
    overlayCount,    \* Engine.overlayCount
    eventsTotal,     \* Engine.eventsTotal
    pc,              \* where each actor is
    ev,              \* the event a worker is processing
    seen,            \* the version an actor loaded from vc
    mine,            \* the version id an actor allocated
    calls,           \* calls made by Users so far
    saving,          \* Save goroutines in flight
    stored,          \* what the storage holds
    status,          \* of each reader: "idle", "acquired" or "open"
    held,            \* the version a reader's snapshot holds
    heldBase,        \* the base a reader's snapshot holds
    snapshotsActive, \* Engine.snapshotsActive
    log,             \* history: the events whose version was published, in order
    since            \* history: Len(log) when a reader called Snapshot

engineVars == <<base, baseMu, graph, current, versionID, overlayCount, eventsTotal>>
actorVars == <<pending, pc, ev, seen, mine, calls>>
storageVars == <<saving, stored>>
readerVars == <<status, held, heldBase, snapshotsActive, since>>
vars == <<engineVars, actorVars, storageVars, readerVars, log>>

-----------------------------------------------------------------------------
(* Graphs as bags of events. *)

IDs == 0 .. MaxID
Graphs == [Events -> Nat]
EmptyGraph == [e \in Events |-> 0]
WithEvent(g, e) == [g EXCEPT ![e] = @ + 1]
Merge(b, o) == [e \in Events |-> b[e] + o[e]]
Support(g) == {e \in Events : g[e] > 0}
Applied(n) == {log[i] : i \in 1 .. n}
Published == Applied(Len(log))

(* Slip: strictly more events than the threshold. *)
SlipShouldCompact == CASE Strategy = "volume" -> {overlayCount > Threshold}
                       [] Strategy = "time"   -> BOOLEAN
                       [] Strategy = "manual" -> {FALSE}

(* What shouldCompact may answer: elapsed time is not tracked, so under the *)
(* time strategy either answer is possible.                                 *)
ShouldCompact == CASE Strategy = "volume" -> {overlayCount >= Threshold}
                   [] Strategy = "time"   -> BOOLEAN
                   [] Strategy = "manual" -> {FALSE}

(* The version of the next id, created empty or with an event; nobody can  *)
(* reach it before it is stored in vc.                                     *)
AllocateVersion(a, g) ==
    /\ versionID < MaxID
    /\ versionID' = versionID + 1
    /\ mine' = [mine EXCEPT ![a] = versionID + 1]
    /\ graph' = [graph EXCEPT ![versionID + 1] = g]

Goto(a, from, to) == pc[a] = from /\ pc' = [pc EXCEPT ![a] = to]

-----------------------------------------------------------------------------
Init ==
    /\ pending = Events
    /\ base = EmptyGraph
    /\ baseMu = Free
    /\ graph = [v \in IDs |-> EmptyGraph]
    /\ current = 0
    /\ versionID = 0
    /\ overlayCount = 0
    /\ eventsTotal = 0
    /\ pc = [a \in Actors |-> "idle"]
    /\ ev = [w \in Workers |-> NoEvent]
    /\ seen = [a \in Actors |-> 0]
    /\ mine = [a \in Actors |-> 0]
    /\ calls = 0
    /\ saving = {}
    /\ stored = EmptyGraph
    /\ status = [r \in Readers |-> "idle"]
    /\ held = [r \in Readers |-> 0]
    /\ heldBase = [r \in Readers |-> EmptyGraph]
    /\ snapshotsActive = 0
    /\ log = << >>
    /\ since = [r \in Readers |-> 0]

-----------------------------------------------------------------------------
(* processEvent, one step per access to shared state. *)

(* Slip: an event received while baseMu is held is dropped. *)
SlipTakeEvent(w) ==
    /\ pc[w] = "idle"
    /\ pc' = [pc EXCEPT ![w] = IF baseMu = Free THEN "extend" ELSE "idle"]
    /\ \E e \in pending :
          /\ pending' = pending \ {e}
          /\ ev' = [ev EXCEPT ![w] = e]
    /\ seen' = [seen EXCEPT ![w] = current]
    /\ UNCHANGED <<engineVars, mine, calls, storageVars, readerVars, log>>

(* Receive an event and load the current version. *)
TakeEvent(w) ==
    /\ Goto(w, "idle", "extend")
    /\ \E e \in pending :
          /\ pending' = pending \ {e}
          /\ ev' = [ev EXCEPT ![w] = e]
    /\ seen' = [seen EXCEPT ![w] = current]
    /\ UNCHANGED <<engineVars, mine, calls, storageVars, readerVars, log>>

(* Copy the loaded overlay, add the event, number the new version. *)
ExtendOverlay(w) ==
    /\ Goto(w, "extend", "publish")
    /\ AllocateVersion(w, WithEvent(graph[seen[w]], ev[w]))
    /\ UNCHANGED <<base, baseMu, current, overlayCount, eventsTotal, pending, ev,
                   seen, calls, storageVars, readerVars, log>>

(* vc.Store of the version that carries the event. *)
PublishEvent(w) ==
    /\ Goto(w, "publish", "count")
    /\ current' = mine[w]
    /\ log' = Append(log, ev[w])
    /\ UNCHANGED <<base, baseMu, graph, versionID, overlayCount, eventsTotal,
                   pending, ev, seen, mine, calls, storageVars, readerVars>>

CountEvent(w) ==
    /\ Goto(w, "count", "decide")
    /\ eventsTotal' = eventsTotal + 1
    /\ overlayCount' = overlayCount + 1
    /\ UNCHANGED <<base, baseMu, graph, current, versionID, pending, ev, seen,
                   mine, calls, storageVars, readerVars, log>>

(* Compact, or go back for the next event. *)
DecideCompact(w) ==
    /\ \E yes \in ShouldCompact : Goto(w, "decide", IF yes THEN "lock" ELSE "idle")
    /\ UNCHANGED <<engineVars, pending, ev, seen, mine, calls, storageVars,
                   readerVars, log>>

-----------------------------------------------------------------------------
(* doCompact, run by a worker or by a user's call of Compact. *)

CallCompact(u) ==
    /\ "Compact" \in Calls
    /\ calls < MaxCalls
    /\ calls' = calls + 1
    /\ Goto(u, "idle", "lock")
    /\ UNCHANGED <<engineVars, pending, ev, seen, mine, storageVars, readerVars,
                   log>>

(* Slip: the version last allocated, which may not be published yet. *)
SlipLockBase(a) ==
    /\ Goto(a, "lock", "merge")
    /\ baseMu = Free
    /\ baseMu' = a
    /\ seen' = [seen EXCEPT ![a] = versionID]
    /\ UNCHANGED <<base, graph, current, versionID, overlayCount, eventsTotal,
                   pending, ev, mine, calls, storageVars, readerVars, log>>

(* Take baseMu and load the version to merge. *)
LockBase(a) ==
    /\ Goto(a, "lock", "merge")
    /\ baseMu = Free
    /\ baseMu' = a
    /\ seen' = [seen EXCEPT ![a] = current]
    /\ UNCHANGED <<base, graph, current, versionID, overlayCount, eventsTotal,
                   pending, ev, mine, calls, storageVars, readerVars, log>>

(* Slip: the overlay replaces the base. *)
SlipMergeReplaces(a) ==
    /\ Goto(a, "merge", "fresh")
    /\ base' = graph[seen[a]]
    /\ baseMu' = Free
    /\ UNCHANGED <<graph, current, versionID, overlayCount, eventsTotal, pending,
                   ev, seen, mine, calls, storageVars, readerVars, log>>

(* Install the merged base and release baseMu. *)
MergeBase(a) ==
    /\ Goto(a, "merge", "fresh")
    /\ base' = Merge(base, graph[seen[a]])
    /\ baseMu' = Free
    /\ UNCHANGED <<graph, current, versionID, overlayCount, eventsTotal, pending,
                   ev, seen, mine, calls, storageVars, readerVars, log>>

(* Slip: the new version keeps the overlay that was merged. *)
SlipFreshVersion(a) ==
    /\ Goto(a, "fresh", "swap")
    /\ AllocateVersion(a, graph[seen[a]])
    /\ UNCHANGED <<base, baseMu, current, overlayCount, eventsTotal, pending, ev,
                   seen, calls, storageVars, readerVars, log>>

FreshVersion(a) ==
    /\ Goto(a, "fresh", "swap")
    /\ AllocateVersion(a, EmptyGraph)
    /\ UNCHANGED <<base, baseMu, current, overlayCount, eventsTotal, pending, ev,
                   seen, calls, storageVars, readerVars, log>>

(* vc.Store of the empty overlay, outside baseMu. *)
SwapOverlay(a) ==
    /\ Goto(a, "swap", "zero")
    /\ current' = mine[a]
    /\ UNCHANGED <<base, baseMu, graph, versionID, overlayCount, eventsTotal,
                   pending, ev, seen, mine, calls, storageVars, readerVars,
                   log>>

(* Slip: a compare-and-swap loop that waits for a counter above zero. *)
SlipZeroCount(a) ==
    /\ Goto(a, "zero", IF HasStorage THEN "save" ELSE "idle")
    /\ overlayCount > 0
    /\ overlayCount' = 0
    /\ UNCHANGED <<base, baseMu, graph, current, versionID, eventsTotal, pending,
                   ev, seen, mine, calls, storageVars, readerVars, log>>

ZeroCount(a) ==
    /\ Goto(a, "zero", IF HasStorage THEN "save" ELSE "idle")
    /\ overlayCount' = 0
    /\ UNCHANGED <<base, baseMu, graph, current, versionID, eventsTotal, pending,
                   ev, seen, mine, calls, storageVars, readerVars, log>>

(* Slip: the merged overlay is added to the base that was read. *)
SlipSpawnSave(a) ==
    /\ Goto(a, "save", "idle")
    /\ baseMu = Free
    /\ saving' = saving \cup {[by |-> mine[a], data |-> Merge(base, graph[seen[a]])]}
    /\ UNCHANGED <<engineVars, pending, ev, seen, mine, calls, stored, readerVars,
                   log>>

(* Read the base again, under RLock, and hand it to a goroutine of its own. *)
SpawnSave(a) ==
    /\ Goto(a, "save", "idle")
    /\ baseMu = Free
    /\ saving' = saving \cup {[by |-> mine[a], data |-> base]}
    /\ UNCHANGED <<engineVars, pending, ev, seen, mine, calls, stored, readerVars,
                   log>>

(* A Save goroutine finishes, in any order relative to the others. *)
FinishSave(s) ==
    /\ saving' = saving \ {s}
    /\ stored' = s.data
    /\ UNCHANGED <<engineVars, actorVars, readerVars, log>>

(* Save returns an error: it is reported and nothing is tried again. *)
FailSave(s) ==
    /\ SaveMayFail
    /\ saving' = saving \ {s}
    /\ UNCHANGED <<engineVars, actorVars, stored, readerVars, log>>

-----------------------------------------------------------------------------
(* Reset. *)

CallReset(u) ==
    /\ "Reset" \in Calls
    /\ calls < MaxCalls
    /\ calls' = calls + 1
    /\ Goto(u, "idle", "resetcount")
    /\ baseMu = Free
    /\ base' = EmptyGraph
    /\ UNCHANGED <<baseMu, graph, current, versionID, overlayCount, eventsTotal,
                   pending, ev, seen, mine, storageVars, readerVars, log>>

ResetCount(u) ==
    /\ Goto(u, "resetcount", "resetfresh")
    /\ overlayCount' = 0
    /\ UNCHANGED <<base, baseMu, graph, current, versionID, eventsTotal, pending,
                   ev, seen, mine, calls, storageVars, readerVars, log>>

ResetFresh(u) ==
    /\ Goto(u, "resetfresh", "resetswap")
    /\ AllocateVersion(u, EmptyGraph)
    /\ UNCHANGED <<base, baseMu, current, overlayCount, eventsTotal, pending, ev,
                   seen, calls, storageVars, readerVars, log>>

ResetSwap(u) ==
    /\ Goto(u, "resetswap", "idle")
    /\ current' = mine[u]
    /\ UNCHANGED <<base, baseMu, graph, versionID, overlayCount, eventsTotal,
                   pending, ev, seen, mine, calls, storageVars, readerVars, log>>

-----------------------------------------------------------------------------
(* Snapshot and Snapshot.Close. *)

(* Count the snapshot and load the current version. *)
AcquireVersion(r) ==
    /\ status[r] = "idle"
    /\ status' = [status EXCEPT ![r] = "acquired"]
    /\ snapshotsActive' = snapshotsActive + 1
    /\ held' = [held EXCEPT ![r] = current]
    /\ since' = [since EXCEPT ![r] = Len(log)]
    /\ UNCHANGED <<engineVars, actorVars, storageVars, heldBase, log>>

(* Then, separately, read the base under RLock. *)
ReadBase(r) ==
    /\ status[r] = "acquired"
    /\ baseMu = Free
    /\ status' = [status EXCEPT ![r] = "open"]
    /\ heldBase' = [heldBase EXCEPT ![r] = base]
    /\ UNCHANGED <<engineVars, actorVars, storageVars, held, snapshotsActive,
                   since, log>>

(* Slip: closing a snapshot that is closed already. *)
SlipCloseSnapshot(r) ==
    /\ status[r] \in {"open", "idle"}
    /\ status' = [status EXCEPT ![r] = "idle"]
    /\ snapshotsActive' = snapshotsActive - 1
    /\ held' = [held EXCEPT ![r] = 0]
    /\ heldBase' = [heldBase EXCEPT ![r] = EmptyGraph]
    /\ since' = [since EXCEPT ![r] = 0]
    /\ UNCHANGED <<engineVars, actorVars, storageVars, log>>

CloseSnapshot(r) ==
    /\ status[r] = "open"
    /\ status' = [status EXCEPT ![r] = "idle"]
    /\ snapshotsActive' = snapshotsActive - 1
    /\ held' = [held EXCEPT ![r] = 0]
    /\ heldBase' = [heldBase EXCEPT ![r] = EmptyGraph]
    /\ since' = [since EXCEPT ![r] = 0]
    /\ UNCHANGED <<engineVars, actorVars, storageVars, log>>

-----------------------------------------------------------------------------
WorkerStep(w) ==
    \/ TakeEvent(w) \/ ExtendOverlay(w) \/ PublishEvent(w) \/ CountEvent(w)
    \/ DecideCompact(w)

CompactStep(a) ==
    \/ LockBase(a) \/ MergeBase(a) \/ FreshVersion(a) \/ SwapOverlay(a)
    \/ ZeroCount(a) \/ SpawnSave(a)

ResetStep(u) == ResetCount(u) \/ ResetFresh(u) \/ ResetSwap(u)

ReaderStep(r) == AcquireVersion(r) \/ ReadBase(r) \/ CloseSnapshot(r)

Next ==
    \/ \E w \in Workers : WorkerStep(w)
    \/ \E a \in Actors : CompactStep(a)
    \/ \E s \in saving : FinishSave(s) \/ FailSave(s)
    \/ \E u \in Users : CallCompact(u) \/ CallReset(u) \/ ResetStep(u)
    \/ \E r \in Readers : ReaderStep(r)

Spec == Init /\ [][Next]_vars

(* The Go scheduler runs every goroutine that can run, and a reader or     *)
(* writer of an RWMutex is not overtaken for ever: each goroutine's own    *)
(* steps are weakly fair.  Users and readers need not start new calls.     *)
Fairness ==
    /\ \A w \in Workers : WF_vars(WorkerStep(w) \/ CompactStep(w))
    /\ \A u \in Users : WF_vars(CompactStep(u) \/ ResetStep(u))
    /\ \A r \in Readers : WF_vars(ReadBase(r))

FairSpec == Spec /\ Fairness

-----------------------------------------------------------------------------
(* Properties. *)

Places == {"idle", "extend", "publish", "count", "decide", "lock", "merge", "fresh",
           "swap", "zero", "save", "resetcount", "resetfresh", "resetswap"}

(* Every variable has the shape the source gives it; a worker between        *)
(* receiving an event and publishing it has one; and the counter of active   *)
(* snapshots (atomic.Int64) never goes below zero.                           *)
TypeOK ==
    /\ pending \subseteq Events
    /\ base \in Graphs /\ graph \in [IDs -> Graphs]
    /\ baseMu \in Actors \cup {Free}
    /\ versionID \in IDs /\ current \in IDs
    /\ overlayCount \in Nat /\ eventsTotal \in Nat
    /\ pc \in [Actors -> Places]
    /\ ev \in [Workers -> Events \cup {NoEvent}]
    /\ \A w \in Workers : pc[w] \in {"extend", "publish"} => ev[w] \in Events
    /\ seen \in [Actors -> IDs] /\ mine \in [Actors -> IDs]
    /\ calls \in 0 .. MaxCalls
    /\ saving \subseteq [by : IDs, data : Graphs] /\ stored \in Graphs
    /\ status \in [Readers -> {"idle", "acquired", "open"}]
    /\ held \in [Readers -> IDs] /\ heldBase \in [Readers -> Graphs]
    /\ snapshotsActive \in Nat
    /\ log \in Seq(Events) /\ since \in [Readers -> Nat]

(* Between the base swap and the overlay swap of doCompact, base already     *)
(* counts the overlay that vc still points to.                               *)
Merging == \E a \in Actors : pc[a] \in {"fresh", "swap"}

(* What the engine has accepted, wherever it currently lies. *)
Contents == IF Merging THEN base ELSE Merge(base, graph[current])

(* With the single worker as the only writer, each event whose version was   *)
(* published is counted exactly once and no other event is counted, at every *)
(* point of processEvent and doCompact.                                      *)
ExactlyOnce ==
    \A e \in Events : Contents[e] = IF e \in Published THEN 1 ELSE 0

(* What a snapshot counts. *)
View(r) == Merge(heldBase[r], graph[held[r]])

(* An open snapshot sees exactly the first n published events for some n not *)
(* smaller than when Snapshot was called, although it reads the version and  *)
(* the base at different times: no event published before the call is        *)
(* missing, and none is seen without those before it.  However late the base *)
(* is read, no event is counted more than twice.                             *)
SnapshotPrefix ==
    \A r \in Readers : status[r] = "open" =>
        /\ \E n \in since[r] .. Len(log) : Support(View(r)) = Applied(n)
        /\ \A e \in Events : View(r)[e] <= 2

(* When the worker is back at the channel, the overlay counter agrees with   *)
(* the overlay that readers get, and stays below the compaction threshold,   *)
(* or at zero if the threshold, which Build does not check, is not positive. *)
OverlayBounded ==
    (Strategy = "volume" /\ \A a \in Actors : pc[a] = "idle") =>
        /\ overlayCount = Cardinality(Support(graph[current]))
        /\ overlayCount < Threshold \/ overlayCount = 0

(* Without Reset, the storage never holds an event more often than the base  *)
(* does, whatever the order in which Save goroutines finish or fail.         *)
StorageNeverAhead == \A e \in Events : stored[e] <= base[e]

(* With one writer and no Reset the engine implements the event ledger: no   *)
(* step of processEvent or doCompact adds, drops or repeats an event, and a  *)
(* snapshot opens on at least what was published when it was asked for.      *)
Ledger == INSTANCE EventLedger WITH
    ledger <- Contents,
    asked  <- [r \in Readers |-> Applied(since[r])],
    view   <- [r \in Readers |-> IF status[r] = "open" THEN Support(View(r)) ELSE {}]

ImplementsLedger == Ledger!Spec

(* A reader that looks at the current version twice never sees its id go     *)
(* back: with one writer ids are published in the order they are allocated.  *)
VersionMonotone == [][current' >= current]_vars

(* No step, of any actor, changes the overlay of an id already allocated:    *)
(* versions that snapshots hold are frozen, whoever races.                   *)
VersionsFrozen == [][\A v \in 0 .. versionID : graph'[v] = graph[v]]_vars

(* Whoever races, nothing counts an event that no worker ever published or   *)
(* is about to publish.                                                      *)
InHand == {ev[w] : w \in {x \in Workers : pc[x] = "publish"}}

NothingInvented ==
    /\ Support(base) \cup Support(graph[current]) \subseteq Published
    /\ Support(stored) \subseteq Published
    /\ \A v \in IDs : Support(graph[v]) \subseteq Published \cup InHand
    /\ \A r \in Readers : Support(View(r)) \subseteq Published

(* Every queued event is published, though the worker stops to compact. *)
AllPublished == \A e \in Events : <>(e \in Published)

(* A call of Compact or Reset returns, and a snapshot that was asked for     *)
(* opens: neither compaction nor Reset keeps baseMu.                         *)
CallsReturn ==
    /\ \A u \in Users : pc[u] # "idle" ~> pc[u] = "idle"
    /\ \A r \in Readers : status[r] = "acquired" ~> status[r] = "open"

-----------------------------------------------------------------------------
(* What the documents promise and concurrent calls break. *)

Quiet == \A a \in Actors : pc[a] = "idle"
Total == Merge(base, graph[current])

(* Compact may be called from any goroutine: once every call has returned,   *)
(* each published event is counted, and counted once.                        *)
CompactExact == Quiet => \A e \in Published : Total[e] = 1
=============================================================================
