------------------------------ MODULE VersionGC ------------------------------
(***************************************************************************)
(* Reference counts of graph versions, the garbage collector that stops    *)
(* tracking versions nobody holds and force-releases those held too long,  *)
(* and the cache of analysis results that it invalidates.                  *)
(*                                                                         *)
(* Acquire loads the current version and counts the reference in two       *)
(* steps, without the collector's mutex; Track and Collect take it.        *)
(* Collect reads each count in a step of its own.  Ages and expiry times   *)
(* are abstracted to what the code compares them with.                     *)
(***************************************************************************)
EXTENDS Integers, FiniteSets

CONSTANTS
    Readers,     \* goroutines that open, analyse and close snapshots
    MayForce,    \* config.gcSnapshotForce > 0
    MaxVersion   \* bound: the last version the writer publishes

Versions == 0 .. MaxVersion

ASSUME ReadersAssumption == IsFiniteSet(Readers)
ASSUME BoundAssumption == MaxVersion \in Nat /\ MayForce \in BOOLEAN

VARIABLES
    current,   \* the version the controller points to
    refCount,  \* Version.refCount
    tracked,   \* the keys of GC.versions
    age,       \* of a tracked version: young, past the warning or the force timeout
    warned,    \* the tracked versions OnWarning was called for
    at,        \* where the collector is
    latest,    \* the current version as Collect loaded it
    todo,      \* tracked versions Collect has not looked at yet
    toRemove,  \* those it will stop tracking
    removed,   \* RemovedVersions whose cache entries are not invalidated yet
    pc,        \* where each reader is
    held,      \* the version a reader loaded
    cache,     \* the entry of each version: absent, fresh or expired
    forced     \* history: the versions whose references were force-released

gcVars == <<at, latest, todo, toRemove, removed>>
trackVars == <<tracked, age, warned>>
readerVars == <<pc, held>>
vars == <<current, refCount, trackVars, gcVars, readerVars, cache, forced>>

Holders(v) == {r \in Readers : pc[r] \in {"acquired", "open", "computing"} /\ held[r] = v}

-----------------------------------------------------------------------------
Init ==
    /\ current = 0
    /\ refCount = [v \in Versions |-> 0]
    /\ tracked = {} /\ age = [v \in Versions |-> "young"] /\ warned = {}
    /\ at = "idle" /\ latest = 0 /\ todo = {} /\ toRemove = {} /\ removed = {}
    /\ pc = [r \in Readers |-> "idle"]
    /\ held = [r \in Readers |-> 0]
    /\ cache = [v \in Versions |-> "absent"]
    /\ forced = {}

(* The single writer publishes a new version (module EngineCore). *)
Publish ==
    /\ current < MaxVersion
    /\ current' = current + 1
    /\ UNCHANGED <<refCount, trackVars, gcVars, readerVars, cache, forced>>

(* Time passes for a tracked version, and for a cache entry. *)
GrowOld(v) ==
    /\ v \in tracked
    /\ age[v] # "ancient"
    /\ age' = [age EXCEPT ![v] = IF @ = "young" THEN "old" ELSE "ancient"]
    /\ UNCHANGED <<current, refCount, tracked, warned, gcVars, readerVars, cache, forced>>

Expire(v) ==
    /\ cache[v] = "fresh"
    /\ cache' = [cache EXCEPT ![v] = "expired"]
    /\ UNCHANGED <<current, refCount, trackVars, gcVars, readerVars, forced>>

-----------------------------------------------------------------------------
(* Snapshot: Controller.Acquire, then GC.Track. *)

LoadCurrent(r) ==
    /\ pc[r] = "idle"
    /\ pc' = [pc EXCEPT ![r] = "loaded"]
    /\ held' = [held EXCEPT ![r] = current]
    /\ UNCHANGED <<current, refCount, trackVars, gcVars, cache, forced>>

(* Slip: the count is set, not incremented. *)
SlipAcquire(r) ==
    /\ pc[r] = "loaded"
    /\ pc' = [pc EXCEPT ![r] = "acquired"]
    /\ refCount' = [refCount EXCEPT ![held[r]] = 1]
    /\ UNCHANGED <<current, trackVars, gcVars, held, cache, forced>>

Acquire(r) ==
    /\ pc[r] = "loaded"
    /\ pc' = [pc EXCEPT ![r] = "acquired"]
    /\ refCount' = [refCount EXCEPT ![held[r]] = @ + 1]
    /\ UNCHANGED <<current, trackVars, gcVars, held, cache, forced>>

(* Slip: Track gives up when the collector holds the mutex. *)
SlipTrack(r) ==
    /\ pc[r] = "acquired"
    /\ pc' = [pc EXCEPT ![r] = "open"]
    /\ tracked' = IF at = "sweep" THEN tracked ELSE tracked \cup {held[r]}
    /\ UNCHANGED <<current, refCount, age, warned, gcVars, held, cache, forced>>

(* Track replaces an entry that is there already: its age starts again. *)
Track(r) ==
    /\ pc[r] = "acquired"
    /\ at # "sweep"
    /\ pc' = [pc EXCEPT ![r] = "open"]
    /\ tracked' = tracked \cup {held[r]}
    /\ age' = [age EXCEPT ![held[r]] = "young"]
    /\ warned' = warned \ {held[r]}
    /\ UNCHANGED <<current, refCount, gcVars, held, cache, forced>>

(* Analyze finds no valid entry in the cache (a hit changes nothing), *)
MissCache(r) ==
    /\ pc[r] = "open"
    /\ cache[held[r]] # "fresh"
    /\ pc' = [pc EXCEPT ![r] = "computing"]
    /\ UNCHANGED <<current, refCount, trackVars, gcVars, held, cache, forced>>

(* and stores its result when it has computed it. *)
StoreResult(r) ==
    /\ pc[r] = "computing"
    /\ pc' = [pc EXCEPT ![r] = "open"]
    /\ cache' = [cache EXCEPT ![held[r]] = "fresh"]
    /\ UNCHANGED <<current, refCount, trackVars, gcVars, held, forced>>

(* Slip: Release does not look whether the count is zero. *)
SlipClose(r) ==
    /\ pc[r] = "open"
    /\ pc' = [pc EXCEPT ![r] = "idle"]
    /\ refCount' = [refCount EXCEPT ![held[r]] = @ - 1]
    /\ UNCHANGED <<current, trackVars, gcVars, held, cache, forced>>

(* Close releases the reference; Release does nothing at zero. *)
Close(r) ==
    /\ pc[r] = "open"
    /\ pc' = [pc EXCEPT ![r] = "idle"]
    /\ refCount' = [refCount EXCEPT ![held[r]] = IF @ > 0 THEN @ - 1 ELSE 0]
    /\ UNCHANGED <<current, trackVars, gcVars, held, cache, forced>>

ReaderStep(r) ==
    \/ LoadCurrent(r) \/ Acquire(r) \/ Track(r) \/ MissCache(r) \/ StoreResult(r)
    \/ Close(r)

-----------------------------------------------------------------------------
(* Collect, under the collector's mutex while at = "sweep". *)

(* Slip: the current version is the one a former sweep loaded. *)
SlipStartCollect ==
    /\ at = "idle"
    /\ at' = "sweep"
    /\ todo' = tracked /\ toRemove' = {}
    /\ UNCHANGED <<current, refCount, trackVars, latest, removed, readerVars, cache, forced>>

StartCollect ==
    /\ at = "idle"
    /\ at' = "sweep"
    /\ latest' = current
    /\ todo' = tracked /\ toRemove' = {}
    /\ UNCHANGED <<current, refCount, trackVars, removed, readerVars, cache, forced>>

(* The current version is never collected. *)
SkipCurrent(v) ==
    /\ at = "sweep" /\ v \in todo
    /\ v = latest
    /\ todo' = todo \ {v}
    /\ UNCHANGED <<current, refCount, trackVars, at, latest, toRemove, removed, readerVars,
                   cache, forced>>

(* Slip: version zero is not collected. *)
SlipCollectOrphan(v) ==
    /\ at = "sweep" /\ v \in todo
    /\ v # latest /\ refCount[v] = 0
    /\ todo' = todo \ {v}
    /\ toRemove' = toRemove \cup ({v} \ {0})
    /\ UNCHANGED <<current, refCount, trackVars, at, latest, removed, readerVars, cache,
                   forced>>

CollectOrphan(v) ==
    /\ at = "sweep" /\ v \in todo
    /\ v # latest /\ refCount[v] = 0
    /\ todo' = todo \ {v}
    /\ toRemove' = toRemove \cup {v}
    /\ UNCHANGED <<current, refCount, trackVars, at, latest, removed, readerVars, cache,
                   forced>>

(* Held for longer than the force timeout: release every reference. *)
ForceRelease(v) ==
    /\ at = "sweep" /\ v \in todo
    /\ v # latest /\ refCount[v] > 0
    /\ MayForce /\ age[v] = "ancient"
    /\ refCount' = [refCount EXCEPT ![v] = 0]
    /\ forced' = forced \cup {v}
    /\ todo' = todo \ {v}
    /\ toRemove' = toRemove \cup {v}
    /\ UNCHANGED <<current, trackVars, at, latest, removed, readerVars, cache>>

(* Held, and perhaps for longer than the warning timeout: warn once. *)
KeepHeld(v) ==
    /\ at = "sweep" /\ v \in todo
    /\ v # latest /\ refCount[v] > 0
    /\ ~ (MayForce /\ age[v] = "ancient")
    /\ warned' = IF age[v] = "young" THEN warned ELSE warned \cup {v}
    /\ todo' = todo \ {v}
    /\ UNCHANGED <<current, refCount, tracked, age, at, latest, toRemove, removed, readerVars,
                   cache, forced>>

(* Slip: id zero is taken for "no version", as OldestRemoved does. *)
SlipFinishCollect ==
    /\ at = "sweep" /\ todo = {}
    /\ tracked' = tracked \ toRemove
    /\ warned' = warned \ toRemove
    /\ removed' = toRemove \ {0}
    /\ at' = IF removed' = {} THEN "idle" ELSE "invalidate"
    /\ UNCHANGED <<current, refCount, age, latest, todo, toRemove, readerVars, cache, forced>>

FinishCollect ==
    /\ at = "sweep" /\ todo = {}
    /\ tracked' = tracked \ toRemove
    /\ warned' = warned \ toRemove
    /\ removed' = toRemove
    /\ at' = IF toRemove = {} THEN "idle" ELSE "invalidate"
    /\ UNCHANGED <<current, refCount, age, latest, todo, toRemove, readerVars, cache, forced>>

-----------------------------------------------------------------------------
(* gcWorker after Collect, and cacheEvictionWorker. *)

InvalidateVersion(v) ==
    /\ at = "invalidate" /\ v \in removed
    /\ cache' = [cache EXCEPT ![v] = "absent"]
    /\ removed' = removed \ {v}
    /\ at' = IF removed' = {} THEN "idle" ELSE "invalidate"
    /\ UNCHANGED <<current, refCount, trackVars, latest, todo, toRemove, readerVars, forced>>

(* Slip: entries of versions that are not tracked are left alone. *)
SlipEvictExpired ==
    /\ \E v \in tracked : cache[v] = "expired"
    /\ cache' = [v \in Versions |->
                    IF v \in tracked /\ cache[v] = "expired" THEN "absent" ELSE cache[v]]
    /\ UNCHANGED <<current, refCount, trackVars, gcVars, readerVars, forced>>

EvictExpired ==
    /\ \E v \in Versions : cache[v] = "expired"
    /\ cache' = [v \in Versions |-> IF cache[v] = "expired" THEN "absent" ELSE cache[v]]
    /\ UNCHANGED <<current, refCount, trackVars, gcVars, readerVars, forced>>

Sweep ==
    \/ \E v \in todo : SkipCurrent(v) \/ CollectOrphan(v) \/ ForceRelease(v) \/ KeepHeld(v)
    \/ FinishCollect
    \/ \E v \in removed : InvalidateVersion(v)

Next ==
    \/ Publish
    \/ \E v \in Versions : GrowOld(v) \/ Expire(v)
    \/ \E r \in Readers : ReaderStep(r)
    \/ StartCollect \/ Sweep \/ EvictExpired

Spec == Init /\ [][Next]_vars

(* The tickers of gcWorker and cacheEvictionWorker go on firing, time passes, *)
(* and Snapshot and Analyze do not stop half-way.  Nobody has to call Close.  *)
Fairness ==
    /\ WF_vars(StartCollect) /\ WF_vars(Sweep) /\ WF_vars(EvictExpired)
    /\ \A v \in Versions : WF_vars(GrowOld(v)) /\ WF_vars(Expire(v))
    /\ \A r \in Readers : WF_vars(Acquire(r)) /\ WF_vars(Track(r)) /\ WF_vars(StoreResult(r))

FairSpec == Spec /\ Fairness

-----------------------------------------------------------------------------
(* Properties. *)

(* Every variable has the shape the source gives it; no reference count goes *)
(* below zero, though a forced release races the Close of its holder.        *)
TypeOK ==
    /\ current \in Versions /\ latest \in Versions
    /\ refCount \in [Versions -> Nat]
    /\ tracked \subseteq Versions /\ warned \subseteq Versions
    /\ age \in [Versions -> {"young", "old", "ancient"}]
    /\ at \in {"idle", "sweep", "invalidate"}
    /\ todo \subseteq Versions /\ toRemove \subseteq Versions /\ removed \subseteq Versions
    /\ pc \in [Readers -> {"idle", "loaded", "acquired", "open", "computing"}]
    /\ held \in [Readers -> Versions]
    /\ cache \in [Versions -> {"absent", "fresh", "expired"}]
    /\ forced \subseteq Versions

(* A version's count is the number of snapshots that hold it, until the      *)
(* collector force-releases it.                                              *)
RefsExact == \A v \in Versions \ forced : refCount[v] = Cardinality(Holders(v))

(* A version with an open snapshot is tracked, and stays so until it is      *)
(* forced: Collect never takes a held version for an orphan, although        *)
(* Acquire counts its reference without the mutex.                           *)
HeldTracked ==
    \A r \in Readers :
        (pc[r] \in {"open", "computing"} /\ held[r] \notin forced) =>
            held[r] \in tracked \ toRemove \/ (held[r] \in tracked /\ at # "sweep")

(* The version readers get is never collected, though Collect loads it once  *)
(* and the writer goes on publishing.                                        *)
CurrentKept == at = "sweep" => current \notin toRemove

(* A cached result belongs to a version that is tracked or about to be       *)
(* invalidated: no entry outlives the collection of its version, unless a    *)
(* snapshot that was force-released is analysed again.                       *)
CacheCovered ==
    \A v \in Versions : (cache[v] # "absent" /\ v \notin forced) => v \in tracked \cup removed

Recomputed(v) == \E r \in Readers : pc[r] = "computing" /\ held[r] = v

(* Nothing stays for ever that nobody needs.  A version that is not current  *)
(* and that nobody holds is collected, unless a reader that had loaded it    *)
(* before takes it after all; and an entry of a version that is collected    *)
(* goes, by its expiry at the latest, unless a snapshot somebody kept after  *)
(* it was forced computes it anew.                                           *)
GarbageGoes ==
    \A v \in Versions :
        /\ (v \in tracked /\ v # current /\ Holders(v) = {}) ~>
              (v \notin tracked \/ Holders(v) # {})
        /\ (cache[v] # "absent" /\ v \notin tracked) ~>
              (cache[v] = "absent" \/ v \in tracked \/ Recomputed(v))
=============================================================================
