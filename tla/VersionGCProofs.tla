-------------------------- MODULE VersionGCProofs --------------------------
(* The safety of VersionGC for any readers and any number of versions: the  *)
(* reference counts are exact, and a version that is held or current is not *)
(* collected, nor are its cached results forgotten.                         *)
EXTENDS VersionGC, FiniteSetTheorems, TLAPS

-----------------------------------------------------------------------------
(* The inductive invariant. *)

(* Nothing is ahead of the writer: versions come from the current pointer.   *)
NotAhead ==
    /\ \A r \in Readers : held[r] <= current
    /\ \A v \in tracked : v <= current

(* What Collect knows while it holds the mutex: nothing is tracked meanwhile, *)
(* so the version it loaded is at least as new as all it looks at.            *)
SweepInv ==
    /\ at = "sweep" =>
          /\ todo \cup toRemove \subseteq tracked
          /\ \A v \in tracked : v <= latest
          /\ latest <= current
          /\ latest \notin toRemove
    /\ at # "invalidate" => removed = {}

(* A version in use is tracked, and not about to be removed. *)
Using(r) == pc[r] \in {"open", "computing"} /\ held[r] \notin forced

UsedTracked ==
    \A r \in Readers :
        Using(r) => held[r] \in tracked /\ (at = "sweep" => held[r] \notin toRemove)

GCInv == TypeOK /\ RefsExact /\ NotAhead /\ SweepInv /\ UsedTracked /\ CacheCovered

-----------------------------------------------------------------------------
(* Holders of a version. *)

(* Taking a version adds one to the number of its holders, and closing a     *)
(* snapshot takes one away.                                                  *)
LEMMA HolderCount ==
    ASSUME NEW v, NEW r \in Readers
    PROVE  /\ Cardinality(Holders(v)) \in Nat
           /\ r \notin Holders(v) =>
                 Cardinality(Holders(v) \cup {r}) = Cardinality(Holders(v)) + 1
           /\ r \in Holders(v) =>
                 /\ Cardinality(Holders(v)) > 0
                 /\ Cardinality(Holders(v) \ {r}) = Cardinality(Holders(v)) - 1
<1>1. IsFiniteSet(Holders(v))
  BY ReadersAssumption, FS_Subset DEF Holders
<1>2. Cardinality(Holders(v)) \in Nat
  BY <1>1, FS_CardinalityType
<1>3. r \notin Holders(v) => Cardinality(Holders(v) \cup {r}) = Cardinality(Holders(v)) + 1
  BY <1>1, FS_AddElement
<1>4. r \in Holders(v) => Cardinality(Holders(v) \ {r}) = Cardinality(Holders(v)) - 1
  BY <1>1, FS_RemoveElement
<1>5. r \in Holders(v) => Cardinality(Holders(v) \ {r}) \in Nat
  BY <1>1, FS_Subset, FS_CardinalityType
<1> QED BY <1>2, <1>3, <1>4, <1>5

(* A version that counts no reference has no holder. *)
LEMMA NoHolder ==
    ASSUME NEW v \in Versions, refCount[v] = 0, v \notin forced, RefsExact
    PROVE  Holders(v) = {}
<1>1. IsFiniteSet(Holders(v))
  BY ReadersAssumption, FS_Subset DEF Holders
<1> QED BY <1>1, FS_EmptySet DEF RefsExact

-----------------------------------------------------------------------------
(* The initial state. *)
LEMMA InitGC == Init => GCInv
<1> SUFFICES ASSUME Init PROVE GCInv
  OBVIOUS
<1>1. 0 \in Versions
  BY BoundAssumption DEF Versions
<1>2. TypeOK
  BY <1>1 DEF Init, TypeOK
<1>3. RefsExact
  <2>1. \A v \in Versions : Holders(v) = {}
    BY DEF Init, Holders
  <2> QED BY <2>1, FS_EmptySet DEF Init, RefsExact
<1>4. NotAhead /\ SweepInv
  BY DEF Init, NotAhead, SweepInv
<1>5. UsedTracked /\ CacheCovered
  BY DEF Init, UsedTracked, Using, CacheCovered
<1> QED BY <1>2, <1>3, <1>4, <1>5 DEF GCInv

-----------------------------------------------------------------------------
(* Steps of a reader. *)

(* The holders stay the same while no reader moves. *)
LEMMA RefsKept ==
    ASSUME RefsExact, UNCHANGED <<refCount, readerVars, forced>>
    PROVE  RefsExact'
BY DEF RefsExact, readerVars, Holders

(* A reader that loads the current version holds nothing yet. *)
LEMMA LoadGC ==
    ASSUME GCInv, NEW r \in Readers, LoadCurrent(r)
    PROVE  GCInv'
<1> USE DEF GCInv, TypeOK, LoadCurrent, trackVars, gcVars
<1>1. TypeOK'
  OBVIOUS
<1>2. RefsExact'
  <2>1. \A v : Holders(v)' = Holders(v)
    BY DEF Holders
  <2> QED BY <2>1 DEF RefsExact
<1>3. NotAhead'
  BY DEF NotAhead, Versions
<1>4. SweepInv' /\ CacheCovered'
  BY DEF SweepInv, CacheCovered
<1>5. UsedTracked'
  BY DEF UsedTracked, Using
<1> QED BY <1>1, <1>2, <1>3, <1>4, <1>5

(* Counting the reference makes the reader a holder. *)
LEMMA AcquireGC ==
    ASSUME GCInv, NEW r \in Readers, Acquire(r)
    PROVE  GCInv'
<1> USE DEF GCInv, TypeOK, Acquire, trackVars, gcVars
<1>1. TypeOK'
  OBVIOUS
<1>2. RefsExact'
  <2> SUFFICES ASSUME NEW v \in Versions \ forced
               PROVE  refCount'[v] = Cardinality(Holders(v)')
    BY DEF RefsExact
  <2>1. CASE v = held[r]
    <3>1. r \notin Holders(v) /\ Holders(v)' = Holders(v) \cup {r}
      BY <2>1 DEF Holders
    <3>2. refCount'[v] = Cardinality(Holders(v)) + 1
      BY <2>1 DEF RefsExact
    <3> QED BY <3>1, <3>2, HolderCount
  <2>2. CASE v # held[r]
    <3>1. Holders(v)' = Holders(v)
      BY <2>2 DEF Holders
    <3> QED BY <2>2, <3>1 DEF RefsExact
  <2> QED BY <2>1, <2>2
<1>3. NotAhead'
  BY DEF NotAhead
<1>4. SweepInv' /\ CacheCovered'
  BY DEF SweepInv, CacheCovered
<1>5. UsedTracked'
  BY DEF UsedTracked, Using
<1> QED BY <1>1, <1>2, <1>3, <1>4, <1>5

(* Track, and the steps of Analyze, keep the holders. *)
LEMMA HoldingGC ==
    ASSUME GCInv, NEW r \in Readers, Track(r) \/ MissCache(r) \/ StoreResult(r)
    PROVE  GCInv'
<1> USE DEF GCInv, TypeOK, trackVars, gcVars
<1>1. RefsExact'
  <2>1. \A v : Holders(v)' = Holders(v)
    BY DEF Holders, Track, MissCache, StoreResult
  <2> QED BY <2>1 DEF RefsExact, Track, MissCache, StoreResult
<1>2. CASE Track(r)
  <2>1. TypeOK'
    BY <1>2 DEF Track
  <2>2. NotAhead' /\ SweepInv'
    BY <1>2 DEF Track, NotAhead, SweepInv
  <2>3. UsedTracked' /\ CacheCovered'
    BY <1>2 DEF Track, UsedTracked, Using, CacheCovered
  <2> QED BY <1>1, <2>1, <2>2, <2>3
<1>3. CASE MissCache(r)
  <2>1. TypeOK'
    BY <1>3 DEF MissCache
  <2>2. NotAhead' /\ SweepInv' /\ CacheCovered'
    BY <1>3 DEF MissCache, NotAhead, SweepInv, CacheCovered
  <2>3. UsedTracked'
    BY <1>3 DEF MissCache, UsedTracked, Using
  <2> QED BY <1>1, <2>1, <2>2, <2>3
<1>4. CASE StoreResult(r)
  <2>1. TypeOK'
    BY <1>4 DEF StoreResult
  <2>2. NotAhead' /\ SweepInv'
    BY <1>4 DEF StoreResult, NotAhead, SweepInv
  <2>3. UsedTracked'
    BY <1>4 DEF StoreResult, UsedTracked, Using
  <2>4. CacheCovered'
    <3>1. held[r] \in tracked \cup forced
      BY <1>4 DEF StoreResult, UsedTracked, Using
    <3> QED BY <1>4, <3>1 DEF StoreResult, CacheCovered
  <2> QED BY <1>1, <2>1, <2>2, <2>3, <2>4
<1> QED BY <1>2, <1>3, <1>4

(* Closing a snapshot takes one holder and one reference away. *)
LEMMA CloseGC ==
    ASSUME GCInv, NEW r \in Readers, Close(r)
    PROVE  GCInv'
<1> USE DEF GCInv, TypeOK, Close, trackVars, gcVars
<1>1. TypeOK'
  OBVIOUS
<1>2. RefsExact'
  <2> SUFFICES ASSUME NEW v \in Versions \ forced
               PROVE  refCount'[v] = Cardinality(Holders(v)')
    BY DEF RefsExact
  <2>1. CASE v = held[r]
    <3>1. r \in Holders(v) /\ Holders(v)' = Holders(v) \ {r}
      BY <2>1 DEF Holders
    <3>2. refCount[v] = Cardinality(Holders(v))
      BY DEF RefsExact
    <3>3. Cardinality(Holders(v)) > 0
      BY <3>1, HolderCount
    <3>4. refCount'[v] = refCount[v] - 1
      BY <2>1, <3>2, <3>3
    <3> QED BY <3>1, <3>2, <3>4, HolderCount
  <2>2. CASE v # held[r]
    <3>1. Holders(v)' = Holders(v)
      BY <2>2 DEF Holders
    <3> QED BY <2>2, <3>1 DEF RefsExact
  <2> QED BY <2>1, <2>2
<1>3. NotAhead'
  BY DEF NotAhead
<1>4. SweepInv' /\ CacheCovered'
  BY DEF SweepInv, CacheCovered
<1>5. UsedTracked'
  BY DEF UsedTracked, Using
<1> QED BY <1>1, <1>2, <1>3, <1>4, <1>5

-----------------------------------------------------------------------------
(* Steps of the writer, of time and of the cache. *)
LEMMA OtherGC ==
    ASSUME GCInv,
           Publish \/ EvictExpired \/ (\E v \in Versions : GrowOld(v) \/ Expire(v))
    PROVE  GCInv'
<1> USE DEF GCInv, TypeOK, trackVars, gcVars, readerVars
<1>1. RefsExact'
  BY RefsKept DEF Publish, EvictExpired, GrowOld, Expire
<1>2. CASE Publish
  <2>1. current' \in Versions /\ current' > current
    BY <1>2, BoundAssumption DEF Publish, Versions
  <2>2. NotAhead' /\ SweepInv'
    BY <1>2, <2>1 DEF Publish, NotAhead, SweepInv, Versions
  <2>3. UsedTracked' /\ CacheCovered'
    BY <1>2 DEF Publish, UsedTracked, Using, CacheCovered
  <2> QED BY <1>1, <1>2, <2>1, <2>2, <2>3 DEF Publish
<1>3. CASE EvictExpired
  <2>1. TypeOK' /\ CacheCovered'
    BY <1>3 DEF EvictExpired, CacheCovered
  <2>2. NotAhead' /\ SweepInv' /\ UsedTracked'
    BY <1>3 DEF EvictExpired, NotAhead, SweepInv, UsedTracked, Using
  <2> QED BY <1>1, <2>1, <2>2
<1>4. CASE \E v \in Versions : GrowOld(v) \/ Expire(v)
  <2>1. TypeOK' /\ CacheCovered'
    BY <1>4 DEF GrowOld, Expire, CacheCovered
  <2>2. NotAhead' /\ SweepInv' /\ UsedTracked'
    BY <1>4 DEF GrowOld, Expire, NotAhead, SweepInv, UsedTracked, Using
  <2> QED BY <1>1, <2>1, <2>2
<1> QED BY <1>2, <1>3, <1>4

-----------------------------------------------------------------------------
(* Steps of the collector. *)

(* Collect takes the mutex and loads the current version, which is then as   *)
(* new as everything tracked.                                                *)
LEMMA StartGC == ASSUME GCInv, StartCollect PROVE GCInv'
<1> USE DEF GCInv, TypeOK, StartCollect, trackVars, readerVars
<1>1. RefsExact'
  BY RefsKept
<1>2. TypeOK' /\ NotAhead' /\ SweepInv'
  BY DEF NotAhead, SweepInv, Versions
<1>3. UsedTracked' /\ CacheCovered'
  BY DEF UsedTracked, Using, CacheCovered
<1> QED BY <1>1, <1>2, <1>3

(* Looking at one version: it is removed if it is not the one Collect loaded *)
(* and nobody holds it, or when its holders have had their time.             *)
LEMMA LookGC ==
    ASSUME GCInv, NEW v \in todo,
           SkipCurrent(v) \/ CollectOrphan(v) \/ ForceRelease(v) \/ KeepHeld(v)
    PROVE  GCInv'
<1> USE DEF GCInv, TypeOK, trackVars, readerVars
<1>1. CASE SkipCurrent(v) \/ KeepHeld(v)
  <2>1. RefsExact'
    BY <1>1, RefsKept DEF SkipCurrent, KeepHeld
  <2>2. TypeOK' /\ NotAhead' /\ SweepInv'
    BY <1>1 DEF SkipCurrent, KeepHeld, NotAhead, SweepInv
  <2>3. UsedTracked' /\ CacheCovered'
    BY <1>1 DEF SkipCurrent, KeepHeld, UsedTracked, Using, CacheCovered
  <2> QED BY <2>1, <2>2, <2>3
<1>2. CASE CollectOrphan(v)
  <2>1. RefsExact'
    BY <1>2, RefsKept DEF CollectOrphan
  <2>2. TypeOK' /\ NotAhead' /\ SweepInv'
    BY <1>2 DEF CollectOrphan, NotAhead, SweepInv
  <2>3. UsedTracked'
    <3> SUFFICES ASSUME NEW r \in Readers, Using(r), held[r] = v PROVE FALSE
      BY <1>2 DEF CollectOrphan, UsedTracked, Using
    <3>1. r \in Holders(v) /\ v \notin forced
      BY DEF Using, Holders
    <3> QED BY <1>2, <3>1, NoHolder DEF CollectOrphan
  <2>4. CacheCovered'
    BY <1>2 DEF CollectOrphan, CacheCovered
  <2> QED BY <2>1, <2>2, <2>3, <2>4
<1>3. CASE ForceRelease(v)
  <2>1. RefsExact'
    BY <1>3 DEF ForceRelease, RefsExact, Holders
  <2>2. TypeOK' /\ NotAhead' /\ SweepInv'
    BY <1>3 DEF ForceRelease, NotAhead, SweepInv
  <2>3. UsedTracked' /\ CacheCovered'
    BY <1>3 DEF ForceRelease, UsedTracked, Using, CacheCovered
  <2> QED BY <2>1, <2>2, <2>3
<1> QED BY <1>1, <1>2, <1>3

(* Collect ends, and gcWorker drops the cached results of what it removed.   *)
LEMMA FinishGC ==
    ASSUME GCInv, FinishCollect \/ (\E v \in removed : InvalidateVersion(v))
    PROVE  GCInv'
<1> USE DEF GCInv, TypeOK, trackVars, readerVars
<1>1. RefsExact'
  BY RefsKept DEF FinishCollect, InvalidateVersion
<1>2. CASE FinishCollect
  <2>1. TypeOK' /\ NotAhead' /\ SweepInv'
    BY <1>2 DEF FinishCollect, NotAhead, SweepInv
  <2>2. UsedTracked'
    BY <1>2 DEF FinishCollect, UsedTracked, Using
  <2>3. CacheCovered'
    BY <1>2 DEF FinishCollect, SweepInv, CacheCovered
  <2> QED BY <1>1, <2>1, <2>2, <2>3
<1>3. ASSUME NEW v \in removed, InvalidateVersion(v) PROVE GCInv'
  <2>1. TypeOK' /\ NotAhead' /\ SweepInv'
    BY <1>3 DEF InvalidateVersion, NotAhead, SweepInv
  <2>2. UsedTracked'
    BY <1>3 DEF InvalidateVersion, UsedTracked, Using
  <2>3. CacheCovered'
    BY <1>3 DEF InvalidateVersion, CacheCovered
  <2> QED BY <1>1, <2>1, <2>2, <2>3
<1> QED BY <1>2, <1>3

-----------------------------------------------------------------------------
(* Every step keeps the invariant. *)
LEMMA StepGC == GCInv /\ [Next]_vars => GCInv'
<1> SUFFICES ASSUME GCInv, [Next]_vars PROVE GCInv'
  OBVIOUS
<1>1. CASE UNCHANGED vars
  BY <1>1 DEF vars, trackVars, gcVars, readerVars, GCInv, TypeOK, RefsExact, Holders,
     NotAhead, SweepInv, UsedTracked, Using, CacheCovered
<1>2. CASE Publish \/ EvictExpired \/ (\E v \in Versions : GrowOld(v) \/ Expire(v))
  BY <1>2, OtherGC
<1>3. ASSUME NEW r \in Readers, ReaderStep(r) PROVE GCInv'
  BY <1>3, LoadGC, AcquireGC, HoldingGC, CloseGC DEF ReaderStep
<1>4. CASE StartCollect
  BY <1>4, StartGC
<1>5. CASE Sweep
  BY <1>5, LookGC, FinishGC DEF Sweep
<1> QED BY <1>1, <1>2, <1>3, <1>4, <1>5 DEF Next

LEMMA GCAlways == Spec => []GCInv
BY InitGC, StepGC, PTL DEF Spec

(* The current version, the versions tracked and their counts, the result    *)
(* cache and every reader's place in its calls keep their types.             *)
THEOREM TypeCorrect == Spec => []TypeOK
<1>1. GCInv => TypeOK
  BY DEF GCInv
<1> QED BY <1>1, GCAlways, PTL

(* Reference counts stay exact for every version whose references were not   *)
(* forced, however Acquire, Track, Close and Collect interleave, and no      *)
(* count goes below zero.                                                    *)
THEOREM RefsAlwaysExact == Spec => [](TypeOK /\ RefsExact)
<1>1. GCInv => TypeOK /\ RefsExact
  BY DEF GCInv
<1> QED BY <1>1, GCAlways, PTL

(* Collect never takes a version with an open snapshot for an orphan: with   *)
(* exact counts, zero references mean no holder, and Track waits for the     *)
(* end of the sweep.                                                         *)
THEOREM HeldAlwaysTracked == Spec => []HeldTracked
<1>1. GCInv => HeldTracked
  BY DEF GCInv, UsedTracked, Using, HeldTracked
<1> QED BY <1>1, GCAlways, PTL

(* Nor does it collect the version that readers get, though it loads the     *)
(* current version once: nothing newer than that is tracked in the sweep.    *)
THEOREM CurrentAlwaysKept == Spec => []CurrentKept
<1>1. GCInv => CurrentKept
  BY DEF GCInv, SweepInv, NotAhead, CurrentKept, TypeOK, Versions
<1> QED BY <1>1, GCAlways, PTL

(* No cached result outlives the collection of its version, unless it        *)
(* belongs to a version that was force-released.                             *)
THEOREM CacheAlwaysCovered == Spec => []CacheCovered
<1>1. GCInv => CacheCovered
  BY DEF GCInv
<1> QED BY <1>1, GCAlways, PTL
=============================================================================
