-------------------------- MODULE EngineCoreProofs --------------------------
(* Types and safety of EngineCore, and the facts about bags of events that   *)
(* the proofs cite. Types hold and versions are frozen for any numbers of    *)
(* workers, users and readers. NothingInvented holds whoever races, and      *)
(* StorageNeverAhead whoever compacts; ExactlyOnce and OverlayBounded hold   *)
(* when the single worker is the only writer, the arrangement the engine has *)
(* when no other goroutine calls Compact or Reset. In that arrangement       *)
(* EngineCore implements EventLedger, and a snapshot shows a prefix of what  *)
(* was published.                                                            *)
EXTENDS EngineCore, FiniteSetTheorems, TLAPS

-----------------------------------------------------------------------------
(* Bags of events. *)

(* The empty graph is a graph, and adding an event to a graph or merging two *)
(* gives a graph.                                                            *)
LEMMA GraphTypes ==
    /\ EmptyGraph \in Graphs
    /\ \A g \in Graphs, e \in Events : WithEvent(g, e) \in Graphs
    /\ \A b \in Graphs, o \in Graphs : Merge(b, o) \in Graphs
BY DEF Graphs, EmptyGraph, WithEvent, Merge

(* What an added event, a merge and the empty graph count. *)
LEMMA GraphCounts ==
    /\ Support(EmptyGraph) = {}
    /\ \A g \in Graphs, e \in Events : Support(WithEvent(g, e)) = Support(g) \cup {e}
    /\ \A b \in Graphs, o \in Graphs :
          Support(Merge(b, o)) = Support(b) \cup Support(o)
BY DEF Graphs, EmptyGraph, WithEvent, Merge, Support

(* Publishing an event adds it, and only it, to the published ones.          *)
LEMMA PublishedGrows ==
    ASSUME log \in Seq(Events), NEW e \in Events, log' = Append(log, e)
    PROVE  Published' = Published \cup {e}
<1>1. /\ Len(log') = Len(log) + 1
      /\ log'[Len(log) + 1] = e
      /\ \A i \in 1 .. Len(log) : log'[i] = log[i]
  OBVIOUS
<1>2. 1 .. Len(log) + 1 = (1 .. Len(log)) \cup {Len(log) + 1}
  OBVIOUS
<1> QED BY <1>1, <1>2 DEF Published, Applied

-----------------------------------------------------------------------------
(* The counter of active snapshots is the number of readers with a snapshot. *)
Active == {r \in Readers : status[r] # "idle"}

TypeInv == TypeOK /\ snapshotsActive = Cardinality(Active)

(* Opening one more snapshot adds one to the number of active readers, and   *)
(* closing one takes one away.                                               *)
LEMMA ActiveCount ==
    ASSUME status \in [Readers -> {"idle", "acquired", "open"}], NEW r \in Readers
    PROVE  /\ Cardinality(Active) \in Nat
           /\ status[r] = "idle" =>
                 Cardinality(Active \cup {r}) = Cardinality(Active) + 1
           /\ status[r] # "idle" =>
                 /\ Cardinality(Active) > 0
                 /\ Cardinality(Active \ {r}) = Cardinality(Active) - 1
<1>1. IsFiniteSet(Active)
  BY ReadersAssumption, FS_Subset DEF Active
<1>2. Cardinality(Active) \in Nat
  BY <1>1, FS_CardinalityType
<1>3. status[r] = "idle" => r \notin Active
  BY DEF Active
<1>4. status[r] # "idle" => r \in Active
  BY DEF Active
<1>5. status[r] # "idle" => Cardinality(Active) > 0
  <2>1. Active # {} => Cardinality(Active) # 0
    BY <1>1, FS_EmptySet
  <2> QED BY <2>1, <1>2, <1>4
<1> QED BY <1>1, <1>2, <1>3, <1>4, <1>5, FS_AddElement, FS_RemoveElement

LEMMA TypeInit == Init => TypeInv
<1> SUFFICES ASSUME Init PROVE TypeInv
  OBVIOUS
<1>1. TypeOK
  BY GraphTypes, ActorsAssumption, BoundsAssumption
     DEF Init, TypeOK, IDs, Places, Actors
<1>2. Active = {}
  BY DEF Init, Active
<1> QED BY <1>1, <1>2, FS_EmptySet DEF Init, TypeInv

(* A step of a worker, of a compaction, of a user's call or of a Save keeps  *)
(* the types and leaves the readers alone.                                   *)
LEMMA TypeActorStep ==
    ASSUME TypeOK,
           \/ \E w \in Workers : WorkerStep(w)
           \/ \E a \in Actors : CompactStep(a)
           \/ \E s \in saving : FinishSave(s) \/ FailSave(s)
           \/ \E u \in Users : CallCompact(u) \/ CallReset(u) \/ ResetStep(u)
    PROVE  TypeOK' /\ UNCHANGED <<status, snapshotsActive>>
<1> USE GraphTypes, ActorsAssumption, BoundsAssumption
        DEF TypeOK, IDs, Places, Actors, engineVars, actorVars, storageVars,
            readerVars, Goto, AllocateVersion
<1>1. ASSUME NEW w \in Workers, WorkerStep(w)
      PROVE  TypeOK' /\ UNCHANGED <<status, snapshotsActive>>
  <2>1. CASE TakeEvent(w)  BY <2>1 DEF TakeEvent
  <2>2. CASE ExtendOverlay(w)
    <3>1. WithEvent(graph[seen[w]], ev[w]) \in Graphs
      BY <2>2 DEF ExtendOverlay
    <3>2. versionID + 1 \in IDs
      BY <2>2 DEF ExtendOverlay
    <3> QED BY <2>2, <3>1, <3>2 DEF ExtendOverlay
  <2>3. CASE PublishEvent(w)  BY <2>3 DEF PublishEvent
  <2>4. CASE CountEvent(w)  BY <2>4 DEF CountEvent
  <2>5. CASE DecideCompact(w)  BY <2>5 DEF DecideCompact
  <2> QED BY <1>1, <2>1, <2>2, <2>3, <2>4, <2>5 DEF WorkerStep
<1>2. ASSUME NEW a \in Actors, CompactStep(a)
      PROVE  TypeOK' /\ UNCHANGED <<status, snapshotsActive>>
  <2>1. CASE LockBase(a)  BY <2>1 DEF LockBase
  <2>2. CASE MergeBase(a)  BY <2>2 DEF MergeBase
  <2>3. CASE FreshVersion(a)  BY <2>3 DEF FreshVersion
  <2>4. CASE SwapOverlay(a)  BY <2>4 DEF SwapOverlay
  <2>5. CASE ZeroCount(a)  BY <2>5 DEF ZeroCount
  <2>6. CASE SpawnSave(a)  BY <2>6 DEF SpawnSave
  <2> QED BY <1>2, <2>1, <2>2, <2>3, <2>4, <2>5, <2>6 DEF CompactStep
<1>3. ASSUME NEW s \in saving, FinishSave(s) \/ FailSave(s)
      PROVE  TypeOK' /\ UNCHANGED <<status, snapshotsActive>>
  <2>1. CASE FinishSave(s)  BY <2>1 DEF FinishSave
  <2>2. CASE FailSave(s)  BY <2>2 DEF FailSave
  <2> QED BY <1>3, <2>1, <2>2
<1>4. ASSUME NEW u \in Users, CallCompact(u) \/ CallReset(u) \/ ResetStep(u)
      PROVE  TypeOK' /\ UNCHANGED <<status, snapshotsActive>>
  <2>1. CASE CallCompact(u)  BY <2>1 DEF CallCompact
  <2>2. CASE CallReset(u)
    <3>1. Published \subseteq Events
      BY DEF Published, Applied
    <3> QED BY <2>2, <3>1 DEF CallReset
  <2>3. CASE ResetCount(u)  BY <2>3 DEF ResetCount
  <2>4. CASE ResetFresh(u)  BY <2>4 DEF ResetFresh
  <2>5. CASE ResetSwap(u)  BY <2>5 DEF ResetSwap
  <2> QED BY <1>4, <2>1, <2>2, <2>3, <2>4, <2>5 DEF ResetStep
<1> QED BY <1>1, <1>2, <1>3, <1>4

(* A step of a reader keeps the types and the count of active snapshots.     *)
LEMMA TypeReaderStep ==
    ASSUME TypeInv, NEW r \in Readers, ReaderStep(r)
    PROVE  TypeInv'
<1> USE GraphTypes, ActorsAssumption, BoundsAssumption
        DEF TypeInv, TypeOK, IDs, engineVars, actorVars, storageVars
<1>1. CASE AcquireVersion(r)
  <2>1. Active' = Active \cup {r}
    BY <1>1 DEF AcquireVersion, Active
  <2>2. Cardinality(Active \cup {r}) = snapshotsActive + 1
    BY <1>1, ActiveCount DEF AcquireVersion
  <2>3. TypeOK'
    BY <1>1 DEF AcquireVersion
  <2> QED BY <1>1, <2>1, <2>2, <2>3 DEF AcquireVersion
<1>2. CASE ReadBase(r)
  <2>1. Active' = Active
    BY <1>2 DEF ReadBase, Active
  <2> QED BY <1>2, <2>1 DEF ReadBase
<1>3. CASE CloseSnapshot(r)
  <2>1. Active' = Active \ {r}
    BY <1>3 DEF CloseSnapshot, Active
  <2>2. /\ Cardinality(Active \ {r}) = snapshotsActive - 1
        /\ snapshotsActive > 0
    BY <1>3, ActiveCount DEF CloseSnapshot
  <2>3. TypeOK'
    <3>1. /\ status' \in [Readers -> {"idle", "acquired", "open"}]
          /\ held' \in [Readers -> IDs]
      BY <1>3 DEF CloseSnapshot
    <3>2. /\ heldBase' \in [Readers -> Graphs] /\ since' \in [Readers -> Nat]
          /\ snapshotsActive' \in Nat
      BY <1>3, <2>2 DEF CloseSnapshot
    <3>3. UNCHANGED <<engineVars, actorVars, storageVars, log>>
      BY <1>3 DEF CloseSnapshot
    <3> QED BY <3>1, <3>2, <3>3
  <2>4. snapshotsActive' = snapshotsActive - 1
    BY <1>3 DEF CloseSnapshot
  <2> QED BY <2>1, <2>2, <2>3, <2>4
<1> QED BY <1>1, <1>2, <1>3 DEF ReaderStep

LEMMA TypeStep == TypeInv /\ [Next]_vars => TypeInv'
<1> SUFFICES ASSUME TypeInv, [Next]_vars PROVE TypeInv'
  OBVIOUS
<1>1. CASE UNCHANGED vars
  BY <1>1 DEF vars, engineVars, actorVars, storageVars, readerVars,
              TypeInv, TypeOK, Active
<1>2. ASSUME NEW r \in Readers, ReaderStep(r) PROVE TypeInv'
  BY <1>2, TypeReaderStep
<1>3. CASE \/ \E w \in Workers : WorkerStep(w)
           \/ \E a \in Actors : CompactStep(a)
           \/ \E s \in saving : FinishSave(s) \/ FailSave(s)
           \/ \E u \in Users : CallCompact(u) \/ CallReset(u) \/ ResetStep(u)
  <2>1. TypeOK' /\ UNCHANGED <<status, snapshotsActive>>
    BY <1>3, TypeActorStep DEF TypeInv
  <2> QED BY <2>1 DEF TypeInv, Active
<1> QED BY <1>1, <1>2, <1>3 DEF Next

(* Whatever the numbers of workers, users, readers and events, and whoever   *)
(* races, every variable of the store keeps its type, and the counter of     *)
(* active snapshots (Engine.snapshotsActive) is the number of readers that   *)
(* have called Snapshot and not yet Close: it never goes below zero.         *)
THEOREM TypeCorrect == Spec => []TypeOK
<1>1. Spec => []TypeInv
  BY TypeInit, TypeStep, PTL DEF Spec
<1> QED BY <1>1, PTL DEF TypeInv

(* An allocated version never changes, whoever races: every step that writes *)
(* an overlay writes that of the id it allocates.                            *)
THEOREM FrozenVersions == Spec => VersionsFrozen
<1>1. ASSUME TypeInv, [Next]_vars
      PROVE  \A v \in 0 .. versionID : graph'[v] = graph[v]
  <2>1. ASSUME NEW a, NEW g, AllocateVersion(a, g)
        PROVE  \A v \in 0 .. versionID : graph'[v] = graph[v]
    BY <1>1, <2>1 DEF TypeInv, TypeOK, IDs, AllocateVersion
  <2>2. \/ UNCHANGED graph
        \/ \E a, g : AllocateVersion(a, g)
    <3>1. ASSUME NEW w \in Workers, WorkerStep(w)
          PROVE  UNCHANGED graph \/ \E a, g : AllocateVersion(a, g)
      BY <3>1 DEF WorkerStep, TakeEvent, ExtendOverlay, PublishEvent, CountEvent,
                  DecideCompact, engineVars
    <3>2. ASSUME NEW a \in Actors, CompactStep(a)
          PROVE  UNCHANGED graph \/ \E b, g : AllocateVersion(b, g)
      BY <3>2 DEF CompactStep, LockBase, MergeBase, FreshVersion, SwapOverlay,
                  ZeroCount, SpawnSave, engineVars
    <3>3. ASSUME NEW s \in saving, FinishSave(s) \/ FailSave(s)
          PROVE  UNCHANGED graph
      BY <3>3 DEF FinishSave, FailSave, engineVars
    <3>4. ASSUME NEW u \in Users, CallCompact(u) \/ CallReset(u) \/ ResetStep(u)
          PROVE  UNCHANGED graph \/ \E a, g : AllocateVersion(a, g)
      BY <3>4 DEF CallCompact, CallReset, ResetStep, ResetCount, ResetFresh,
                  ResetSwap, engineVars
    <3>5. ASSUME NEW r \in Readers, ReaderStep(r) PROVE UNCHANGED graph
      BY <3>5 DEF ReaderStep, AcquireVersion, ReadBase, CloseSnapshot, engineVars
    <3>6. CASE UNCHANGED vars
      BY <3>6 DEF vars, engineVars
    <3> QED BY <1>1, <3>1, <3>2, <3>3, <3>4, <3>5, <3>6 DEF Next
  <2> QED BY <2>1, <2>2
<1>2. TypeInv /\ [Next]_vars => [\A v \in 0 .. versionID : graph'[v] = graph[v]]_vars
  BY <1>1
<1>3. Spec => []TypeInv
  BY TypeInit, TypeStep, PTL DEF Spec
<1> QED BY <1>2, <1>3, PTL DEF Spec, VersionsFrozen

-----------------------------------------------------------------------------
(* NothingInvented.  A graph an actor loaded from vc, or will store there,   *)
(* is as good as the one vc points to now, so the invariant speaks of those  *)
(* too; ids above versionID are not yet in use.                              *)
BackedGraphs ==
    /\ \A v \in IDs : Support(graph[v]) \subseteq Published \cup InHand
    /\ Support(graph[0]) \subseteq Published
    /\ Support(graph[current]) \subseteq Published
    /\ \A a \in Actors : Support(graph[seen[a]]) \subseteq Published
    /\ \A a \in Actors :
          pc[a] \in {"swap", "resetswap"} => Support(graph[mine[a]]) \subseteq Published
    /\ \A w \in Workers :
          pc[w] = "publish" => Support(graph[mine[w]]) \subseteq Published \cup {ev[w]}
    /\ \A r \in Readers : Support(graph[held[r]]) \subseteq Published

BackedIDs ==
    /\ current <= versionID
    /\ \A a \in Actors : seen[a] <= versionID /\ mine[a] <= versionID
    /\ \A r \in Readers : held[r] <= versionID

BackedBases ==
    /\ Support(base) \subseteq Published
    /\ Support(stored) \subseteq Published
    /\ \A s \in saving : Support(s.data) \subseteq Published
    /\ \A r \in Readers : Support(heldBase[r]) \subseteq Published

Backed == BackedGraphs /\ BackedIDs /\ BackedBases

LEMMA BackedInit == Init => Backed
<1> SUFFICES ASSUME Init PROVE Backed
  OBVIOUS
<1>1. \A v \in IDs : graph[v] = EmptyGraph
  BY DEF Init
<1>2. 0 \in IDs /\ \A a \in Actors : pc[a] = "idle" /\ seen[a] = 0 /\ mine[a] = 0
  BY BoundsAssumption DEF Init, IDs
<1>3. BackedGraphs
  BY <1>1, <1>2, GraphCounts DEF Init, BackedGraphs, Actors
<1>4. BackedIDs
  BY <1>2 DEF Init, BackedIDs
<1>5. BackedBases
  BY GraphCounts DEF Init, BackedBases
<1> QED BY <1>3, <1>4, <1>5 DEF Backed

(* A step that leaves the graphs, the writers' places and the log alone.     *)
LEMMA BackedStutter ==
    ASSUME Backed, UNCHANGED <<base, graph, current, versionID, pc, ev, seen, mine,
                               saving, stored, held, heldBase, log>>
    PROVE  Backed'
<1>1. Published' = Published /\ InHand' = InHand
  BY DEF Published, Applied, InHand
<1> QED BY <1>1 DEF Backed, BackedGraphs, BackedIDs, BackedBases, Support

(* A new id gets a graph that counts published events only, and the event in *)
(* its worker's hand when that worker is about to publish it.                *)
LEMMA BackedAllocate ==
    ASSUME TypeOK, Backed, NEW a \in Actors, NEW g \in Graphs, AllocateVersion(a, g),
           UNCHANGED <<base, current, ev, seen, saving, stored, held, heldBase, log>>,
           \A b \in Actors : b # a => pc'[b] = pc[b],
           pc[a] # "publish",
           \/ /\ Support(g) = {}
              /\ pc'[a] # "publish"
           \/ /\ a \in Workers
              /\ pc'[a] = "publish"
              /\ Support(g) \subseteq Published \cup {ev[a]}
    PROVE  Backed'
<1>1. /\ versionID \in IDs /\ versionID' = versionID + 1 /\ versionID' \in IDs
      /\ mine' = [mine EXCEPT ![a] = versionID']
      /\ graph' = [graph EXCEPT ![versionID'] = g]
  BY BoundsAssumption DEF AllocateVersion, TypeOK, IDs
<1>2. /\ graph'[versionID'] = g
      /\ \A v \in IDs : v <= versionID => graph'[v] = graph[v]
      /\ \A v \in IDs : v # versionID' => graph'[v] = graph[v]
  BY <1>1 DEF TypeOK, IDs
<1>3. Published' = Published
  BY DEF Published, Applied
<1>4. InHand \subseteq InHand' /\ (pc'[a] = "publish" => ev[a] \in InHand')
  BY <1>1 DEF InHand, Actors
<1>5. \A w \in Workers : pc'[w] = "publish" => w = a \/ pc[w] = "publish"
  BY DEF Actors
<1>6. /\ mine'[a] = versionID'
      /\ \A b \in Actors : b # a => mine'[b] = mine[b]
  BY <1>1 DEF TypeOK
<1>7. \A v \in IDs : Support(graph'[v]) = IF v = versionID' THEN Support(g)
                                          ELSE Support(graph[v])
  BY <1>2
<1>8. BackedIDs'
  BY <1>1, <1>6 DEF Backed, BackedIDs, TypeOK, IDs
<1>9. BackedBases'
  BY <1>3 DEF Backed, BackedBases, Support
<1>10. BackedGraphs'
  <2>1. \A v \in IDs : Support(graph'[v]) \subseteq Published \cup InHand'
    BY <1>4, <1>7 DEF Backed, BackedGraphs
  <2>2. /\ Support(graph'[0]) \subseteq Published
        /\ Support(graph'[current]) \subseteq Published
        /\ \A b \in Actors : Support(graph'[seen[b]]) \subseteq Published
        /\ \A r \in Readers : Support(graph'[held[r]]) \subseteq Published
    BY <1>1, <1>2 DEF Backed, BackedGraphs, BackedIDs, TypeOK, IDs
  <2>3. ASSUME NEW b \in Actors, pc'[b] \in {"swap", "resetswap"}
        PROVE  Support(graph'[mine'[b]]) \subseteq Published
    <3>1. CASE b = a
      BY <1>2, <1>6, <2>3, <3>1
    <3>2. CASE b # a
      BY <1>2, <1>6, <2>3, <3>2 DEF Backed, BackedGraphs, BackedIDs, TypeOK
    <3> QED BY <3>1, <3>2
  <2>4. ASSUME NEW w \in Workers, pc'[w] = "publish"
        PROVE  Support(graph'[mine'[w]]) \subseteq Published \cup {ev[w]}
    <3>1. CASE w = a
      BY <1>2, <1>6, <2>4, <3>1
    <3>2. CASE w # a
      BY <1>2, <1>5, <1>6, <2>4, <3>2 DEF Backed, BackedGraphs, BackedIDs, TypeOK, Actors
    <3> QED BY <3>1, <3>2
  <2>5. /\ Support(graph[0])' \subseteq Published'
        /\ Support(graph[current])' \subseteq Published'
        /\ \A b \in Actors : Support(graph[seen[b]])' \subseteq Published'
        /\ \A r \in Readers : Support(graph[held[r]])' \subseteq Published'
        /\ \A v \in IDs : Support(graph[v])' \subseteq Published' \cup InHand'
    BY <1>3, <2>1, <2>2 DEF Support
  <2> QED BY <1>3, <2>3, <2>4, <2>5 DEF BackedGraphs, Support
<1> QED BY <1>8, <1>9, <1>10 DEF Backed

LEMMA BackedWorkerStep ==
    ASSUME TypeOK, Backed, NEW w \in Workers, WorkerStep(w)
    PROVE  Backed'
<1> USE DEF Goto, engineVars, actorVars, storageVars, readerVars
<1>t. w \in Actors /\ pc \in [Actors -> Places] /\ seen \in [Actors -> IDs]
  BY DEF Actors, TypeOK
<1>1. CASE TakeEvent(w)
  <2>1. /\ UNCHANGED <<base, graph, current, versionID, mine, saving, stored, held,
                       heldBase, log>>
        /\ seen' = [seen EXCEPT ![w] = current]
        /\ pc[w] = "idle" /\ pc' = [pc EXCEPT ![w] = "extend"]
        /\ \A x \in Workers : x # w => ev'[x] = ev[x]
    BY <1>1 DEF TakeEvent, TypeOK
  <2>2. Published' = Published /\ InHand' = InHand
    BY <1>t, <2>1 DEF Published, Applied, InHand, Actors
  <2>3. \A x \in Workers : pc'[x] = "publish" => pc[x] = "publish" /\ ev'[x] = ev[x]
    BY <1>t, <2>1 DEF Actors
  <2>4. \A a \in Actors : pc'[a] \in {"swap", "resetswap"} => pc[a] = pc'[a]
    BY <1>t, <2>1
  <2>5. \A a \in Actors : seen'[a] = current \/ seen'[a] = seen[a]
    BY <1>t, <2>1
  <2> QED BY <2>1, <2>2, <2>3, <2>4, <2>5
          DEF Backed, BackedGraphs, BackedIDs, BackedBases, Support
<1>2. CASE ExtendOverlay(w)
  <2>1. /\ UNCHANGED <<base, current, ev, seen, saving, stored, held, heldBase, log>>
        /\ pc[w] = "extend" /\ pc'[w] = "publish"
        /\ \A b \in Actors : b # w => pc'[b] = pc[b]
        /\ AllocateVersion(w, WithEvent(graph[seen[w]], ev[w]))
        /\ ev[w] \in Events
    BY <1>2, <1>t DEF ExtendOverlay, TypeOK
  <2>2. graph[seen[w]] \in Graphs
    BY <1>t DEF TypeOK
  <2>3. WithEvent(graph[seen[w]], ev[w]) \in Graphs
    BY <2>1, <2>2, GraphTypes
  <2>4. Support(WithEvent(graph[seen[w]], ev[w])) \subseteq Published \cup {ev[w]}
    BY <1>t, <2>1, <2>2, GraphCounts DEF Backed, BackedGraphs
  <2> HIDE DEF Goto, engineVars, actorVars, storageVars, readerVars
  <2> QED BY <1>t, <2>1, <2>3, <2>4, BackedAllocate
<1>3. CASE PublishEvent(w)
  <2>1. /\ UNCHANGED <<base, graph, versionID, ev, seen, mine, saving, stored, held,
                       heldBase>>
        /\ current' = mine[w]
        /\ pc[w] = "publish" /\ pc' = [pc EXCEPT ![w] = "count"]
    BY <1>3 DEF PublishEvent
  <2>2. Published' = Published \cup {ev[w]}
    BY <1>3, <1>t, <2>1, PublishedGrows DEF PublishEvent, TypeOK
  <2>3. InHand \subseteq InHand' \cup {ev[w]}
    BY <1>t, <2>1 DEF InHand, Actors
  <2>4. \A a \in Actors : a # w => pc'[a] = pc[a]
    BY <1>t, <2>1
  <2>5. pc'[w] = "count"
    BY <1>t, <2>1
  <2>6. BackedGraphs'
    BY <1>t, <2>1, <2>2, <2>3, <2>4, <2>5 DEF Backed, BackedGraphs, Support, Actors
  <2>7. BackedIDs' /\ BackedBases'
    BY <1>t, <2>1, <2>2 DEF Backed, BackedIDs, BackedBases, Support
  <2> QED BY <2>6, <2>7 DEF Backed
<1>4. CASE CountEvent(w) \/ DecideCompact(w)
  <2>1. /\ UNCHANGED <<base, graph, current, versionID, ev, seen, mine, saving, stored,
                       held, heldBase, log>>
        /\ pc[w] \in {"count", "decide"}
        /\ \E p \in {"decide", "lock", "idle"} : pc' = [pc EXCEPT ![w] = p]
    BY <1>4 DEF CountEvent, DecideCompact
  <2>2. Published' = Published /\ InHand' = InHand
    BY <1>t, <2>1 DEF Published, Applied, InHand, Actors
  <2>3. \A a \in Actors : pc'[a] \in {"publish", "swap", "resetswap"} => pc[a] = pc'[a]
    BY <1>t, <2>1
  <2> QED BY <2>1, <2>2, <2>3
          DEF Backed, BackedGraphs, BackedIDs, BackedBases, Support, Actors
<1> QED BY <1>1, <1>2, <1>3, <1>4 DEF WorkerStep

LEMMA BackedCompactStep ==
    ASSUME TypeOK, Backed, NEW a \in Actors,
           CompactStep(a) \/ (a \in Users /\ (CallCompact(a) \/ CallReset(a) \/ ResetStep(a)))
    PROVE  Backed'
<1> USE DEF Goto, engineVars, actorVars, storageVars, readerVars
<1>t. pc \in [Actors -> Places] /\ seen \in [Actors -> IDs]
  BY DEF TypeOK
<1>l. UNCHANGED <<ev, log, held, heldBase>> /\ Published' = Published
  BY DEF CompactStep, LockBase, MergeBase, FreshVersion, SwapOverlay, ZeroCount,
         SpawnSave, CallCompact, CallReset, ResetStep, ResetCount, ResetFresh, ResetSwap,
         Published, Applied
<1>1. CASE FreshVersion(a) \/ (a \in Users /\ ResetFresh(a))
  <2>1. /\ UNCHANGED <<base, current, ev, seen, saving, stored, held, heldBase, log>>
        /\ pc[a] \in {"fresh", "resetfresh"} /\ pc'[a] \in {"swap", "resetswap"}
        /\ \A b \in Actors : b # a => pc'[b] = pc[b]
        /\ AllocateVersion(a, EmptyGraph)
    BY <1>1, <1>t DEF FreshVersion, ResetFresh
  <2>2. EmptyGraph \in Graphs /\ Support(EmptyGraph) = {}
    BY GraphTypes, GraphCounts
  <2> HIDE DEF Goto, engineVars, actorVars, storageVars, readerVars
  <2> QED BY <2>1, <2>2, BackedAllocate
<1>2. CASE SwapOverlay(a) \/ (a \in Users /\ ResetSwap(a))
  <2>1. /\ UNCHANGED <<base, graph, versionID, seen, mine, saving, stored>>
        /\ pc[a] \in {"swap", "resetswap"} /\ current' = mine[a]
        /\ \E p \in {"zero", "idle"} : pc' = [pc EXCEPT ![a] = p]
    BY <1>2 DEF SwapOverlay, ResetSwap
  <2>2. InHand' = InHand
    BY <1>l, <1>t, <2>1 DEF InHand, Actors
  <2>3. \A b \in Actors : pc'[b] \in {"publish", "swap", "resetswap"} => pc[b] = pc'[b]
    BY <1>t, <2>1
  <2> QED BY <1>l, <2>1, <2>2, <2>3
          DEF Backed, BackedGraphs, BackedIDs, BackedBases, Support, Actors
<1>3. CASE LockBase(a)
  <2>1. /\ UNCHANGED <<base, graph, current, versionID, mine, saving, stored>>
        /\ seen' = [seen EXCEPT ![a] = current]
        /\ pc[a] = "lock" /\ pc' = [pc EXCEPT ![a] = "merge"]
    BY <1>3 DEF LockBase
  <2>2. InHand' = InHand
    BY <1>l, <1>t, <2>1 DEF InHand, Actors
  <2>3. \A b \in Actors : pc'[b] \in {"publish", "swap", "resetswap"} => pc[b] = pc'[b]
    BY <1>t, <2>1
  <2>4. \A b \in Actors : seen'[b] = current \/ seen'[b] = seen[b]
    BY <1>t, <2>1
  <2> QED BY <1>l, <2>1, <2>2, <2>3, <2>4
          DEF Backed, BackedGraphs, BackedIDs, BackedBases, Support, Actors
<1>4. CASE MergeBase(a) \/ ZeroCount(a) \/ SpawnSave(a)
           \/ (a \in Users /\ (CallCompact(a) \/ CallReset(a) \/ ResetCount(a)))
  <2>1. /\ UNCHANGED <<graph, current, versionID, seen, mine, stored>>
        /\ pc[a] \notin {"publish", "swap", "resetswap"}
        /\ \E p \in Places \ {"publish", "swap", "resetswap"} : pc' = [pc EXCEPT ![a] = p]
    BY <1>4 DEF MergeBase, ZeroCount, SpawnSave, CallCompact, CallReset, ResetCount,
                Places
  <2>2. InHand' = InHand
    BY <1>l, <1>t, <2>1 DEF InHand, Actors
  <2>3. \A b \in Actors : pc'[b] \in {"publish", "swap", "resetswap"} => pc[b] = pc'[b]
    BY <1>t, <2>1
  <2>4. BackedGraphs' /\ BackedIDs'
    BY <1>l, <2>1, <2>2, <2>3 DEF Backed, BackedGraphs, BackedIDs, Support, Actors
  <2>5. Support(base') \subseteq Published
    <3>1. CASE MergeBase(a)
      <4>1. base' = Merge(base, graph[seen[a]])
        BY <3>1 DEF MergeBase
      <4>2. base \in Graphs /\ graph[seen[a]] \in Graphs
        BY DEF TypeOK
      <4> QED BY <4>1, <4>2, GraphCounts DEF Backed, BackedGraphs, BackedBases
    <3>2. CASE a \in Users /\ CallReset(a)
      BY <3>2, GraphCounts DEF CallReset
    <3>3. CASE UNCHANGED base
      BY <3>3 DEF Backed, BackedBases
    <3> QED BY <1>4, <3>1, <3>2, <3>3 DEF ZeroCount, SpawnSave, CallCompact, ResetCount
  <2>6. \A s \in saving' : Support(s.data) \subseteq Published
    <3>1. CASE SpawnSave(a)
      <4>1. saving' = saving \cup {[by |-> mine[a], data |-> base]}
        BY <3>1 DEF SpawnSave
      <4> QED BY <4>1 DEF Backed, BackedBases
    <3>2. CASE UNCHANGED saving
      BY <3>2 DEF Backed, BackedBases
    <3> QED BY <1>4, <3>1, <3>2 DEF MergeBase, ZeroCount, CallCompact, CallReset,
            ResetCount
  <2>7. BackedBases'
    BY <1>l, <2>1, <2>5, <2>6 DEF Backed, BackedBases, Support
  <2> QED BY <2>4, <2>7 DEF Backed
<1> QED BY <1>1, <1>2, <1>3, <1>4 DEF CompactStep, ResetStep

LEMMA BackedReaderStep ==
    ASSUME TypeOK, Backed, NEW r \in Readers, ReaderStep(r)
    PROVE  Backed'
<1>1. /\ UNCHANGED <<base, graph, current, versionID, pc, ev, seen, mine, saving,
                     stored, log>>
      /\ Published' = Published /\ InHand' = InHand
  BY DEF ReaderStep, AcquireVersion, ReadBase, CloseSnapshot, engineVars, actorVars,
         storageVars, Published, Applied, InHand
<1>2. \A q \in Readers : held'[q] \in {held[q], current, 0}
  BY DEF ReaderStep, AcquireVersion, ReadBase, CloseSnapshot, TypeOK
<1>3. \A q \in Readers : heldBase'[q] \in {heldBase[q], base, EmptyGraph}
  BY DEF ReaderStep, AcquireVersion, ReadBase, CloseSnapshot, TypeOK
<1>4. Support(EmptyGraph) = {}
  BY GraphCounts
<1>5. BackedGraphs'
  <2>1. \A q \in Readers : Support(graph[held'[q]]) \subseteq Published
    BY <1>2 DEF Backed, BackedGraphs
  <2>2. \A q \in Readers : Support(graph[held[q]])' \subseteq Published'
    BY <1>1, <2>1 DEF Support
  <2> QED BY <1>1, <2>2 DEF Backed, BackedGraphs, Support
<1>6. BackedIDs'
  <2>1. 0 <= versionID
    BY DEF TypeOK, IDs
  <2>2. \A q \in Readers : held'[q] <= versionID
    BY <1>2, <2>1 DEF Backed, BackedIDs
  <2> QED BY <1>1, <2>2 DEF Backed, BackedIDs
<1>7. BackedBases'
  <2>1. \A q \in Readers : Support(heldBase'[q]) \subseteq Published
    BY <1>3, <1>4 DEF Backed, BackedBases
  <2> QED BY <1>1, <2>1 DEF Backed, BackedBases, Support
<1> QED BY <1>5, <1>6, <1>7 DEF Backed

LEMMA BackedAlways == Spec => [](TypeInv /\ Backed)
<1>1. Init => TypeInv /\ Backed
  BY TypeInit, BackedInit
<1>2. ASSUME TypeInv, Backed, [Next]_vars PROVE Backed'
  <2>1. TypeOK
    BY <1>2 DEF TypeInv
  <2>2. ASSUME NEW s \in saving, FinishSave(s) \/ FailSave(s) PROVE Backed'
    <3>1. /\ UNCHANGED <<base, graph, current, versionID, pc, ev, seen, mine, held,
                         heldBase, log>>
          /\ saving' = saving \ {s} /\ stored' \in {stored, s.data}
      BY <2>2 DEF FinishSave, FailSave, engineVars, actorVars, readerVars
    <3>2. Published' = Published /\ InHand' = InHand
      BY <3>1 DEF Published, Applied, InHand
    <3> QED BY <1>2, <3>1, <3>2
            DEF Backed, BackedGraphs, BackedIDs, BackedBases, Support
  <2>3. CASE UNCHANGED vars
    BY <1>2, <2>3, BackedStutter DEF vars, engineVars, actorVars, storageVars, readerVars
  <2> QED BY <1>2, <2>1, <2>2, <2>3, BackedWorkerStep, BackedCompactStep,
             BackedReaderStep DEF Next, Actors
<1>3. TypeInv /\ Backed /\ [Next]_vars => (TypeInv /\ Backed)'
  BY <1>2, TypeStep
<1> QED BY <1>1, <1>3, PTL DEF Spec

(* Whatever the numbers of workers, users and readers, and however their     *)
(* calls interleave, no graph of the engine, no open snapshot and nothing in *)
(* the storage counts an event that no worker has published.                 *)
THEOREM NothingIsInvented == Spec => []NothingInvented
<1>1. TypeInv /\ Backed => NothingInvented
  <2> SUFFICES ASSUME TypeOK, Backed PROVE NothingInvented
    BY DEF TypeInv
  <2>1. \A r \in Readers : Support(View(r)) = Support(heldBase[r]) \cup Support(graph[held[r]])
    BY GraphCounts DEF View, TypeOK
  <2> QED BY <2>1 DEF NothingInvented, Backed, BackedGraphs, BackedBases
<1> QED BY <1>1, BackedAlways, PTL

-----------------------------------------------------------------------------
(* ExactlyOnce.  One worker writes, so what it loaded is still current until *)
(* it stores something else, and an event it holds is neither queued nor     *)
(* published.                                                                *)
SingleWriter == \E w : Workers = {w} /\ Users = {}

Once(S) == [e \in Events |-> IF e \in S THEN 1 ELSE 0]

Placed(w) ==
    IF pc[w] \in {"fresh", "swap"} THEN base = Once(Published)
    ELSE Merge(base, graph[current]) = Once(Published)

Working(w) ==
    /\ pending \cap Published = {}
    /\ pc[w] \in {"extend", "publish"} => ev[w] \notin Published \cup pending
    /\ pc[w] \in {"extend", "publish", "merge"} => seen[w] = current
    /\ pc[w] = "publish" => graph[mine[w]] = WithEvent(graph[current], ev[w])
    /\ pc[w] = "swap" => graph[mine[w]] = EmptyGraph
    /\ current <= versionID /\ mine[w] <= versionID
    /\ pc[w] \in {"publish", "swap"} => current <= mine[w]
    /\ Placed(w)

SingleInv == \A w \in Workers : Working(w)

LEMMA SingleInit == Init => SingleInv
<1> SUFFICES ASSUME Init, NEW w \in Workers PROVE Working(w)
  BY DEF SingleInv
<1>1. Published = {}
  BY DEF Init, Published, Applied
<1>2. /\ pc[w] = "idle" /\ mine[w] = 0
      /\ graph[current] = EmptyGraph /\ base = EmptyGraph
  BY BoundsAssumption DEF Init, Actors, IDs
<1>3. Merge(EmptyGraph, EmptyGraph) = Once({})
  BY DEF Merge, EmptyGraph, Once
<1> QED BY <1>1, <1>2, <1>3 DEF Init, Working, Placed

(* What a step of the writer may not disturb is kept by every step that      *)
(* leaves the writer's variables alone.                                      *)
LEMMA SingleStutter ==
    ASSUME SingleInv,
           UNCHANGED <<pending, base, graph, current, versionID, pc, ev, seen, mine, log>>
    PROVE  SingleInv'
<1> SUFFICES ASSUME NEW w \in Workers PROVE Working(w)'
  BY DEF SingleInv
<1>1. Published' = Published
  BY DEF Published, Applied
<1>2. Placed(w)' <=> Placed(w)
  BY <1>1 DEF Placed, Once, Merge
<1> QED BY <1>1, <1>2 DEF SingleInv, Working, WithEvent, EmptyGraph

(* Adding an event that is not yet published to a graph that counts each     *)
(* published event once gives one that counts each once, the new one too.    *)
LEMMA OnceMore ==
    ASSUME NEW b \in Graphs, NEW o \in Graphs, NEW S, NEW e \in Events, e \notin S,
           Merge(b, o) = Once(S)
    PROVE  Merge(b, WithEvent(o, e)) = Once(S \cup {e})
<1>1. \A x \in Events : b[x] + o[x] = IF x \in S THEN 1 ELSE 0
  BY DEF Merge, Once
<1>2. \A x \in Events : WithEvent(o, e)[x] = IF x = e THEN o[x] + 1 ELSE o[x]
  BY DEF WithEvent, Graphs
<1>3. \A x \in Events : b[x] \in Nat /\ o[x] \in Nat
  BY DEF Graphs
<1>4. \A x \in Events :
         b[x] + WithEvent(o, e)[x] = IF x \in S \cup {e} THEN 1 ELSE 0
  BY <1>1, <1>2, <1>3
<1> QED BY <1>4 DEF Merge, Once

LEMMA MergeEmpty == \A b \in Graphs : Merge(b, EmptyGraph) = b
BY DEF Merge, EmptyGraph, Graphs

LEMMA SingleWorkerStep ==
    ASSUME TypeOK, SingleInv, NEW w \in Workers, Workers = {w}, WorkerStep(w)
    PROVE  SingleInv'
<1> USE DEF Goto, engineVars, actorVars, storageVars, readerVars
<1>w. Working(w)
  BY DEF SingleInv
<1>p. w \in Actors /\ pc \in [Actors -> Places] /\ seen \in [Actors -> IDs]
  BY DEF Actors, TypeOK
<1> SUFFICES Working(w)'
  BY DEF SingleInv
<1>1. CASE TakeEvent(w)
  <2>1. UNCHANGED <<base, graph, current, versionID, mine, log>> /\ pc'[w] = "extend"
    BY <1>1, <1>p DEF TakeEvent
  <2>2. Published' = Published
    BY <2>1 DEF Published, Applied
  <2>3. PICK e \in pending : pending' = pending \ {e} /\ ev' = [ev EXCEPT ![w] = e]
    BY <1>1 DEF TakeEvent
  <2>4. seen'[w] = current /\ ev'[w] = e
    BY <1>1, <1>p, <2>3 DEF TakeEvent, TypeOK
  <2>5. Placed(w)'
    BY <1>1, <1>w, <2>1, <2>2 DEF TakeEvent, Working, Placed, Once, Merge
  <2> QED BY <1>w, <2>1, <2>2, <2>3, <2>4, <2>5 DEF Working
<1>2. CASE ExtendOverlay(w)
  <2>1. /\ UNCHANGED <<pending, base, current, ev, seen, log>>
        /\ pc[w] = "extend" /\ pc'[w] = "publish"
    BY <1>2, <1>p DEF ExtendOverlay
  <2>2. /\ mine'[w] = versionID + 1
        /\ versionID' = versionID + 1
        /\ graph' = [graph EXCEPT ![versionID + 1] = WithEvent(graph[seen[w]], ev[w])]
        /\ versionID + 1 \in IDs
    BY <1>2, <1>p, BoundsAssumption DEF ExtendOverlay, AllocateVersion, TypeOK, IDs
  <2>3. graph'[versionID + 1] = WithEvent(graph[seen[w]], ev[w])
    BY <2>2 DEF TypeOK
  <2>4. graph'[current] = graph[current] /\ current <= versionID + 1
    BY <1>w, <2>2 DEF TypeOK, Working, IDs
  <2>5. Published' = Published
    BY <2>1 DEF Published, Applied
  <2>6. Placed(w)'
    BY <1>w, <2>1, <2>4, <2>5 DEF Working, Placed, Once, Merge
  <2>7. graph'[mine'[w]] = WithEvent(graph'[current'], ev'[w])
    BY <1>w, <2>1, <2>2, <2>3, <2>4 DEF Working
  <2>8. seen'[w] = current' /\ ev'[w] \notin Published' \cup pending'
    BY <1>w, <2>1, <2>5 DEF Working
  <2>9. current' <= versionID' /\ mine'[w] <= versionID' /\ current' <= mine'[w]
    BY <2>1, <2>2, <2>4 DEF TypeOK, IDs
  <2> QED BY <1>w, <2>1, <2>5, <2>6, <2>7, <2>8, <2>9 DEF Working, WithEvent
<1>3. CASE PublishEvent(w)
  <2>1. /\ UNCHANGED <<pending, base, graph, versionID, ev, seen, mine>>
        /\ current' = mine[w]
        /\ pc[w] = "publish" /\ pc'[w] = "count"
        /\ ev[w] \in Events
    BY <1>3, <1>p DEF PublishEvent, TypeOK
  <2>2. Published' = Published \cup {ev[w]}
    BY <1>3, <2>1, PublishedGrows DEF PublishEvent, TypeOK
  <2>3. graph[mine[w]] = WithEvent(graph[current], ev[w])
    BY <1>w, <2>1 DEF Working
  <2>4. Merge(base, graph[mine[w]]) = Once(Published \cup {ev[w]})
    <3>1. /\ Merge(base, graph[current]) = Once(Published)
          /\ ev[w] \notin Published
      BY <1>w, <2>1 DEF Working, Placed
    <3>2. base \in Graphs /\ graph[current] \in Graphs
      BY DEF TypeOK
    <3> QED BY <2>1, <2>3, <3>1, <3>2, OnceMore
  <2>5. Placed(w)'
    BY <2>1, <2>2, <2>4 DEF Placed, Once, Merge
  <2>6. mine[w] <= versionID
    BY <1>w DEF Working
  <2> QED BY <1>w, <2>1, <2>2, <2>5, <2>6 DEF Working
<1>4. CASE CountEvent(w)
  <2>1. /\ UNCHANGED <<pending, base, graph, current, versionID, ev, seen, mine, log>>
        /\ pc[w] = "count" /\ pc'[w] = "decide"
    BY <1>4, <1>p DEF CountEvent
  <2> QED BY <1>w, <2>1 DEF Working, Placed, Published, Applied, Once, Merge
<1>5. CASE DecideCompact(w)
  <2>1. /\ UNCHANGED <<pending, base, graph, current, versionID, ev, seen, mine, log>>
        /\ pc[w] = "decide" /\ pc'[w] \in {"lock", "idle"}
    BY <1>5, <1>p DEF DecideCompact
  <2> QED BY <1>w, <2>1 DEF Working, Placed, Published, Applied, Once, Merge
<1> QED BY <1>1, <1>2, <1>3, <1>4, <1>5 DEF WorkerStep

LEMMA SingleCompactStep ==
    ASSUME TypeOK, SingleInv, NEW w \in Workers, Workers = {w}, CompactStep(w)
    PROVE  SingleInv'
<1> USE DEF Goto, engineVars, actorVars, storageVars, readerVars
<1>w. Working(w)
  BY DEF SingleInv
<1>p. w \in Actors /\ pc \in [Actors -> Places] /\ seen \in [Actors -> IDs]
  BY DEF Actors, TypeOK
<1>l. UNCHANGED <<pending, ev, log>> /\ Published' = Published
  BY DEF CompactStep, LockBase, MergeBase, FreshVersion, SwapOverlay, ZeroCount,
         SpawnSave, Published, Applied
<1> SUFFICES Working(w)'
  BY DEF SingleInv
<1>1. CASE LockBase(w)
  <2>1. /\ UNCHANGED <<base, graph, current, versionID, mine>>
        /\ pc[w] = "lock" /\ pc'[w] = "merge"
        /\ seen'[w] = current
    BY <1>1, <1>p DEF LockBase
  <2> QED BY <1>w, <1>l, <2>1 DEF Working, Placed, Once, Merge
<1>2. CASE MergeBase(w)
  <2>1. /\ UNCHANGED <<graph, current, versionID, mine, seen>>
        /\ pc[w] = "merge" /\ pc'[w] = "fresh"
        /\ base' = Merge(base, graph[seen[w]])
    BY <1>2, <1>p DEF MergeBase
  <2>2. base' = Once(Published)
    BY <1>w, <2>1 DEF Working, Placed
  <2> QED BY <1>w, <1>l, <2>1, <2>2 DEF Working, Placed, Once
<1>3. CASE FreshVersion(w)
  <2>1. /\ UNCHANGED <<base, current, seen>>
        /\ pc[w] = "fresh" /\ pc'[w] = "swap"
        /\ mine'[w] = versionID + 1
        /\ versionID' = versionID + 1
        /\ graph' = [graph EXCEPT ![versionID + 1] = EmptyGraph]
        /\ versionID + 1 \in IDs
    BY <1>3, <1>p, BoundsAssumption DEF FreshVersion, AllocateVersion, TypeOK, IDs
  <2>2. graph'[versionID + 1] = EmptyGraph
    BY <2>1 DEF TypeOK
  <2>3. current <= versionID + 1 /\ versionID + 1 <= versionID + 1
    BY <1>w DEF Working, TypeOK, IDs
  <2> QED BY <1>w, <1>l, <2>1, <2>2, <2>3 DEF Working, Placed, Once, EmptyGraph
<1>4. CASE SwapOverlay(w)
  <2>1. /\ UNCHANGED <<base, graph, versionID, seen, mine>>
        /\ pc[w] = "swap" /\ pc'[w] = "zero"
        /\ current' = mine[w]
    BY <1>4, <1>p DEF SwapOverlay
  <2>2. Merge(base, graph[mine[w]]) = Once(Published)
    BY <1>w, <2>1, MergeEmpty DEF Working, Placed, TypeOK
  <2>3. Placed(w)'
    BY <1>l, <2>1, <2>2 DEF Placed, Once, Merge
  <2>4. mine[w] <= versionID
    BY <1>w DEF Working
  <2> QED BY <1>w, <1>l, <2>1, <2>3, <2>4 DEF Working
<1>5. CASE ZeroCount(w) \/ SpawnSave(w)
  <2>1. /\ UNCHANGED <<base, graph, current, versionID, seen, mine>>
        /\ pc[w] \in {"zero", "save"} /\ pc'[w] \in {"save", "idle"}
    BY <1>5, <1>p DEF ZeroCount, SpawnSave
  <2> QED BY <1>w, <1>l, <2>1 DEF Working, Placed, Once, Merge
<1> QED BY <1>1, <1>2, <1>3, <1>4, <1>5 DEF CompactStep

LEMMA SingleStep ==
    ASSUME SingleWriter, TypeOK, SingleInv, [Next]_vars
    PROVE  SingleInv'
<1>1. PICK w : Workers = {w} /\ Users = {}
  BY DEF SingleWriter
<1>2. ASSUME NEW a \in Actors, CompactStep(a) PROVE SingleInv'
  BY <1>1, <1>2, SingleCompactStep DEF Actors
<1>3. ASSUME NEW a \in Workers, WorkerStep(a) PROVE SingleInv'
  BY <1>1, <1>3, SingleWorkerStep
<1>4. ASSUME NEW s \in saving, FinishSave(s) \/ FailSave(s) PROVE SingleInv'
  BY <1>4, SingleStutter DEF FinishSave, FailSave, engineVars, actorVars
<1>5. ASSUME NEW r \in Readers, ReaderStep(r) PROVE SingleInv'
  BY <1>5, SingleStutter DEF ReaderStep, AcquireVersion, ReadBase, CloseSnapshot,
     engineVars, actorVars
<1>6. CASE UNCHANGED vars
  BY <1>6, SingleStutter DEF vars, engineVars, actorVars
<1> QED BY <1>1, <1>2, <1>3, <1>4, <1>5, <1>6 DEF Next

LEMMA SingleAlways == ASSUME SingleWriter PROVE Spec => [](TypeInv /\ SingleInv)
<1>1. Init => TypeInv /\ SingleInv
  BY TypeInit, SingleInit
<1>2. TypeInv /\ SingleInv /\ [Next]_vars => (TypeInv /\ SingleInv)'
  BY TypeStep, SingleStep DEF TypeInv
<1> QED BY <1>1, <1>2, PTL DEF Spec

(* What the invariant says of Contents: it is the bag of published events.   *)
LEMMA SingleContents ==
    ASSUME SingleWriter, TypeOK, SingleInv
    PROVE  Contents = Once(Published)
<1>1. PICK w : Workers = {w} /\ Users = {}
  BY DEF SingleWriter
<1>2. Merging <=> pc[w] \in {"fresh", "swap"}
  BY <1>1 DEF Merging, Actors
<1>3. Placed(w)
  BY <1>1 DEF SingleInv, Working
<1> QED BY <1>2, <1>3 DEF Contents, Placed

(* With one worker and no other goroutine calling Compact or Reset, each     *)
(* published event is counted exactly once, in base or in the current        *)
(* overlay, at every step of processEvent and doCompact, for any number of   *)
(* events, any compaction strategy and threshold, and any readers.           *)
THEOREM ExactlyOnceHolds == ASSUME SingleWriter PROVE Spec => []ExactlyOnce
<1>1. TypeInv /\ SingleInv => ExactlyOnce
  BY SingleContents DEF ExactlyOnce, Once, TypeInv
<1> QED BY <1>1, SingleAlways, PTL

(* Under the same assumption ids are published in increasing order.          *)
THEOREM MonotoneVersions == ASSUME SingleWriter PROVE Spec => VersionMonotone
<1>1. TypeInv /\ SingleInv /\ [Next]_vars => [current' >= current]_vars
  <2> SUFFICES ASSUME TypeInv, SingleInv, Next PROVE current' >= current
    OBVIOUS
  <2>1. PICK w : Workers = {w} /\ Users = {}
    BY DEF SingleWriter
  <2>2. Working(w) /\ current \in Int
    BY <2>1 DEF SingleInv, TypeInv, TypeOK, IDs
  <2>3. CASE PublishEvent(w)
    BY <2>2, <2>3 DEF PublishEvent, Goto, Working
  <2>4. CASE SwapOverlay(w)
    BY <2>2, <2>4 DEF SwapOverlay, Goto, Working
  <2>5. CASE ~ PublishEvent(w) /\ ~ SwapOverlay(w)
    <3>1. current' = current
      <4>1. CASE WorkerStep(w)
        BY <2>5, <4>1 DEF WorkerStep, TakeEvent, ExtendOverlay, CountEvent,
           DecideCompact, engineVars
      <4>2. CASE CompactStep(w)
        BY <2>5, <4>2 DEF CompactStep, LockBase, MergeBase, FreshVersion,
           ZeroCount, SpawnSave, engineVars
      <4>3. ASSUME NEW s \in saving, FinishSave(s) \/ FailSave(s)
            PROVE  current' = current
        BY <4>3 DEF FinishSave, FailSave, engineVars
      <4>4. ASSUME NEW r \in Readers, ReaderStep(r) PROVE current' = current
        BY <4>4 DEF ReaderStep, AcquireVersion, ReadBase, CloseSnapshot, engineVars
      <4> QED BY <2>1, <4>1, <4>2, <4>3, <4>4 DEF Next, Actors
    <3> QED BY <2>2, <3>1
  <2> QED BY <2>3, <2>4, <2>5
<1> QED BY <1>1, SingleAlways, PTL DEF Spec, VersionMonotone

-----------------------------------------------------------------------------
(* OverlayBounded.  The counter follows the overlay of the current version:  *)
(* it is behind by one between PublishEvent and CountEvent, and stale from   *)
(* SwapOverlay to ZeroCount.  An overlay the worker goes on with is below    *)
(* the threshold.                                                            *)
Overlay == Support(graph[current])

Tallied(w) ==
    /\ IsFiniteSet(Overlay)
    /\ pc[w] = "zero" => Overlay = {}
    /\ pc[w] = "count" => overlayCount + 1 = Cardinality(Overlay)
    /\ pc[w] \notin {"zero", "count"} => overlayCount = Cardinality(Overlay)
    /\ Strategy = "volume" /\ pc[w] \in {"idle", "extend", "publish", "count", "save"} =>
          overlayCount < Threshold \/ overlayCount = 0

TallyInv == \A w \in Workers : Tallied(w)

LEMMA TallyInit == Init => TallyInv
<1> SUFFICES ASSUME Init, NEW w \in Workers PROVE Tallied(w)
  BY DEF TallyInv
<1>1. pc[w] = "idle" /\ graph[current] = EmptyGraph /\ overlayCount = 0
  BY BoundsAssumption DEF Init, Actors, IDs
<1> QED BY <1>1, GraphCounts, FS_EmptySet DEF Tallied, Overlay

LEMMA TallyStep ==
    ASSUME SingleWriter, TypeOK, SingleInv, TallyInv, [Next]_vars
    PROVE  TallyInv'
<1> USE DEF Goto, engineVars, actorVars, storageVars, readerVars
<1>1. PICK w : Workers = {w} /\ Users = {} /\ w \in Actors
  BY DEF SingleWriter, Actors
<1>t. /\ Working(w) /\ Tallied(w)
      /\ pc \in [Actors -> Places] /\ overlayCount \in Nat
      /\ graph \in [IDs -> Graphs] /\ current \in IDs /\ mine[w] \in IDs
  BY <1>1 DEF SingleInv, TallyInv, TypeOK
<1> SUFFICES Tallied(w)'
  BY <1>1 DEF TallyInv
<1>a. ASSUME UNCHANGED <<graph, current, overlayCount, pc>> PROVE Tallied(w)'
  BY <1>t, <1>a DEF Tallied, Overlay, Support
<1>2. CASE TakeEvent(w)
  <2>1. UNCHANGED <<graph, current, overlayCount>> /\ pc[w] = "idle" /\ pc'[w] = "extend"
    BY <1>t, <1>2, <1>1 DEF TakeEvent
  <2> QED BY <1>t, <2>1 DEF Tallied, Overlay, Support
<1>3. ASSUME NEW g, AllocateVersion(w, g), UNCHANGED <<current, overlayCount>>,
             \/ pc[w] = "extend" /\ pc'[w] = "publish"
             \/ pc[w] = "fresh" /\ pc'[w] = "swap"
      PROVE  Tallied(w)'
  <2>1. graph'[current] = graph[current]
    BY <1>t, <1>3 DEF AllocateVersion, Working, TypeOK, IDs
  <2> QED BY <1>t, <1>3, <2>1 DEF Tallied, Overlay, Support
<1>4. CASE PublishEvent(w)
  <2>1. /\ UNCHANGED <<graph, overlayCount>> /\ current' = mine[w]
        /\ pc[w] = "publish" /\ pc'[w] = "count" /\ ev[w] \in Events
    BY <1>t, <1>1, <1>4 DEF PublishEvent, TypeOK
  <2>2. ev[w] \notin Overlay
    <3>1. Merge(base, graph[current]) = Once(Published) /\ ev[w] \notin Published
      BY <1>t, <2>1 DEF Working, Placed
    <3>2. base[ev[w]] + graph[current][ev[w]] = 0
      BY <2>1, <3>1 DEF Merge, Once
    <3>3. base[ev[w]] \in Nat /\ graph[current][ev[w]] \in Nat
      BY <1>t, <2>1 DEF TypeOK, Graphs
    <3> QED BY <3>2, <3>3 DEF Overlay, Support
  <2>3. Overlay' = Overlay \cup {ev[w]}
    <3>1. graph[mine[w]] = WithEvent(graph[current], ev[w]) /\ graph[current] \in Graphs
      BY <1>t, <2>1 DEF Working
    <3>2. Support(graph[mine[w]]) = Support(graph[current]) \cup {ev[w]}
      BY <2>1, <3>1, GraphCounts
    <3> QED BY <2>1, <3>2 DEF Overlay, Support
  <2>4. IsFiniteSet(Overlay') /\ Cardinality(Overlay') = Cardinality(Overlay) + 1
    BY <1>t, <2>2, <2>3, FS_AddElement DEF Tallied
  <2> QED BY <1>t, <2>1, <2>4 DEF Tallied
<1>5. CASE CountEvent(w)
  <2>1. /\ UNCHANGED <<graph, current>> /\ overlayCount' = overlayCount + 1
        /\ pc[w] = "count" /\ pc'[w] = "decide"
    BY <1>t, <1>1, <1>5 DEF CountEvent
  <2> QED BY <1>t, <2>1 DEF Tallied, Overlay, Support
<1>6. CASE DecideCompact(w)
  <2>1. UNCHANGED <<graph, current, overlayCount>> /\ pc[w] = "decide"
    BY <1>6 DEF DecideCompact
  <2>2. PICK yes \in ShouldCompact : pc' = [pc EXCEPT ![w] = IF yes THEN "lock" ELSE "idle"]
    BY <1>6 DEF DecideCompact
  <2>3. pc'[w] \in {"lock", "idle"}
        /\ (pc'[w] = "idle" /\ Strategy = "volume" => overlayCount < Threshold)
    <3>1. pc'[w] = IF yes THEN "lock" ELSE "idle"
      BY <1>t, <1>1, <2>2
    <3>2. Strategy = "volume" => yes = (overlayCount >= Threshold)
      BY DEF ShouldCompact
    <3>3. pc'[w] = "idle" /\ Strategy = "volume" => ~ (overlayCount >= Threshold)
      <4>1. "lock" # "idle"
        OBVIOUS
      <4> QED BY <3>1, <3>2, <4>1, Zenon
    <3> QED BY <1>t, <3>1, <3>3, BoundsAssumption
  <2> QED BY <1>t, <2>1, <2>3 DEF Tallied, Overlay, Support
<1>7. CASE LockBase(w) \/ MergeBase(w)
  <2>1. UNCHANGED <<graph, current, overlayCount>> /\ pc'[w] \in {"merge", "fresh"}
        /\ pc[w] \in {"lock", "merge"}
    BY <1>t, <1>1, <1>7 DEF LockBase, MergeBase
  <2> QED BY <1>t, <2>1 DEF Tallied, Overlay, Support
<1>8. CASE SwapOverlay(w)
  <2>1. /\ UNCHANGED <<graph, overlayCount>> /\ current' = mine[w]
        /\ pc[w] = "swap" /\ pc'[w] = "zero"
    BY <1>t, <1>1, <1>8 DEF SwapOverlay
  <2>2. Overlay' = {}
    <3>1. graph'[current'] = EmptyGraph
      BY <1>t, <2>1 DEF Working
    <3> QED BY <3>1, GraphCounts DEF Overlay, Support
  <2> QED BY <2>1, <2>2, FS_EmptySet DEF Tallied
<1>9. CASE ZeroCount(w)
  <2>1. /\ UNCHANGED <<graph, current>> /\ overlayCount' = 0
        /\ pc[w] = "zero" /\ pc'[w] \in {"save", "idle"}
    BY <1>t, <1>1, <1>9 DEF ZeroCount
  <2>2. Overlay' = {}
    BY <1>t, <2>1 DEF Tallied, Overlay, Support
  <2> QED BY <2>1, <2>2, FS_EmptySet DEF Tallied
<1>10. CASE SpawnSave(w)
  <2>1. UNCHANGED <<graph, current, overlayCount>> /\ pc[w] = "save" /\ pc'[w] = "idle"
    BY <1>t, <1>1, <1>10 DEF SpawnSave
  <2> QED BY <1>t, <2>1 DEF Tallied, Overlay, Support
<1>11. ASSUME NEW s \in saving, FinishSave(s) \/ FailSave(s) PROVE Tallied(w)'
  BY <1>11, <1>a DEF FinishSave, FailSave
<1>12. ASSUME NEW r \in Readers, ReaderStep(r) PROVE Tallied(w)'
  BY <1>12, <1>a DEF ReaderStep, AcquireVersion, ReadBase, CloseSnapshot
<1>13. CASE UNCHANGED vars
  BY <1>13, <1>a DEF vars
<1>14. ExtendOverlay(w) \/ FreshVersion(w) => Tallied(w)'
  BY <1>t, <1>1, <1>3 DEF ExtendOverlay, FreshVersion
<1> QED BY <1>1, <1>2, <1>4, <1>5, <1>6, <1>7, <1>8, <1>9, <1>10, <1>11, <1>12, <1>13, <1>14
        DEF Next, WorkerStep, CompactStep, Actors

(* shouldCompact reads a counter that is kept apart from the overlay: with    *)
(* one writer the two agree whenever the worker is back at the channel, and   *)
(* the overlay is then below the threshold, whatever the threshold.           *)
THEOREM OverlayStaysBounded == ASSUME SingleWriter PROVE Spec => []OverlayBounded
<1>1. TypeInv /\ SingleInv /\ TallyInv /\ [Next]_vars => TallyInv'
  BY TallyStep DEF TypeInv
<1>2. TallyInv => OverlayBounded
  BY DEF TallyInv, Tallied, OverlayBounded, Overlay, SingleWriter, Actors
<1> QED BY <1>1, <1>2, TallyInit, SingleAlways, PTL DEF Spec

-----------------------------------------------------------------------------
(* StorageNeverAhead.  What a Save goroutine carries was the base once, and  *)
(* without Reset the base only grows.                                        *)
Below(g, h) == \A e \in Events : g[e] <= h[e]
StorageInv == Below(stored, base) /\ \A s \in saving : Below(s.data, base)

LEMMA StorageStep ==
    ASSUME "Reset" \notin Calls, TypeOK, StorageInv, [Next]_vars
    PROVE  StorageInv'
<1> USE DEF engineVars, actorVars, storageVars, readerVars
<1>t. /\ base \in Graphs /\ stored \in Graphs /\ \A s \in saving : s.data \in Graphs
      /\ \A a \in Actors : graph[seen[a]] \in Graphs
  BY DEF TypeOK
<1>1. ASSUME UNCHANGED <<base, stored, saving>> PROVE StorageInv'
  BY <1>1 DEF StorageInv, Below
<1>2. ASSUME NEW a \in Actors, MergeBase(a) PROVE StorageInv'
  <2>1. base' = Merge(base, graph[seen[a]]) /\ UNCHANGED <<stored, saving>>
    BY <1>2 DEF MergeBase
  <2>2. \A e \in Events : base[e] \in Nat /\ base'[e] \in Nat /\ base[e] <= base'[e]
    BY <1>t, <2>1 DEF Merge, Graphs
  <2>3. \A g \in Graphs : Below(g, base) => Below(g, base)'
    BY <2>2 DEF Below, Graphs
  <2> QED BY <1>t, <2>1, <2>2, <2>3 DEF StorageInv, Below, Graphs
<1>3. ASSUME NEW a \in Actors, SpawnSave(a) PROVE StorageInv'
  <2>1. UNCHANGED <<base, stored>> /\ \A s \in saving' : s \in saving \/ s.data = base
    BY <1>3 DEF SpawnSave
  <2>2. Below(base, base)
    BY <1>t DEF Below, Graphs
  <2> QED BY <2>1, <2>2 DEF StorageInv, Below
<1>4. ASSUME NEW s \in saving, FinishSave(s) \/ FailSave(s) PROVE StorageInv'
  BY <1>4 DEF FinishSave, FailSave, StorageInv, Below
<1>5. ASSUME NEW w \in Workers, WorkerStep(w) PROVE StorageInv'
  BY <1>1, <1>5 DEF WorkerStep, TakeEvent, ExtendOverlay, PublishEvent, CountEvent, DecideCompact
<1>6. ASSUME NEW a \in Actors, CompactStep(a), ~ MergeBase(a), ~ SpawnSave(a) PROVE StorageInv'
  BY <1>1, <1>6 DEF CompactStep, LockBase, FreshVersion, SwapOverlay, ZeroCount
<1>7. ASSUME NEW u \in Users, CallCompact(u) \/ CallReset(u) \/ ResetStep(u) PROVE StorageInv'
  BY <1>1, <1>7 DEF CallCompact, CallReset, ResetStep, ResetCount, ResetFresh, ResetSwap
<1>8. ASSUME NEW r \in Readers, ReaderStep(r) PROVE StorageInv'
  BY <1>1, <1>8 DEF ReaderStep, AcquireVersion, ReadBase, CloseSnapshot
<1>9. CASE UNCHANGED vars
  BY <1>1, <1>9 DEF vars
<1> QED BY <1>2, <1>3, <1>4, <1>5, <1>6, <1>7, <1>8, <1>9 DEF Next

(* The Saves that follow compactions finish in any order and may fail: while  *)
(* nobody calls Reset, the storage never holds an event more often than the   *)
(* base does, whoever compacts.                                               *)
THEOREM StorageIsBehind == ASSUME "Reset" \notin Calls PROVE Spec => []StorageNeverAhead
<1>1. Init => StorageInv
  BY DEF Init, StorageInv, Below, EmptyGraph
<1>2. TypeInv /\ StorageInv /\ [Next]_vars => StorageInv'
  BY StorageStep DEF TypeInv
<1>3. Spec => []TypeInv
  BY TypeInit, TypeStep, PTL DEF Spec
<1>4. StorageInv => StorageNeverAhead
  BY DEF StorageInv, Below, StorageNeverAhead
<1> QED BY <1>1, <1>2, <1>3, <1>4, PTL DEF Spec

-----------------------------------------------------------------------------
(* The refinement: publishing an event is Accept, AcquireVersion is Ask,     *)
(* ReadBase is Open, CloseSnapshot is Close, and every other step, all of    *)
(* compaction among them, changes nothing the ledger can see.                *)

(* A reader that has its version but not yet its base will find, in the two  *)
(* together, everything that was published when it asked: the version it     *)
(* holds is frozen and the base only grows.                                  *)
Floor(r) ==
    /\ since[r] <= Len(log)
    /\ status[r] = "idle" => since[r] = 0
    /\ status[r] = "acquired" =>
          Applied(since[r]) \subseteq Support(base) \cup Support(graph[held[r]])

FloorInv == \A r \in Readers : Floor(r)

RefInv == TypeInv /\ SingleInv /\ Backed /\ FloorInv

LEMMA RefInit == Init => FloorInv
BY DEF Init, FloorInv, Floor

(* A step of the writer neither shrinks the base nor touches a version that  *)
(* a reader holds.                                                           *)
LEMMA WriterStep ==
    ASSUME SingleWriter, TypeOK, SingleInv, Backed,
           \/ \E w \in Workers : WorkerStep(w)
           \/ \E a \in Actors : CompactStep(a)
           \/ \E s \in saving : FinishSave(s) \/ FailSave(s)
    PROVE  /\ UNCHANGED <<status, held, heldBase, since>>
           /\ Support(base) \subseteq Support(base')
           /\ \A r \in Readers : graph'[held[r]] = graph[held[r]]
<1> USE DEF engineVars, actorVars, storageVars, readerVars
<1>1. UNCHANGED <<status, held, heldBase, since>>
  BY DEF WorkerStep, TakeEvent, ExtendOverlay, PublishEvent, CountEvent, DecideCompact,
         CompactStep, LockBase, MergeBase, FreshVersion, SwapOverlay, ZeroCount,
         SpawnSave, FinishSave, FailSave
<1>2. UNCHANGED base \/ \E a \in Actors : base' = Merge(base, graph[seen[a]])
  BY DEF WorkerStep, TakeEvent, ExtendOverlay, PublishEvent, CountEvent, DecideCompact,
         CompactStep, LockBase, MergeBase, FreshVersion, SwapOverlay, ZeroCount,
         SpawnSave, FinishSave, FailSave
<1>3. Support(base) \subseteq Support(base')
  <2>1. ASSUME NEW a \in Actors, base' = Merge(base, graph[seen[a]])
        PROVE  Support(base) \subseteq Support(base')
    <3>1. base \in Graphs /\ graph[seen[a]] \in Graphs
      BY DEF TypeOK
    <3> QED BY <2>1, <3>1, GraphCounts
  <2> QED BY <1>2, <2>1
<1>4. UNCHANGED graph \/ \E a, g : AllocateVersion(a, g)
  BY DEF WorkerStep, TakeEvent, ExtendOverlay, PublishEvent, CountEvent, DecideCompact,
         CompactStep, LockBase, MergeBase, FreshVersion, SwapOverlay, ZeroCount,
         SpawnSave, FinishSave, FailSave
<1>5. \A r \in Readers : held[r] \in IDs /\ held[r] <= versionID
  BY DEF TypeOK, Backed, BackedIDs
<1>6. ASSUME NEW a, NEW g, AllocateVersion(a, g), NEW r \in Readers
      PROVE  graph'[held[r]] = graph[held[r]]
  BY <1>5, <1>6 DEF AllocateVersion, TypeOK, IDs
<1> QED BY <1>1, <1>3, <1>4, <1>6

(* The log only grows, so a prefix of it stays what it was.                  *)
LEMMA LogStep ==
    ASSUME TypeOK, [Next]_vars
    PROVE  \/ UNCHANGED log
           \/ \E e \in Events : log' = Append(log, e)
<1> USE DEF engineVars, actorVars, storageVars, readerVars
<1>1. ASSUME NEW w \in Workers, PublishEvent(w)
      PROVE  \E e \in Events : log' = Append(log, e)
  BY <1>1 DEF PublishEvent, Goto, TypeOK
<1>2. ASSUME NEW w \in Workers, WorkerStep(w), ~ PublishEvent(w) PROVE UNCHANGED log
  BY <1>2 DEF WorkerStep, TakeEvent, ExtendOverlay, CountEvent, DecideCompact
<1>3. ASSUME NEW a \in Actors, CompactStep(a) PROVE UNCHANGED log
  BY <1>3 DEF CompactStep, LockBase, MergeBase, FreshVersion, SwapOverlay, ZeroCount,
     SpawnSave
<1>4. ASSUME NEW u \in Users, CallCompact(u) \/ CallReset(u) \/ ResetStep(u)
      PROVE  UNCHANGED log
  BY <1>4 DEF CallCompact, CallReset, ResetStep, ResetCount, ResetFresh, ResetSwap
<1>5. ASSUME NEW s \in saving, FinishSave(s) \/ FailSave(s) PROVE UNCHANGED log
  BY <1>5 DEF FinishSave, FailSave
<1>6. ASSUME NEW r \in Readers, ReaderStep(r) PROVE UNCHANGED log
  BY <1>6 DEF ReaderStep, AcquireVersion, ReadBase, CloseSnapshot
<1> QED BY <1>1, <1>2, <1>3, <1>4, <1>5, <1>6 DEF Next, vars

LEMMA PrefixKept ==
    ASSUME TypeOK, [Next]_vars, NEW n \in Nat, n <= Len(log)
    PROVE  Applied(n)' = Applied(n) /\ n <= Len(log')
<1>1. ASSUME NEW e \in Events, log' = Append(log, e)
      PROVE  Applied(n)' = Applied(n) /\ n <= Len(log')
  <2>1. \A i \in 1 .. n : log'[i] = log[i]
    BY <1>1 DEF TypeOK
  <2>2. Len(log) \in Nat /\ Len(log') = Len(log) + 1
    BY <1>1 DEF TypeOK
  <2>3. n <= Len(log')
    BY <2>2
  <2>4. {log'[i] : i \in 1 .. n} = {log[i] : i \in 1 .. n}
    BY <2>1
  <2> QED BY <2>3, <2>4 DEF Applied
<1> QED BY <1>1, LogStep DEF Applied

(* What a reader can see when it asks: everything published, nothing else.   *)
LEMMA SeenNow ==
    ASSUME SingleWriter, TypeOK, SingleInv
    PROVE  Published \subseteq Support(base) \cup Support(graph[current])
<1>1. PICK w : Workers = {w} /\ Users = {}
  BY DEF SingleWriter
<1>2. Placed(w)
  BY <1>1 DEF SingleInv, Working
<1>3. Published \subseteq Events
  BY DEF Published, Applied, TypeOK
<1>4. Support(Once(Published)) = Published
  BY <1>3 DEF Support, Once
<1>5. base \in Graphs /\ graph[current] \in Graphs
  BY DEF TypeOK
<1>6. Support(Merge(base, graph[current])) = Support(base) \cup Support(graph[current])
  BY <1>5, GraphCounts
<1> QED BY <1>2, <1>4, <1>6 DEF Placed

LEMMA FloorStep ==
    ASSUME SingleWriter, RefInv, [Next]_vars
    PROVE  FloorInv'
<1> USE DEF engineVars, actorVars, storageVars, readerVars
<1>t. TypeOK /\ SingleInv /\ Backed /\ FloorInv /\ Users = {}
  BY DEF RefInv, TypeInv, SingleWriter
<1>n. Len(log) \in Nat /\ \A r \in Readers : since[r] \in Nat
  BY <1>t DEF TypeOK
<1> SUFFICES ASSUME NEW r \in Readers PROVE Floor(r)'
  BY DEF FloorInv
<1>f. Floor(r)
  BY <1>t DEF FloorInv
<1>p. Applied(since[r])' = {log'[i] : i \in 1 .. since'[r]}
  BY DEF Applied
<1>1. CASE \/ \E w \in Workers : WorkerStep(w)
           \/ \E a \in Actors : CompactStep(a)
           \/ \E s \in saving : FinishSave(s) \/ FailSave(s)
  <2>1. /\ UNCHANGED <<status, held, since>>
        /\ Support(base) \subseteq Support(base')
        /\ graph'[held[r]] = graph[held[r]]
    BY <1>1, <1>t, WriterStep
  <2>2. {log'[i] : i \in 1 .. since[r]} = Applied(since[r]) /\ since[r] <= Len(log')
    BY <1>t, <1>n, <1>f, PrefixKept DEF Floor, Applied
  <2> QED BY <1>f, <1>p, <2>1, <2>2 DEF Floor, Support
<1>2. ASSUME NEW q \in Readers, ReaderStep(q)
      PROVE  Floor(r)'
  <2>1. UNCHANGED <<base, graph, current, log>>
    BY <1>2 DEF ReaderStep, AcquireVersion, ReadBase, CloseSnapshot
  <2>2. CASE q # r
    <3>1. UNCHANGED <<status[r], held[r], since[r]>>
      BY <1>2, <1>t, <2>2 DEF ReaderStep, AcquireVersion, ReadBase, CloseSnapshot, TypeOK
    <3> QED BY <1>f, <2>1, <3>1 DEF Floor, Applied, Support
  <2>3. CASE q = r /\ AcquireVersion(r)
    <3>1. status'[r] = "acquired" /\ held'[r] = current /\ since'[r] = Len(log)
      BY <1>t, <2>3 DEF AcquireVersion, TypeOK
    <3>2. Applied(Len(log)) \subseteq Support(base) \cup Support(graph[current])
      BY <1>t, SeenNow DEF Published
    <3> QED BY <1>n, <2>1, <3>1, <3>2 DEF Floor, Applied, Support
  <2>4. CASE q = r /\ ReadBase(r)
    <3>1. status'[r] = "open" /\ held'[r] = held[r] /\ since'[r] = since[r]
      BY <1>t, <2>4 DEF ReadBase, TypeOK
    <3> QED BY <1>f, <2>1, <3>1 DEF Floor
  <2>5. CASE q = r /\ CloseSnapshot(r)
    <3>1. status'[r] = "idle" /\ since'[r] = 0
      BY <1>t, <2>5 DEF CloseSnapshot, TypeOK
    <3> QED BY <1>n, <2>1, <3>1 DEF Floor
  <2> QED BY <1>2, <2>2, <2>3, <2>4, <2>5 DEF ReaderStep
<1>3. CASE UNCHANGED vars
  <2>1. UNCHANGED <<base, graph, log, status, held, since>>
    BY <1>3 DEF vars
  <2> QED BY <1>f, <2>1 DEF Floor, Applied, Support
<1> QED BY <1>1, <1>2, <1>3, <1>t DEF Next

LEMMA RefAlways == ASSUME SingleWriter PROVE Spec => []RefInv
<1>1. TypeInv /\ SingleInv /\ Backed /\ FloorInv /\ [Next]_vars => FloorInv'
  BY FloorStep DEF RefInv
<1> QED BY <1>1, SingleAlways, BackedAlways, RefInit, PTL DEF Spec, RefInv

-----------------------------------------------------------------------------
(* The abstract state of a reader.                                           *)
LEMMA ViewBounds ==
    ASSUME SingleWriter, RefInv, NEW r \in Readers, ReadBase(r)
    PROVE  /\ Support(View(r))' \subseteq Published
           /\ Applied(since[r]) \subseteq Support(View(r))'
<1> USE DEF engineVars, actorVars, storageVars
<1>1. TypeOK /\ Backed /\ Floor(r)
  BY DEF RefInv, TypeInv, FloorInv
<1>2. /\ heldBase'[r] = base /\ held' = held /\ graph' = graph
      /\ base \in Graphs /\ graph[held[r]] \in Graphs
      /\ status[r] = "acquired"
  BY <1>1 DEF ReadBase, TypeOK
<1>3. View(r)' = Merge(base, graph[held[r]])
  BY <1>2 DEF View, Merge
<1>4. Support(View(r))' = Support(Merge(base, graph[held[r]]))
  BY <1>3 DEF Support
<1>5. Support(View(r))' = Support(base) \cup Support(graph[held[r]])
  BY <1>2, <1>4, GraphCounts
<1> QED BY <1>1, <1>2, <1>5 DEF Floor, Backed, BackedGraphs, BackedBases

AbsAsked == [r \in Readers |-> Applied(since[r])]
AbsView == [r \in Readers |-> IF status[r] = "open" THEN Support(View(r)) ELSE {}]

(* Contents is the bag of published events before and after every step.      *)
LEMMA ContentsStep ==
    ASSUME SingleWriter, TypeOK, SingleInv, TypeOK', SingleInv'
    PROVE  Contents = Once(Published) /\ Contents' = Once(Published')
<1>1. PICK w : Workers = {w} /\ Users = {}
  BY DEF SingleWriter
<1>2. Contents = Once(Published)
  BY SingleContents
<1>3. Merging' <=> pc'[w] \in {"fresh", "swap"}
  BY <1>1 DEF Merging, Actors
<1>4. Placed(w)'
  BY <1>1 DEF SingleInv, Working
<1>5. Contents' = Once(Published')
  BY <1>3, <1>4 DEF Contents, Placed, Once
<1> QED BY <1>2, <1>5

(* A step of the worker, a compaction or a Save accepts at most one event    *)
(* and leaves every reader's view where it was.                              *)
LEMMA LedgerWriterStep ==
    ASSUME SingleWriter, RefInv, TypeOK', SingleInv', [Next]_vars,
           \/ \E w \in Workers : WorkerStep(w)
           \/ \E a \in Actors : CompactStep(a)
           \/ \E s \in saving : FinishSave(s) \/ FailSave(s)
    PROVE  [Ledger!Next]_(Ledger!vars)
<1>t. TypeOK /\ SingleInv /\ Backed /\ FloorInv
  BY DEF RefInv, TypeInv
<1>1. /\ UNCHANGED <<status, held, heldBase, since>>
      /\ \A r \in Readers : graph'[held[r]] = graph[held[r]]
  BY <1>t, WriterStep
<1>2. AbsAsked' = AbsAsked
  <2>1. \A r \in Readers : {log'[i] : i \in 1 .. since[r]} = Applied(since[r])
    BY <1>t, PrefixKept DEF FloorInv, Floor, TypeOK, Applied
  <2>2. \A r \in Readers : {log'[i] : i \in 1 .. since'[r]} = Applied(since[r])
    BY <1>1, <2>1
  <2> QED BY <2>2 DEF AbsAsked, Applied
<1>3. AbsView' = AbsView
  <2>1. \A r \in Readers : Merge(heldBase'[r], graph'[held'[r]]) = Merge(heldBase[r], graph[held[r]])
    BY <1>1
  <2> QED BY <1>1, <2>1 DEF AbsView, View, Support, Merge
<1>4. Contents = Once(Published) /\ Contents' = Once(Published')
  BY <1>t, ContentsStep
<1>5. CASE UNCHANGED log
  <2>1. Contents' = Contents
    BY <1>4, <1>5 DEF Published, Applied
  <2> QED BY <1>1, <1>2, <1>3, <2>1 DEF Ledger!vars, AbsAsked, AbsView
<1>6. CASE \E w \in Workers : PublishEvent(w)
  <2>1. PICK w \in Workers : PublishEvent(w)
    BY <1>6
  <2>2. ev[w] \in Events /\ log' = Append(log, ev[w]) /\ ev[w] \notin Published
    BY <1>t, <2>1 DEF PublishEvent, Goto, TypeOK, SingleInv, Working
  <2>3. Published' = Published \cup {ev[w]}
    BY <1>t, <2>2, PublishedGrows DEF TypeOK
  <2>4. Contents[ev[w]] = 0 /\ Contents' = [Contents EXCEPT ![ev[w]] = 1]
    BY <1>4, <2>2, <2>3 DEF Once
  <2>5. Ledger!Accept(ev[w])
    BY <1>1, <1>2, <1>3, <2>2, <2>4 DEF Ledger!Accept, AbsAsked, AbsView
  <2> QED BY <2>2, <2>5 DEF Ledger!Next
<1>7. (\E w \in Workers : PublishEvent(w)) \/ UNCHANGED log
  BY DEF WorkerStep, TakeEvent, ExtendOverlay, CountEvent, DecideCompact, CompactStep,
     LockBase, MergeBase, FreshVersion, SwapOverlay, ZeroCount, SpawnSave, FinishSave,
     FailSave
<1> QED BY <1>5, <1>6, <1>7

(* A step of a reader is the ledger's step of the same reader.               *)
LEMMA LedgerReaderStep ==
    ASSUME SingleWriter, RefInv, TypeOK', SingleInv', NEW r \in Readers, ReaderStep(r)
    PROVE  Ledger!Next
<1>t. TypeOK /\ SingleInv /\ Backed /\ FloorInv
  BY DEF RefInv, TypeInv
<1>1. UNCHANGED <<base, graph, current, pc, log>>
  BY DEF ReaderStep, AcquireVersion, ReadBase, CloseSnapshot, engineVars, actorVars
<1>2. Contents' = Contents
  BY <1>1 DEF Contents, Merging, Merge
<1>3. Contents = Once(Published) /\ Ledger!Counted = Published
  <2>1. Contents = Once(Published)
    BY <1>t, SingleContents
  <2>2. Published \subseteq Events
    BY <1>t DEF TypeOK, Published, Applied
  <2> QED BY <2>1, <2>2 DEF Ledger!Counted, Once
<1>4. \A q \in Readers : q # r =>
         status'[q] = status[q] /\ held'[q] = held[q] /\ heldBase'[q] = heldBase[q]
         /\ since'[q] = since[q]
  BY <1>t DEF ReaderStep, AcquireVersion, ReadBase, CloseSnapshot, TypeOK
<1>5. AbsAsked' = [q \in Readers |-> Applied(since'[q])]
  BY <1>1 DEF AbsAsked, Applied
<1>6. AbsView' = [q \in Readers |-> IF status'[q] = "open"
                                    THEN Support(Merge(heldBase'[q], graph[held'[q]]))
                                    ELSE {}]
  BY <1>1 DEF AbsView, View, Support, Merge
<1>7. CASE AcquireVersion(r)
  <2>1. /\ status[r] = "idle" /\ status' = [status EXCEPT ![r] = "acquired"]
        /\ since'[r] = Len(log)
    BY <1>t, <1>7 DEF AcquireVersion, TypeOK
  <2>2. AbsAsked' = [AbsAsked EXCEPT ![r] = Published]
    BY <1>4, <1>5, <2>1 DEF AbsAsked, Published
  <2>3. AbsView' = AbsView
    BY <1>t, <1>4, <1>6, <2>1 DEF AbsView, View, TypeOK
  <2>4. Ledger!Ask(r)
    BY <1>2, <1>3, <2>1, <2>2, <2>3 DEF Ledger!Ask, AbsAsked, AbsView
  <2> QED BY <2>4 DEF Ledger!Next
<1>8. CASE ReadBase(r)
  <2>1. /\ status[r] = "acquired" /\ status' = [status EXCEPT ![r] = "open"]
        /\ since' = since
    BY <1>8 DEF ReadBase
  <2>2. AbsAsked' = AbsAsked
    BY <1>5, <2>1 DEF AbsAsked
  <2> DEFINE S == Support(View(r))'
  <2>3. S \subseteq Published /\ AbsAsked[r] \subseteq S
    BY <1>8, ViewBounds DEF AbsAsked
  <2>4. S = Support(Merge(heldBase'[r], graph[held'[r]]))
    BY <1>1 DEF View, Support, Merge
  <2>5. status'[r] = "open"
    BY <1>t, <2>1 DEF TypeOK
  <2>6. AbsView' = [AbsView EXCEPT ![r] = S]
    <3> DEFINE new(q) == Support(Merge(heldBase'[q], graph[held'[q]]))
               old(q) == Support(Merge(heldBase[q], graph[held[q]]))
    <3>1. AbsView = [q \in Readers |-> IF status[q] = "open" THEN old(q) ELSE {}]
      BY DEF AbsView, View
    <3>2. AbsView' = [q \in Readers |-> IF status'[q] = "open" THEN new(q) ELSE {}]
      BY <1>6
    <3>3. ASSUME NEW q \in Readers, q # r PROVE status'[q] = status[q] /\ new(q) = old(q)
      BY <1>t, <1>4, <2>1, <3>3 DEF TypeOK
    <3>4. S = new(r)
      BY <2>4
    <3> HIDE DEF S, new, old
    <3> QED BY <2>5, <3>1, <3>2, <3>3, <3>4
  <2>7. Ledger!Open(r)
    <3> HIDE DEF S
    <3> QED BY <1>2, <1>3, <2>1, <2>2, <2>3, <2>6 DEF Ledger!Open, AbsAsked, AbsView
  <2> QED BY <2>7 DEF Ledger!Next
<1>9. CASE CloseSnapshot(r)
  <2>1. /\ status[r] = "open" /\ status' = [status EXCEPT ![r] = "idle"]
        /\ since'[r] = 0
    BY <1>t, <1>9 DEF CloseSnapshot, TypeOK
  <2>2. AbsAsked' = [AbsAsked EXCEPT ![r] = {}]
    <3>1. Applied(0) = {}
      BY DEF Applied
    <3> QED BY <1>4, <1>5, <2>1, <3>1 DEF AbsAsked
  <2>3. AbsView' = [AbsView EXCEPT ![r] = {}]
    BY <1>t, <1>4, <1>6, <2>1 DEF AbsView, View, TypeOK
  <2>4. Ledger!Close(r)
    BY <1>2, <2>1, <2>2, <2>3 DEF Ledger!Close, AbsAsked, AbsView
  <2> QED BY <2>4 DEF Ledger!Next
<1> QED BY <1>7, <1>8, <1>9 DEF ReaderStep

(* The abstract initial state. *)
LEMMA LedgerInit == Init => Ledger!Init
<1> SUFFICES ASSUME Init PROVE Ledger!Init
  OBVIOUS
<1>1. Contents = EmptyGraph
  <2>1. ~ Merging
    BY DEF Init, Merging
  <2>2. graph[current] = EmptyGraph /\ base = EmptyGraph
    BY BoundsAssumption DEF Init, IDs
  <2> QED BY <2>1, <2>2 DEF Contents, Merge, EmptyGraph
<1>2. AbsAsked = [r \in Readers |-> {}]
  BY DEF Init, AbsAsked, Applied
<1>3. AbsView = [r \in Readers |-> {}]
  BY DEF Init, AbsView
<1> QED BY <1>1, <1>2, <1>3 DEF Init, Ledger!Init, EmptyGraph, AbsAsked, AbsView

(* A step that changes nothing changes nothing the ledger can see. *)
LEMMA LedgerStutter == UNCHANGED vars => UNCHANGED Ledger!vars
<1> SUFFICES ASSUME UNCHANGED vars PROVE UNCHANGED Ledger!vars
  OBVIOUS
<1>1. UNCHANGED <<base, graph, current, pc, log, status, held, heldBase, since>>
  BY DEF vars, engineVars, actorVars, readerVars
<1>2. Contents' = Contents
  BY <1>1 DEF Contents, Merging, Merge
<1>3. AbsAsked' = AbsAsked
  BY <1>1 DEF AbsAsked, Applied
<1>4. AbsView' = AbsView
  BY <1>1 DEF AbsView, View, Support, Merge
<1> QED BY <1>1, <1>2, <1>3, <1>4 DEF Ledger!vars, AbsAsked, AbsView

(* With one worker and no other goroutine in Compact or Reset, the engine's  *)
(* store implements the event ledger: snapshots, compactions and saves all   *)
(* look like steps of a ledger that counts each event once.                  *)
THEOREM EngineImplementsLedger == ASSUME SingleWriter PROVE Spec => ImplementsLedger
<1>1. TypeInv /\ SingleInv /\ [Next]_vars => TypeOK' /\ SingleInv'
  BY TypeStep, SingleStep DEF TypeInv
<1>2. RefInv /\ [Next]_vars => [Ledger!Next]_(Ledger!vars)
  <2> SUFFICES ASSUME RefInv, [Next]_vars PROVE Ledger!Next \/ UNCHANGED Ledger!vars
    OBVIOUS
  <2>1. TypeOK' /\ SingleInv'
    BY <1>1 DEF RefInv
  <2>2. CASE UNCHANGED vars
    BY <2>2, LedgerStutter
  <2>3. ASSUME NEW r \in Readers, ReaderStep(r) PROVE Ledger!Next
    BY <2>1, <2>3, LedgerReaderStep
  <2>4. CASE \/ \E w \in Workers : WorkerStep(w)
             \/ \E a \in Actors : CompactStep(a)
             \/ \E s \in saving : FinishSave(s) \/ FailSave(s)
    BY <2>1, <2>4, LedgerWriterStep
  <2>5. Users = {}
    BY DEF SingleWriter
  <2> QED BY <2>2, <2>3, <2>4, <2>5 DEF Next
<1> QED BY <1>2, LedgerInit, RefAlways, PTL DEF Spec, ImplementsLedger, Ledger!Spec

-----------------------------------------------------------------------------
(* SnapshotPrefix.  Until it reads the base, a reader would see a prefix of  *)
(* the log: the version it holds is frozen, and a merge brings the base to   *)
(* all that is published.  The base and every overlay count an event once,   *)
(* so that the two together count it at most twice.                          *)
Prefix(r, S) == \E n \in since[r] .. Len(log) : S = Applied(n)

Flat(g) == \A e \in Events : g[e] <= 1

Seeing(r) ==
    /\ status[r] = "acquired" =>
          /\ Flat(graph[held[r]])
          /\ Prefix(r, Support(base) \cup Support(graph[held[r]]))
    /\ status[r] = "open" =>
          Prefix(r, Support(View(r))) /\ \A e \in Events : View(r)[e] <= 2

SeeInv == Flat(graph[current]) /\ \A r \in Readers : Seeing(r)

(* A prefix of the log stays one.                                            *)
LEMMA PrefixStays ==
    ASSUME TypeOK, [Next]_vars, NEW r \in Readers, since'[r] = since[r], NEW S, Prefix(r, S)
    PROVE  \E n \in since'[r] .. Len(log') : S = Applied(n)'
<1>1. PICK n \in since[r] .. Len(log) : S = Applied(n)
  BY DEF Prefix
<1>2. n \in Nat /\ n <= Len(log) /\ since[r] \in Nat /\ since[r] <= n
  BY <1>1 DEF TypeOK
<1>3. Applied(n)' = Applied(n) /\ n <= Len(log')
  BY <1>2, PrefixKept
<1>4. TypeOK => Len(log') \in Int
  BY <1>3, LogStep DEF TypeOK
<1> QED BY <1>1, <1>2, <1>3, <1>4

(* The base counts an event once, at most.                                   *)
LEMMA FlatBase ==
    ASSUME SingleWriter, TypeOK, SingleInv
    PROVE  /\ Flat(base)
           /\ ~ Merging => Flat(graph[current])
           /\ Merging => base = Once(Published)
<1>1. PICK w : Workers = {w} /\ Users = {}
  BY DEF SingleWriter
<1>2. Placed(w) /\ (Merging <=> pc[w] \in {"fresh", "swap"})
  BY <1>1 DEF SingleInv, Working, Merging, Actors
<1>3. \A e \in Events : Once(Published)[e] <= 1
  BY DEF Once
<1>4. \A e \in Events : base[e] \in Nat /\ graph[current][e] \in Nat
  BY DEF TypeOK, Graphs
<1>5. CASE Merging
  BY <1>2, <1>3, <1>5 DEF Placed, Flat
<1>6. CASE ~ Merging
  <2>1. Merge(base, graph[current]) = Once(Published)
    BY <1>2, <1>6 DEF Placed
  <2>2. \A e \in Events : base[e] + graph[current][e] <= 1
    BY <1>3, <2>1 DEF Merge
  <2> QED BY <1>4, <1>6, <2>2 DEF Flat
<1> QED BY <1>5, <1>6

(* Right now, base and current overlay show all that is published.           *)
LEMMA ShownNow ==
    ASSUME SingleWriter, TypeOK, SingleInv, Backed
    PROVE  Support(base) \cup Support(graph[current]) = Published
BY SeenNow DEF Backed, BackedGraphs, BackedBases

LEMMA SeeStep ==
    ASSUME SingleWriter, TypeOK, SingleInv, Backed, SeeInv, TypeOK', SingleInv', Backed', [Next]_vars
    PROVE  SeeInv'
<1> USE DEF engineVars, actorVars, storageVars, readerVars
<1>1. PICK w : Workers = {w} /\ Users = {} /\ w \in Actors /\ Actors = {w}
  BY DEF SingleWriter, Actors
<1>t. /\ pc \in [Actors -> Places] /\ graph \in [IDs -> Graphs] /\ current \in IDs
      /\ log \in Seq(Events) /\ Len(log) \in Nat /\ base \in Graphs
      /\ held \in [Readers -> IDs] /\ heldBase \in [Readers -> Graphs]
      /\ status \in [Readers -> {"idle", "acquired", "open"}] /\ since \in [Readers -> Nat]
  BY DEF TypeOK
<1>s. Merging <=> pc[w] \in {"fresh", "swap"}
  BY <1>1 DEF Merging
<1>s1. Merging' <=> pc'[w] \in {"fresh", "swap"}
  BY <1>1 DEF Merging
<1>2. UNCHANGED <<graph, current>> => Flat(graph[current])'
  BY DEF SeeInv, Flat
<1>3. ASSUME NEW a, NEW g, AllocateVersion(a, g), UNCHANGED current PROVE Flat(graph[current])'
  <2>1. graph'[current] = graph[current]
    BY <1>t, <1>1, <1>3 DEF AllocateVersion, SingleInv, Working, TypeOK, IDs
  <2> QED BY <1>3, <2>1 DEF SeeInv, Flat
<1>4. ASSUME PublishEvent(w) PROVE Flat(graph[current])'
  <2>1. /\ UNCHANGED graph /\ current' = mine[w] /\ pc[w] = "publish" /\ ev[w] \in Events
        /\ graph[mine[w]] = WithEvent(graph[current], ev[w])
        /\ Merge(base, graph[current]) = Once(Published) /\ ev[w] \notin Published
    BY <1>1, <1>t, <1>4 DEF PublishEvent, Goto, TypeOK, SingleInv, Working, Placed
  <2>2. base[ev[w]] + graph[current][ev[w]] = 0
    BY <2>1 DEF Merge, Once
  <2>3. base[ev[w]] \in Nat /\ graph[current][ev[w]] = 0
    BY <1>t, <2>1, <2>2 DEF Graphs
  <2>4. \A e \in Events : WithEvent(graph[current], ev[w])[e] <= 1
    BY <1>t, <2>1, <2>3 DEF SeeInv, Flat, WithEvent, Graphs
  <2> QED BY <2>1, <2>4 DEF Flat
<1>5. ASSUME SwapOverlay(w) PROVE Flat(graph[current])'
  <2>1. graph'[current'] = EmptyGraph
    BY <1>1, <1>t, <1>5 DEF SwapOverlay, Goto, SingleInv, Working
  <2> QED BY <2>1 DEF Flat, EmptyGraph
<1>6. Flat(graph[current])'
  <2>1. CASE WorkerStep(w)
    BY <1>2, <1>3, <1>4, <2>1 DEF WorkerStep, TakeEvent, ExtendOverlay, CountEvent, DecideCompact
  <2>2. CASE CompactStep(w)
    BY <1>2, <1>3, <1>5, <2>2 DEF CompactStep, LockBase, MergeBase, FreshVersion, ZeroCount,
       SpawnSave
  <2>3. ASSUME NEW s \in saving, FinishSave(s) \/ FailSave(s) PROVE Flat(graph[current])'
    BY <1>2, <2>3 DEF FinishSave, FailSave
  <2>4. ASSUME NEW r \in Readers, ReaderStep(r) PROVE Flat(graph[current])'
    BY <1>2, <2>4 DEF ReaderStep, AcquireVersion, ReadBase, CloseSnapshot
  <2>5. CASE UNCHANGED vars
    BY <1>2, <2>5 DEF vars
  <2> QED BY <1>1, <2>1, <2>2, <2>3, <2>4, <2>5 DEF Next
<1>7. SUFFICES ASSUME NEW r \in Readers PROVE Seeing(r)'
  BY <1>6 DEF SeeInv
<1>v. \A S : since'[r] = since[r] /\ Prefix(r, S) => \E n \in since'[r] .. Len(log') : S = Applied(n)'
  BY PrefixStays
<1>8. ASSUME UNCHANGED <<status, held, heldBase, since>>, graph'[held[r]] = graph[held[r]],
             Support(base') = Support(base)
      PROVE  Seeing(r)'
  <2>1. View(r)' = View(r)
    BY <1>8 DEF View, Merge
  <2>2. Seeing(r)
    BY DEF SeeInv
  <2>3. Flat(graph[held[r]])' <=> Flat(graph[held[r]])
    BY <1>8 DEF Flat
  <2>4. Support(base)' = Support(base)
    BY <1>8 DEF Support
  <2>5. ASSUME NEW S, Prefix(r, S) PROVE Prefix(r, S)'
    BY <1>8, <1>v, <2>5 DEF Prefix
  <2>6. Support(graph[held[r]])' = Support(graph[held[r]])
    BY <1>8 DEF Support
  <2>7. CASE status[r] = "acquired"
    <3>1. Flat(graph[held[r]]) /\ Prefix(r, Support(base) \cup Support(graph[held[r]]))
      BY <2>2, <2>7 DEF Seeing
    <3>2. Prefix(r, Support(base) \cup Support(graph[held[r]]))'
      BY <2>4, <2>5, <2>6, <3>1
    <3> QED BY <1>8, <2>3, <2>7, <3>1, <3>2 DEF Seeing
  <2>8. CASE status[r] = "open"
    <3>1. Prefix(r, Support(View(r))) /\ \A e \in Events : View(r)[e] <= 2
      BY <2>2, <2>8 DEF Seeing
    <3>2. Support(View(r))' = Support(View(r))
      BY <2>1 DEF Support
    <3>3. Prefix(r, Support(View(r)))'
      BY <2>5, <3>1, <3>2
    <3> QED BY <1>8, <2>1, <2>8, <3>1, <3>3 DEF Seeing
  <2>9. CASE status[r] \notin {"acquired", "open"}
    BY <1>8, <2>9 DEF Seeing
  <2> QED BY <2>7, <2>8, <2>9
<1>9. CASE WorkerStep(w) \/ (CompactStep(w) /\ ~ MergeBase(w))
  <2>1. UNCHANGED base
    BY <1>9 DEF WorkerStep, TakeEvent, ExtendOverlay, PublishEvent, CountEvent, DecideCompact,
       CompactStep, LockBase, FreshVersion, SwapOverlay, ZeroCount, SpawnSave
  <2>2. UNCHANGED <<status, held, heldBase, since>> /\ graph'[held[r]] = graph[held[r]]
    BY <1>1, <1>9, WriterStep
  <2> QED BY <1>8, <2>1, <2>2 DEF Support
<1>10. CASE MergeBase(w)
  <2>1. UNCHANGED <<status, held, heldBase, since, log, graph>> /\ Published' = Published
    BY <1>10 DEF MergeBase, Published, Applied
  <2>2. Support(base)' = Published
    <3>1. seen[w] = current /\ base' = Merge(base, graph[current])
      BY <1>1, <1>10 DEF MergeBase, Goto, SingleInv, Working
    <3>2. Support(Merge(base, graph[current])) = Published
      BY <1>t, ShownNow, GraphCounts
    <3> QED BY <3>1, <3>2 DEF Support
  <2>3. Support(base') \cup Support(graph'[held'[r]]) = Published
    BY <2>1, <2>2 DEF Backed, BackedGraphs, Support
  <2>4. status[r] = "acquired" => since[r] <= Len(log)
    <3>1. status[r] = "acquired" => \E n \in since[r] .. Len(log) : TRUE
      BY DEF SeeInv, Seeing, Prefix
    <3> QED BY <1>t, <3>1
  <2>5. View(r)' = View(r)
    BY <2>1 DEF View, Merge
  <2>6. status[r] = "acquired" => Flat(graph'[held'[r]]) /\ Len(log) \in since[r] .. Len(log)
    <3>1. status[r] = "acquired" => Flat(graph[held[r]])
      BY DEF SeeInv, Seeing
    <3>2. status[r] = "acquired" => Len(log) \in since[r] .. Len(log)
      BY <1>t, <2>4
    <3> QED BY <2>1, <3>1, <3>2
  <2>7. status[r] = "open" => /\ \E n \in since[r] .. Len(log) : Support(View(r)) = Applied(n)
                             /\ \A e \in Events : View(r)[e] <= 2
    BY DEF SeeInv, Seeing, Prefix
  <2> QED BY <2>1, <2>3, <2>5, <2>6, <2>7 DEF Seeing, Prefix, Published, Support, Flat, Applied
<1>11. ASSUME NEW s \in saving, FinishSave(s) \/ FailSave(s) PROVE Seeing(r)'
  BY <1>8, <1>11 DEF FinishSave, FailSave
<1>12. CASE UNCHANGED vars
  BY <1>8, <1>12 DEF vars
<1>13. ASSUME NEW q \in Readers, ReaderStep(q) PROVE Seeing(r)'
  <2>1. UNCHANGED <<base, graph, current, log>>
    BY <1>13 DEF ReaderStep, AcquireVersion, ReadBase, CloseSnapshot
  <2>2. CASE q # r
    <3>1. /\ status'[r] = status[r] /\ held'[r] = held[r] /\ since'[r] = since[r]
          /\ heldBase'[r] = heldBase[r]
      BY <1>t, <1>13, <2>2 DEF ReaderStep, AcquireVersion, ReadBase, CloseSnapshot
    <3>2. View(r)' = View(r)
      BY <2>1, <3>1 DEF View, Merge
    <3>3. Seeing(r)
      BY DEF SeeInv
    <3> QED BY <2>1, <3>1, <3>2, <3>3 DEF Seeing, Prefix, Support, Flat, Applied
  <2>3. CASE q = r /\ AcquireVersion(r)
    <3>1. status'[r] = "acquired" /\ held'[r] = current /\ since'[r] = Len(log)
      BY <1>t, <2>3 DEF AcquireVersion
    <3>2. Support(base) \cup Support(graph[current]) = Applied(Len(log)) /\ Flat(graph[current])
      BY ShownNow DEF Published, SeeInv
    <3>3. Len(log) \in Len(log) .. Len(log)
      BY <1>t
    <3> QED BY <2>1, <3>1, <3>2, <3>3 DEF Seeing, Prefix, Support, Flat, Applied
  <2>4. CASE q = r /\ ReadBase(r)
    <3>1. /\ status[r] = "acquired" /\ status'[r] = "open" /\ held'[r] = held[r]
          /\ since'[r] = since[r] /\ heldBase'[r] = base
      BY <1>t, <2>4 DEF ReadBase
    <3>2. View(r)' = Merge(base, graph[held[r]])
      BY <2>1, <3>1 DEF View, Merge
    <3>3. Support(View(r)') = Support(base) \cup Support(graph[held[r]])
      BY <1>t, <3>2, GraphCounts
    <3>4. Flat(base) /\ Flat(graph[held[r]])
      BY <3>1, FlatBase DEF SeeInv, Seeing
    <3>5. \A e \in Events : View(r)'[e] <= 2
      <4>1. \A e \in Events : base[e] \in Nat /\ graph[held[r]][e] \in Nat
        BY <1>t DEF Graphs
      <4> QED BY <3>2, <3>4, <4>1 DEF Merge, Flat
    <3>6. Prefix(r, Support(base) \cup Support(graph[held[r]]))
      BY <3>1 DEF SeeInv, Seeing
    <3> QED BY <2>1, <3>1, <3>3, <3>5, <3>6 DEF Seeing, Prefix, Support, Applied
  <2>5. CASE q = r /\ CloseSnapshot(r)
    <3>1. status'[r] = "idle"
      BY <1>t, <2>5 DEF CloseSnapshot
    <3> QED BY <3>1 DEF Seeing
  <2> QED BY <1>13, <2>2, <2>3, <2>4, <2>5 DEF ReaderStep
<1> QED BY <1>1, <1>9, <1>10, <1>11, <1>12, <1>13 DEF Next

(* Snapshot reads the version and the base at different times, while the      *)
(* worker publishes and compacts: with that one writer a snapshot still shows *)
(* a prefix of the published events, all those before the call among them,    *)
(* and counts none of them more than twice.                                   *)
THEOREM SnapshotsShowPrefixes == ASSUME SingleWriter PROVE Spec => []SnapshotPrefix
<1>1. Init => SeeInv
  <2> SUFFICES ASSUME Init PROVE SeeInv
    OBVIOUS
  <2>1. graph[current] = EmptyGraph /\ \A r \in Readers : status[r] = "idle"
    BY BoundsAssumption DEF Init, IDs
  <2> QED BY <2>1 DEF SeeInv, Flat, Seeing, EmptyGraph
<1>2. TypeInv /\ SingleInv /\ Backed /\ SeeInv /\ (TypeInv /\ SingleInv)' /\ Backed' /\ [Next]_vars
         => SeeInv'
  BY SeeStep DEF TypeInv
<1>3. SeeInv => SnapshotPrefix
  BY DEF SeeInv, Seeing, Prefix, SnapshotPrefix
<1> QED BY <1>1, <1>2, <1>3, SingleAlways, BackedAlways, PTL DEF Spec
=============================================================================
