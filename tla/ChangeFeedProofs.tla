-------------------------- MODULE ChangeFeedProofs --------------------------
(* The worker's side of the analysis, for any graph, capacity and number of  *)
(* events: the ring buffers hold the latest samples, and the subscriber's    *)
(* deltas and turns add up.  ChangeFeed is no specification of its own: the  *)
(* lemmas say what the worker and a user's calls keep, and those who compose *)
(* them conclude.                                                            *)
EXTENDS ChangeFeed, TensionProofs

LEMMA Sizes == Capacity \in Nat \ {0} /\ Epsilon \in Nat
BY FeedAssumption

-----------------------------------------------------------------------------
(* Sequences of anything. *)

Listed(s) == \E S : s \in Seq(S)

LEMMA ListedAppend ==
    ASSUME NEW s, Listed(s), NEW e
    PROVE  /\ Listed(Append(s, e)) /\ Append(s, e) # <<>>
           /\ Len(s) \in Nat /\ DOMAIN s = 1 .. Len(s)
           /\ Len(Append(s, e)) = Len(s) + 1
           /\ DOMAIN Append(s, e) = 1 .. Len(s) + 1
           /\ Append(s, e)[Len(s) + 1] = e
           /\ \A i \in 1 .. Len(s) : Append(s, e)[i] = s[i]
<1>1. PICK S : s \in Seq(S)
  BY DEF Listed
<1> DEFINE T == S \cup {e}
<1>2. s \in Seq(T) /\ e \in T
  BY <1>1, SeqMonotonic
<1> HIDE DEF T
<1>3. Append(s, e) \in Seq(T)
  BY <1>2
<1>4. Len(Append(s, e)) = Len(s) + 1 /\ Len(s) \in Nat /\ DOMAIN s = 1 .. Len(s)
  BY <1>2
<1>5. Append(s, e) # <<>>
  BY <1>3, <1>4
<1>6. DOMAIN Append(s, e) = 1 .. Len(s) + 1
  BY <1>3, <1>4
<1>7. Append(s, e)[Len(s) + 1] = e /\ \A i \in 1 .. Len(s) : Append(s, e)[i] = s[i]
  BY <1>2
<1> QED BY <1>3, <1>4, <1>5, <1>6, <1>7 DEF Listed

LEMMA ListedEmpty == Listed(<<>>) /\ Len(<<>>) = 0
<1>1. <<>> \in Seq({})
  OBVIOUS
<1> QED BY <1>1 DEF Listed

-----------------------------------------------------------------------------
(* The ring buffer. *)

(* The place of the k-th latest sample, without division. *)
Back(h, k) == IF k <= h.head THEN h.head - k ELSE h.head - k + Capacity

(* The remainder of what is less than twice the capacity. *)
LEMMA OnceAround ==
    ASSUME NEW x \in Nat, x < 2 * Capacity
    PROVE  x % Capacity = IF x < Capacity THEN x ELSE x - Capacity
<1>1. Capacity \in Nat /\ Capacity > 0
  BY Sizes
<1> QED BY <1>1

(* A buffer that has been given all of a node's samples, the latest of which *)
(* are where they belong.                                                    *)
Ring(h, all) ==
    /\ h.count = Len(all)
    /\ h.head \in 0 .. Capacity - 1
    /\ h.count <= Capacity => h.head = IF h.count < Capacity THEN h.count ELSE 0
    /\ DOMAIN h.samples = 0 .. Capacity - 1
    /\ \A k \in 1 .. HistoryLen(h) : h.samples[Back(h, k)] = all[Len(all) - k + 1]

LEMMA RingNew == Ring(NewTensionHistory, <<>>)
BY Sizes DEF Ring, NewTensionHistory, HistoryLen

(* Pushing a sample keeps the ring: it moves the others one back. *)
LEMMA RingPush ==
    ASSUME NEW h, NEW all, NEW s, Listed(all), Ring(h, all)
    PROVE  Ring(Push(h, s), Append(all, s))
<1> DEFINE g == Push(h, s)
           more == Append(all, s)
<1>1. /\ Len(all) \in Nat /\ Len(more) = Len(all) + 1
      /\ more[Len(all) + 1] = s
      /\ \A i \in 1 .. Len(all) : more[i] = all[i]
  BY ListedAppend
<1>2. Capacity \in Nat /\ Capacity > 0 /\ h.head \in 0 .. Capacity - 1
  BY Sizes DEF Ring
<1>3. g.head = IF h.head + 1 < Capacity THEN h.head + 1 ELSE 0
  <2>1. g.head = (h.head + 1) % Capacity
    BY DEF Push
  <2> HIDE DEF g
  <2> QED BY <1>2, <2>1, OnceAround
<1>4. g.count = Len(all) + 1 /\ h.count = Len(all)
  BY DEF Push, Ring
<1>5. /\ DOMAIN g.samples = 0 .. Capacity - 1
      /\ g.samples[h.head] = s
      /\ \A i \in 0 .. Capacity - 1 : i # h.head => g.samples[i] = h.samples[i]
  BY <1>2 DEF Push, Ring
<1> HIDE DEF g, more
<1>6. g.head \in 0 .. Capacity - 1
  BY <1>2, <1>3
<1>7. g.count <= Capacity => g.head = IF g.count < Capacity THEN g.count ELSE 0
  <2>1. h.count <= Capacity => h.head = IF h.count < Capacity THEN h.count ELSE 0
    BY DEF Ring
  <2> QED BY <1>1, <1>2, <1>3, <1>4, <2>1
<1>8. ASSUME NEW k \in 1 .. HistoryLen(g)
      PROVE  g.samples[Back(g, k)] = more[Len(more) - k + 1]
  <2>1. k \in Nat /\ k >= 1 /\ k <= Capacity /\ k <= Len(all) + 1
    BY <1>1, <1>2, <1>4 DEF HistoryLen
  <2>2. CASE k = 1
    <3>1. Back(g, k) = h.head
      BY <1>2, <1>3, <2>2 DEF Back
    <3> QED BY <1>1, <1>5, <2>2, <3>1
  <2>3. CASE k > 1
    <3>1. /\ Back(g, k) = Back(h, k - 1) /\ Back(h, k - 1) \in 0 .. Capacity - 1
          /\ Back(h, k - 1) # h.head
      <4>1. CASE k - 1 <= h.head
        <5>1. Back(h, k - 1) = h.head - k + 1
          BY <1>2, <2>1, <4>1 DEF Back
        <5>2. Back(g, k) = h.head - k + 1
          BY <1>2, <1>3, <2>1, <4>1 DEF Back
        <5> QED BY <1>2, <2>1, <2>3, <4>1, <5>1, <5>2
      <4>2. CASE k - 1 > h.head
        <5>1. Back(h, k - 1) = h.head - k + 1 + Capacity
          BY <1>2, <2>1, <4>2 DEF Back
        <5>2. Back(g, k) = h.head - k + 1 + Capacity
          BY <1>2, <1>3, <2>1, <4>2 DEF Back
        <5> QED BY <1>2, <2>1, <2>3, <4>2, <5>1, <5>2
      <4> QED BY <1>2, <2>1, <4>1, <4>2
    <3>2. k - 1 \in 1 .. HistoryLen(h)
      BY <1>1, <1>2, <1>4, <2>1, <2>3 DEF HistoryLen
    <3>3. h.samples[Back(h, k - 1)] = all[Len(all) - (k - 1) + 1]
      BY <3>2 DEF Ring
    <3>4. /\ Len(all) - (k - 1) + 1 = Len(more) - k + 1
          /\ Len(all) - (k - 1) + 1 \in 1 .. Len(all)
      BY <1>1, <2>1, <2>3
    <3> QED BY <1>1, <1>5, <3>1, <3>3, <3>4
  <2> QED BY <2>1, <2>2, <2>3
<1> QED BY <1>1, <1>4, <1>5, <1>6, <1>7, <1>8 DEF Ring, g, more

(* What a ring says of its samples: the latest, the one before, and all of   *)
(* them in order.                                                            *)
LEMMA RingReads ==
    ASSUME NEW h, NEW all, Listed(all), Ring(h, all), all # <<>>
    PROVE  LET len == IF Len(all) < Capacity THEN Len(all) ELSE Capacity
           IN  /\ Slice(h) = SubSeq(all, Len(all) - len + 1, Len(all))
               /\ Latest(h) = Last(all)
               /\ HasPrevious(h) <=> len >= 2
               /\ len >= 2 => Previous(h) = all[Len(all) - 1]
<1> DEFINE len == IF Len(all) < Capacity THEN Len(all) ELSE Capacity
<1>1. PICK S : all \in Seq(S)
  BY DEF Listed
<1>2. Len(all) \in Nat /\ Len(all) > 0
  BY <1>1
<1>3. Capacity \in Nat /\ Capacity > 0 /\ h.head \in 0 .. Capacity - 1 /\ h.count = Len(all)
  BY Sizes DEF Ring
<1>4. HistoryLen(h) = len /\ len \in 1 .. Capacity /\ len <= Len(all)
  BY <1>2, <1>3 DEF HistoryLen
<1> HIDE DEF len
<1>5. ASSUME NEW k \in 1 .. len
      PROVE  h.samples[Back(h, k)] = all[Len(all) - k + 1]
  BY <1>4 DEF Ring
<1>6. Latest(h) = Last(all)
  <2>1. (h.head - 1 + Capacity) % Capacity = Back(h, 1)
    <3> DEFINE x == h.head - 1 + Capacity
    <3>1. x \in Nat /\ x < 2 * Capacity
      BY <1>3
    <3>2. Back(h, 1) = IF x < Capacity THEN x ELSE x - Capacity
      BY <1>3 DEF Back
    <3> HIDE DEF x
    <3>3. x % Capacity = Back(h, 1)
      BY <3>1, <3>2, OnceAround
    <3> QED BY <3>3 DEF x
  <2>2. h.samples[Back(h, 1)] = all[Len(all)]
    BY <1>2, <1>4, <1>5
  <2> QED BY <2>1, <2>2 DEF Latest, Last
<1>7. HasPrevious(h) <=> len >= 2
  BY <1>4 DEF HasPrevious
<1>8. ASSUME len >= 2 PROVE Previous(h) = all[Len(all) - 1]
  <2>1. Capacity >= 2
    BY <1>3, <1>4, <1>8
  <2>2. (h.head - 2 + Capacity) % Capacity = Back(h, 2)
    <3> DEFINE x == h.head - 2 + Capacity
    <3>1. x \in Nat /\ x < 2 * Capacity
      BY <1>3, <2>1
    <3>2. Back(h, 2) = IF x < Capacity THEN x ELSE x - Capacity
      BY <1>3, <2>1 DEF Back
    <3> HIDE DEF x
    <3>3. x % Capacity = Back(h, 2)
      BY <3>1, <3>2, OnceAround
    <3> QED BY <3>3 DEF x
  <2>3. h.samples[Back(h, 2)] = all[Len(all) - 1]
    <3>1. 2 \in 1 .. len /\ Len(all) - 2 + 1 = Len(all) - 1
      BY <1>2, <1>4, <1>8
    <3>2. h.samples[Back(h, 2)] = all[Len(all) - 2 + 1]
      BY <1>5, <3>1
    <3> QED BY <3>1, <3>2
  <2> QED BY <2>2, <2>3 DEF Previous
<1>9. Slice(h) = SubSeq(all, Len(all) - len + 1, Len(all))
  <2> DEFINE sub == SubSeq(all, Len(all) - len + 1, Len(all))
  <2>1. /\ sub \in Seq(S) /\ Len(sub) = len
        /\ \A i \in 1 .. len : sub[i] = all[Len(all) - len + i]
    <3>1. \A i \in Len(all) - len + 1 .. Len(all) : all[i] \in S
      BY <1>1, <1>2, <1>4
    <3>2. /\ sub \in Seq(S)
          /\ Len(sub) = IF Len(all) - len + 1 <= Len(all)
                        THEN Len(all) - (Len(all) - len + 1) + 1 ELSE 0
          /\ \A i \in 1 .. Len(all) - (Len(all) - len + 1) + 1 :
                sub[i] = all[Len(all) - len + 1 + i - 1]
      BY <1>2, <1>4, <3>1, SubSeqProperties
    <3>3. Len(all) - (Len(all) - len + 1) + 1 = len
      BY <1>2, <1>4
    <3>4. \A i \in 1 .. len : Len(all) - len + 1 + i - 1 = Len(all) - len + i
      BY <1>2, <1>4
    <3> HIDE DEF sub
    <3> QED BY <1>2, <1>4, <3>2, <3>3, <3>4
  <2>2. ASSUME NEW i \in 1 .. len
        PROVE  Slice(h)[i] = all[Len(all) - len + i]
    <3> DEFINE k == len - i + 1
    <3>1. k \in 1 .. len /\ Len(all) - k + 1 = Len(all) - len + i
      BY <1>2, <1>4
    <3>2. Slice(h)[i] = IF h.count <= Capacity THEN h.samples[i - 1]
                        ELSE h.samples[(h.head + i - 1) % Capacity]
      BY <1>4 DEF Slice
    <3>3. CASE h.count <= Capacity
      <4>1. h.head = IF h.count < Capacity THEN h.count ELSE 0
        BY <3>3 DEF Ring
      <4>2. len = h.count
        BY <1>2, <1>3, <3>3 DEF len
      <4>3. Back(h, k) = i - 1
        BY <1>2, <1>3, <1>4, <4>1, <4>2 DEF Back
      <4> HIDE DEF k
      <4> QED BY <1>5, <3>1, <3>2, <3>3, <4>3
    <3>4. CASE h.count > Capacity
      <4>1. len = Capacity
        BY <1>2, <1>3, <3>4 DEF len
      <4>2. (h.head + i - 1) % Capacity = Back(h, k)
        <5> DEFINE x == h.head + i - 1
        <5>1. x \in Nat /\ x < 2 * Capacity
          BY <1>3, <1>4, <4>1
        <5>2. Back(h, k) = IF x < Capacity THEN x ELSE x - Capacity
          BY <1>3, <1>4, <4>1 DEF Back
        <5> HIDE DEF x, k
        <5>3. x % Capacity = Back(h, k)
          BY <5>1, <5>2, OnceAround
        <5> QED BY <5>3 DEF x
      <4> HIDE DEF k
      <4> QED BY <1>3, <1>5, <3>1, <3>2, <3>4, <4>2
    <3> QED BY <1>2, <1>3, <3>3, <3>4
  <2>3. Slice(h) = [i \in 1 .. len |-> Slice(h)[i]]
    BY <1>4 DEF Slice
  <2>4. sub = [i \in 1 .. len |-> sub[i]]
    BY <2>1
  <2> HIDE DEF sub
  <2>5. Slice(h) = sub
    BY <2>1, <2>2, <2>3, <2>4
  <2> QED BY <2>5 DEF sub
<1> QED BY <1>6, <1>7, <1>8, <1>9 DEF len

-----------------------------------------------------------------------------
(* Graphs. *)

Graphs == UNION {[D -> Nat] : D \in SUBSET Edges}

LEMMA FeedGraphs == Graphs \subseteq AllGraphs
BY EdgesAssumption DEF Graphs, AllGraphs

LEMMA FeedTension ==
    ASSUME NEW g \in Graphs, NEW n
    PROVE  Calculate(g, n) \in Nat
BY FeedGraphs, TensionNatural

LEMMA GraphWeights ==
    ASSUME NEW g \in Graphs
    PROVE  /\ DOMAIN g \subseteq Edges
           /\ \A q : Weight(g, q) \in Nat
           /\ \A q \in DOMAIN g : g[q] = Weight(g, q)
<1>1. PICK D \in SUBSET Edges : g \in [D -> Nat]
  BY DEF Graphs
<1> QED BY <1>1 DEF Weight

LEMMA MergeGraphs ==
    ASSUME NEW b \in Graphs, NEW o \in Graphs
    PROVE  /\ Merge(b, o) \in Graphs
           /\ DOMAIN Merge(b, o) = DOMAIN b \cup DOMAIN o
           /\ \A q : Weight(Merge(b, o), q) = Weight(b, q) + Weight(o, q)
<1>1. DOMAIN Merge(b, o) = DOMAIN b \cup DOMAIN o
  BY DEF Merge
<1>2. \A q : Weight(b, q) \in Nat /\ Weight(o, q) \in Nat
  BY GraphWeights
<1>3. ASSUME NEW q PROVE Weight(Merge(b, o), q) = Weight(b, q) + Weight(o, q)
  <2>1. CASE q \in DOMAIN b \cup DOMAIN o
    BY <1>1, <2>1 DEF Merge, Weight
  <2>2. CASE q \notin DOMAIN b \cup DOMAIN o
    BY <1>1, <2>2 DEF Weight
  <2> QED BY <2>1, <2>2
<1>4. Merge(b, o) \in [DOMAIN b \cup DOMAIN o -> Nat]
  BY <1>2 DEF Merge
<1>5. DOMAIN b \cup DOMAIN o \in SUBSET Edges
  BY GraphWeights
<1> QED BY <1>1, <1>3, <1>4, <1>5 DEF Graphs

LEMMA NoEdgesGraph == NoEdges \in Graphs /\ DOMAIN NoEdges = {} /\ \A q : Weight(NoEdges, q) = 0
<1>1. NoEdges \in [{} -> Nat] /\ {} \in SUBSET Edges
  BY DEF NoEdges
<1> QED BY <1>1 DEF Graphs, Weight

LEMMA EventGraph ==
    ASSUME NEW g \in Graphs, NEW p \in Edges, NEW w \in Weights
    PROVE  /\ WithEvent(g, p, w) \in Graphs
           /\ DOMAIN WithEvent(g, p, w) = DOMAIN g \cup {p}
           /\ \A q : Weight(WithEvent(g, p, w), q) = Weight(g, q) + IF q = p THEN w ELSE 0
           /\ WithEvent(g, p, w)[p] = Weight(g, p) + w
<1> DEFINE x == [q \in {p} |-> w]
<1>1. w \in Nat
  BY EdgesAssumption
<1>2. x \in Graphs /\ DOMAIN x = {p} /\ \A q : Weight(x, q) = IF q = p THEN w ELSE 0
  <2>1. x \in [{p} -> Nat] /\ {p} \in SUBSET Edges
    BY <1>1
  <2> QED BY <2>1 DEF Graphs, Weight
<1> HIDE DEF x
<1>3. /\ Merge(g, x) \in Graphs /\ DOMAIN Merge(g, x) = DOMAIN g \cup {p}
      /\ \A q : Weight(Merge(g, x), q) = Weight(g, q) + Weight(x, q)
  BY <1>2, MergeGraphs
<1>4. Merge(g, x)[p] = Weight(g, p) + w
  BY <1>2, <1>3, GraphWeights
<1>5. WithEvent(g, p, w) = Merge(g, x)
  BY DEF WithEvent, x
<1> QED BY <1>2, <1>3, <1>4, <1>5

(* The ends of graphs that have their edges together. *)
LEMMA EndsTogether ==
    ASSUME NEW f, NEW g, NEW h, DOMAIN f = DOMAIN g \cup DOMAIN h
    PROVE  Ends(f) = Ends(g) \cup Ends(h)
BY DEF Ends

LEMMA EndsOfEvent ==
    ASSUME NEW f, NEW g, NEW p, DOMAIN f = DOMAIN g \cup {p}
    PROVE  Ends(f) = Ends(g) \cup {p[1], p[2]}
BY DEF Ends

LEMMA EndsAreNodes ==
    ASSUME NEW g \in Graphs
    PROVE  Ends(g) \subseteq NodeIds
BY GraphWeights, EdgesAssumption DEF Ends

LEMMA FiniteNodes == IsFiniteSet(NodeIds) /\ IsFiniteSet(Edges)
BY AllNodes, FS_Product, FS_Subset, EdgesAssumption

-----------------------------------------------------------------------------
(* The inductive invariant. *)

Stages == {"idle", "merge", "swap", "announce", "source", "target"}

Shape ==
    /\ base \in Graphs
    /\ versions \in Seq(Graphs) /\ versions # <<>>
    /\ DOMAIN worker = {"at", "edge", "version"} /\ worker.at \in Stages
    /\ worker.version \in Nat /\ worker.edge \in Edges
    /\ feed \in [nodes : SUBSET NodeIds, weight : [Edges -> Int], turns : [NodeIds -> Nat]]

(* The ring of each node has its samples. *)
Sampled ==
    /\ DOMAIN samples = NodeIds
    /\ \A n \in NodeIds : Listed(samples[n])
    /\ DOMAIN history = {n \in NodeIds : samples[n] # <<>>}
    /\ \A n \in DOMAIN history : Ring(history[n], samples[n])

(* The trend kept for a node is that of its latest sample, and the turns     *)
(* told are those of its samples.                                            *)
Turns(all) == {i \in 2 .. Len(all) : Trend(all, i) # Trend(all, i - 1)}

Turned ==
    /\ DOMAIN lastTrend = DOMAIN history
    /\ \A n \in DOMAIN lastTrend : lastTrend[n] = Trend(samples[n], Len(samples[n]))
    /\ \A n \in NodeIds : feed.turns[n] = Cardinality(Turns(samples[n]))

(* The version the worker made stays, and has the edge of its event.         *)
Named ==
    worker.at # "idle" => worker.version \in 2 .. Current /\ worker.edge \in DOMAIN NewGraph

(* What the worker alone keeps, whoever else empties the graph.              *)
WorkerInv == Shape /\ Sampled /\ Turned /\ Named

(* What the engine holds; between the two stores of a compaction the overlay *)
(* is in the base already.                                                   *)
Whole == IF worker.at = "swap" THEN base ELSE Merge(base, Overlay)

Told ==
    /\ feed.nodes = Ends(Whole)
    /\ \A q \in Edges : feed.weight[q] = Weight(Whole, q)

(* Until the changes of an event are announced, the feed lacks just them,    *)
(* and the two graphs they are computed from tell them.                      *)
Pending ==
    LET p == worker.edge
    IN  /\ worker.at # "announce" => worker.version = Current
        /\ Ends(OldGraph) \subseteq feed.nodes
        /\ Ends(Whole) = feed.nodes \cup {p[1], p[2]}
        /\ \A q \in Edges :
             Weight(Whole, q) = feed.weight[q] +
                                IF q = p THEN NewGraph[p] - Weight(OldGraph, p) ELSE 0

Deltas ==
    /\ worker.at \in {"idle", "source", "target"} => Told
    /\ worker.at \in {"merge", "swap", "announce"} => Pending

DeltaInv == WorkerInv /\ Deltas

(* A call tells nobody what it does, so the feed adds up until the first. *)
CallStages == {"out", "compactSwap", "compactCount", "resetCount", "resetSwap"}

Calling ==
    /\ caller \in [at : CallStages, calls : Nat] /\ caller.calls <= MaxCalls
    /\ caller.calls = 0 => caller.at = "out"

FeedInv == WorkerInv /\ Calling /\ (caller.calls = 0 => Deltas)

LEMMA InitFeed == FeedInit => FeedInv
<1> SUFFICES ASSUME FeedInit PROVE FeedInv
  OBVIOUS
<1> DEFINE first == NoEdges
<1>0. versions = <<first>> /\ first \in Graphs
  BY NoEdgesGraph DEF FeedInit
<1> HIDE DEF first
<1>1. /\ versions \in Seq(Graphs) /\ versions # <<>>
      /\ Len(versions) = 1 /\ versions[1] = first
  BY <1>0
<1>2. feed \in [nodes : SUBSET NodeIds, weight : [Edges -> Int], turns : [NodeIds -> Nat]]
  BY DEF FeedInit
<1>3. Shape
  <2>1. worker.edge \in Edges
    BY EdgesAssumption DEF FeedInit
  <2> QED BY <1>1, <1>2, <2>1, NoEdgesGraph DEF FeedInit, Shape, Stages
<1>4. Sampled
  BY ListedEmpty DEF FeedInit, Sampled
<1>5. Turned
  <2>1. ASSUME NEW n \in NodeIds PROVE feed.turns[n] = Cardinality(Turns(samples[n]))
    <3>1. samples[n] = <<>> /\ feed.turns[n] = 0
      BY DEF FeedInit
    <3>2. Turns(<<>>) = {}
      BY ListedEmpty DEF Turns
    <3> QED BY <3>1, <3>2, FS_EmptySet
  <2> QED BY <2>1 DEF Turned, FeedInit
<1>6. Named
  BY DEF FeedInit, Named
<1>7. Deltas
  <2>1. base = NoEdges /\ Overlay = NoEdges /\ worker.at = "idle"
    BY <1>1 DEF FeedInit, Overlay, Current, first
  <2>2. /\ DOMAIN Merge(NoEdges, NoEdges) = {}
        /\ \A q : Weight(Merge(NoEdges, NoEdges), q) = 0
    BY NoEdgesGraph, MergeGraphs
  <2>3. Whole = Merge(NoEdges, NoEdges)
    BY <2>1 DEF Whole
  <2>4. feed.nodes = {} /\ \A q \in Edges : feed.weight[q] = 0
    BY DEF FeedInit
  <2> QED BY <2>1, <2>2, <2>3, <2>4 DEF Deltas, Told, Ends
<1>8. Calling
  BY FeedAssumption DEF FeedInit, Calling, CallStages
<1> QED BY <1>3, <1>4, <1>5, <1>6, <1>7, <1>8 DEF FeedInv, WorkerInv

(* What does not touch the worker's data keeps the invariant. *)
LEMMA FeedStays ==
    ASSUME FeedInv,
           UNCHANGED <<base, versions, worker, history, lastTrend, feed, samples, caller>>
    PROVE  FeedInv'
<1>1. WorkerInv'
  BY DEF FeedInv, WorkerInv, Shape, Sampled, Turned, Named, NewGraph, Current
<1>2. Deltas => Deltas'
  BY DEF Deltas, Told, Pending, Whole, NewGraph, OldGraph, Overlay, Current
<1>3. Calling'
  BY DEF FeedInv, Calling
<1> QED BY <1>1, <1>2, <1>3 DEF FeedInv

LEMMA WorkerStays ==
    ASSUME WorkerInv, UNCHANGED <<base, versions, worker, history, lastTrend, feed, samples>>
    PROVE  WorkerInv'
BY DEF WorkerInv, Shape, Sampled, Turned, Named, NewGraph, Current

LEMMA SamplesStay ==
    ASSUME WorkerInv, UNCHANGED <<history, lastTrend, samples>>, feed'.turns = feed.turns
    PROVE  Sampled' /\ Turned'
BY DEF WorkerInv, Sampled, Turned

(* The versions, and one more. *)
LEMMA MoreVersions ==
    ASSUME Shape, NEW v \in Graphs,
           versions' = Append(versions, v)
    PROVE  /\ versions' \in Seq(Graphs) /\ versions' # <<>>
           /\ Current \in Nat /\ Current >= 1 /\ Current' = Current + 1
           /\ versions'[Current + 1] = v
           /\ \A k \in 1 .. Current : versions'[k] = versions[k]
<1>1. versions \in Seq(Graphs) /\ versions # <<>>
  BY DEF Shape
<1>2. versions' \in Seq(Graphs)
  BY <1>1
<1>3. Len(versions') = Len(versions) + 1 /\ Len(versions) \in Nat /\ Len(versions) >= 1
  BY <1>1
<1>4. /\ versions'[Len(versions) + 1] = v
      /\ \A k \in 1 .. Len(versions) : versions'[k] = versions[k]
  BY <1>1
<1> QED BY <1>1, <1>2, <1>3, <1>4 DEF Current

LEMMA OverlayTypes ==
    ASSUME Shape
    PROVE  /\ Current \in Nat /\ Current >= 1 /\ Overlay \in Graphs
           /\ \A v \in 1 .. Current : versions[v] \in Graphs
<1>1. versions \in Seq(Graphs) /\ versions # <<>>
  BY DEF Shape
<1>2. Len(versions) \in Nat /\ Len(versions) >= 1
  BY <1>1
<1>3. \A v \in 1 .. Len(versions) : versions[v] \in Graphs
  BY <1>1, ElementOfSeq
<1> QED BY <1>2, <1>3 DEF Current, Overlay

(* Steps of the worker, before it comes to the samples. *)
LEMMA NamedStays ==
    ASSUME Shape, Named, worker.at # "idle", NEW v \in Graphs,
           versions' = Append(versions, v) \/ versions' = versions,
           worker'.edge = worker.edge, worker'.version = worker.version
    PROVE  Named' /\ NewGraph' = NewGraph
<1>1. worker.version \in 2 .. Current /\ worker.edge \in DOMAIN NewGraph
  BY DEF Named
<1>2. CASE versions' = versions
  BY <1>1, <1>2 DEF Named, NewGraph, Current
<1>3. CASE versions' = Append(versions, v)
  <2>1. /\ Current \in Nat /\ Current' = Current + 1
        /\ \A k \in 1 .. Current : versions'[k] = versions[k]
    BY <1>3, MoreVersions
  <2>2. worker.version \in 1 .. Current /\ worker.version \in 2 .. Current'
    BY <1>1, <2>1
  <2>3. NewGraph' = NewGraph
    BY <2>1, <2>2 DEF NewGraph
  <2> QED BY <1>1, <2>2, <2>3 DEF Named
<1> QED BY <1>2, <1>3

LEMMA ProcessWorker ==
    ASSUME WorkerInv, NEW p \in Edges, NEW w \in Weights, Process(p, w)
    PROVE  WorkerInv'
<1> DEFINE g == WithEvent(Overlay, p, w)
           v == g
<1>1. Shape /\ base \in Graphs /\ Overlay \in Graphs
  BY OverlayTypes DEF WorkerInv, Shape
<1>2. g \in Graphs /\ DOMAIN g = DOMAIN Overlay \cup {p}
  BY <1>1, EventGraph
<1>3. v \in Graphs /\ v = g
  BY <1>1, <1>2
<1>4. /\ versions' \in Seq(Graphs) /\ versions' # <<>>
      /\ Current \in Nat /\ Current >= 1 /\ Current' = Current + 1
      /\ versions'[Current + 1] = v
  BY <1>1, <1>3, MoreVersions DEF Process
<1>5. /\ worker'.at \in {"merge", "announce"} /\ worker'.edge = p /\ worker'.version = Current'
      /\ DOMAIN worker' = {"at", "edge", "version"}
      /\ base' = base /\ feed' = feed
  BY DEF Process
<1>6. Shape'
  BY <1>1, <1>4, <1>5 DEF Shape, Stages
<1>7. Sampled' /\ Turned'
  BY SamplesStay DEF Process
<1> HIDE DEF g, v
<1>8. Named'
  BY <1>2, <1>3, <1>4, <1>5 DEF Named, NewGraph
<1> QED BY <1>6, <1>7, <1>8 DEF WorkerInv

LEMMA CompactWorker ==
    ASSUME WorkerInv, MergeBase \/ SwapOverlay
    PROVE  WorkerInv' /\ NewGraph' = NewGraph
<1> DEFINE v == NoEdges
<1>1. Shape /\ Named /\ base \in Graphs /\ Overlay \in Graphs /\ worker.at \in {"merge", "swap"}
  BY OverlayTypes DEF WorkerInv, Shape, MergeBase, SwapOverlay
<1>2. /\ worker'.at \in Stages /\ worker'.edge = worker.edge /\ worker'.version = worker.version
      /\ DOMAIN worker' = {"at", "edge", "version"}
      /\ feed' = feed
  BY <1>1 DEF MergeBase, SwapOverlay, Shape, Stages
<1>3. v \in Graphs
  BY <1>1, NoEdgesGraph
<1>4. versions' = Append(versions, v) \/ versions' = versions
  BY DEF MergeBase, SwapOverlay
<1>5. versions' \in Seq(Graphs) /\ versions' # <<>>
  BY <1>1, <1>3, <1>4, MoreVersions DEF Shape
<1>6. base' \in Graphs
  BY <1>1, MergeGraphs DEF MergeBase, SwapOverlay
<1>7. Shape'
  BY <1>1, <1>2, <1>5, <1>6 DEF Shape
<1>8. Sampled' /\ Turned'
  BY SamplesStay DEF MergeBase, SwapOverlay
<1>9. Named' /\ NewGraph' = NewGraph
  BY <1>1, <1>2, <1>3, <1>4, NamedStays
<1> QED BY <1>7, <1>8, <1>9 DEF WorkerInv

(* An event: the deltas to announce are its own. *)
LEMMA ProcessFeed ==
    ASSUME DeltaInv, NEW p \in Edges, NEW w \in Weights, Process(p, w)
    PROVE  DeltaInv'
<1> DEFINE g == WithEvent(Overlay, p, w)
           v == g
           n == Current + 1
<1>1. WorkerInv /\ Shape /\ base \in Graphs /\ Overlay \in Graphs /\ worker.at = "idle" /\ Told
  BY OverlayTypes DEF DeltaInv, WorkerInv, Shape, Deltas, Process
<1>2. /\ g \in Graphs /\ DOMAIN g = DOMAIN Overlay \cup {p}
      /\ \A q : Weight(g, q) = Weight(Overlay, q) + IF q = p THEN w ELSE 0
      /\ g[p] = Weight(Overlay, p) + w
  BY <1>1, EventGraph
<1>3. v \in Graphs /\ v = g
  BY <1>1, <1>2
<1>4. /\ versions' \in Seq(Graphs) /\ versions' # <<>>
      /\ Current \in Nat /\ Current >= 1 /\ Current' = n
      /\ versions'[n] = v /\ \A k \in 1 .. Current : versions'[k] = versions[k]
  BY <1>1, <1>3, MoreVersions DEF Process
<1>5. /\ worker'.at \in {"merge", "announce"} /\ worker'.edge = p /\ worker'.version = Current'
      /\ DOMAIN worker' = {"at", "edge", "version"}
      /\ base' = base /\ feed' = feed
  BY DEF Process
<1>6. WorkerInv'
  BY <1>1, ProcessWorker
<1> HIDE DEF g, v
<1>8. Overlay' = g /\ NewGraph' = g /\ OldGraph' = Overlay
  <2>1. worker'.version - 1 = Current /\ versions'[Current] = versions[Current]
    BY <1>4, <1>5
  <2> QED BY <1>3, <1>4, <1>5, <2>1 DEF Overlay, NewGraph, OldGraph
<1>9. Whole' = Merge(base, g) /\ Whole = Merge(base, Overlay)
  BY <1>1, <1>5, <1>8 DEF Whole
<1>10. /\ DOMAIN Merge(base, g) = DOMAIN Merge(base, Overlay) \cup {p}
       /\ \A q : Weight(Merge(base, g), q) = Weight(base, q) + Weight(g, q)
       /\ \A q : Weight(Merge(base, Overlay), q) = Weight(base, q) + Weight(Overlay, q)
       /\ DOMAIN Merge(base, Overlay) = DOMAIN base \cup DOMAIN Overlay
  <2>1. /\ DOMAIN Merge(base, g) = DOMAIN base \cup DOMAIN g
        /\ \A q : Weight(Merge(base, g), q) = Weight(base, q) + Weight(g, q)
    BY <1>1, <1>2, MergeGraphs
  <2>2. /\ DOMAIN Merge(base, Overlay) = DOMAIN base \cup DOMAIN Overlay
        /\ \A q : Weight(Merge(base, Overlay), q) = Weight(base, q) + Weight(Overlay, q)
    BY <1>1, MergeGraphs
  <2>3. DOMAIN Merge(base, g) = DOMAIN Merge(base, Overlay) \cup {p}
    BY <1>2, <2>1, <2>2
  <2> QED BY <2>1, <2>2, <2>3
<1>11. Ends(Whole') = Ends(Whole) \cup {p[1], p[2]}
  BY <1>9, <1>10, EndsOfEvent
<1>12. Ends(OldGraph') \subseteq feed'.nodes
  <2>1. Ends(Whole) = Ends(base) \cup Ends(Overlay)
    BY <1>9, <1>10, EndsTogether
  <2> QED BY <1>1, <1>5, <1>8, <2>1 DEF Told
<1>13. ASSUME NEW q \in Edges
       PROVE  Weight(Whole', q) = feed'.weight[q] +
                                  IF q = p THEN g[p] - Weight(Overlay, p) ELSE 0
  <2>1. /\ Weight(base, q) \in Nat /\ Weight(Overlay, q) \in Nat /\ w \in Nat
        /\ Weight(Overlay, p) \in Nat
    BY <1>1, GraphWeights, EdgesAssumption
  <2>2. feed.weight[q] = Weight(base, q) + Weight(Overlay, q)
    BY <1>1, <1>9, <1>10 DEF Told
  <2>3. Weight(Whole', q) = Weight(base, q) + (Weight(Overlay, q) + IF q = p THEN w ELSE 0)
    BY <1>2, <1>9, <1>10
  <2>4. feed'.weight[q] = feed.weight[q]
    BY <1>5
  <2> QED BY <1>2, <2>1, <2>2, <2>3, <2>4
<1>14. Pending'
  <2>1. feed'.nodes = Ends(Whole)
    BY <1>1, <1>5 DEF Told
  <2> QED BY <1>5, <1>8, <1>11, <1>12, <1>13, <2>1 DEF Pending
<1> QED BY <1>5, <1>6, <1>14 DEF DeltaInv, Deltas

(* Compaction: what the base takes over, the overlay still has until the     *)
(* next version is stored.                                                   *)
LEMMA MergeFeed ==
    ASSUME DeltaInv, MergeBase
    PROVE  DeltaInv'
<1>1. WorkerInv /\ Shape /\ Pending /\ worker.at = "merge"
  BY DEF DeltaInv, WorkerInv, Deltas, MergeBase
<1>2. /\ worker'.at = "swap" /\ worker'.edge = worker.edge /\ worker'.version = worker.version
      /\ DOMAIN worker' = {"at", "edge", "version"}
      /\ base' = Merge(base, Overlay) /\ UNCHANGED <<versions, feed>>
  BY <1>1 DEF MergeBase, Shape
<1>3. WorkerInv'
  BY <1>1, CompactWorker
<1>5. Whole' = Whole
  BY <1>1, <1>2 DEF Whole
<1>6. UNCHANGED <<NewGraph, OldGraph, Current>>
  BY <1>2 DEF NewGraph, OldGraph, Current
<1>7. Pending'
  BY <1>1, <1>2, <1>5, <1>6 DEF Pending
<1> QED BY <1>2, <1>3, <1>7 DEF DeltaInv, Deltas

LEMMA SwapFeed ==
    ASSUME DeltaInv, SwapOverlay
    PROVE  DeltaInv'
<1> DEFINE v == NoEdges
           n == Current + 1
<1>1. WorkerInv /\ Shape /\ base \in Graphs /\ Pending /\ worker.at = "swap"
  BY DEF DeltaInv, WorkerInv, Shape, Deltas, SwapOverlay
<1>2. /\ worker'.at = "announce" /\ worker'.edge = worker.edge
      /\ worker'.version = worker.version
      /\ DOMAIN worker' = {"at", "edge", "version"}
      /\ UNCHANGED <<base, feed>>
  BY <1>1 DEF SwapOverlay, Shape
<1>3. v \in Graphs /\ v = NoEdges
  BY <1>1, NoEdgesGraph
<1>4. /\ versions' \in Seq(Graphs) /\ versions' # <<>>
      /\ Current \in Nat /\ Current >= 1 /\ Current' = n
      /\ versions'[n] = v /\ \A k \in 1 .. Current : versions'[k] = versions[k]
  BY <1>1, <1>3, MoreVersions DEF SwapOverlay
<1>5. WorkerInv'
  BY <1>1, CompactWorker
<1>7. worker.version \in 2 .. Current
  BY <1>1 DEF WorkerInv, Named
<1>8. NewGraph' = NewGraph /\ OldGraph' = OldGraph
  <2>1. worker.version \in 1 .. Current /\ worker.version - 1 \in 1 .. Current
    BY <1>4, <1>7
  <2> QED BY <1>2, <1>4, <2>1 DEF NewGraph, OldGraph
<1>9. Whole' = Merge(base, NoEdges) /\ Whole = base
  BY <1>1, <1>2, <1>3, <1>4 DEF Whole, Overlay
<1>10. Ends(Whole') = Ends(Whole) /\ \A q : Weight(Whole', q) = Weight(Whole, q)
  <2>1. /\ DOMAIN Merge(base, NoEdges) = DOMAIN base
        /\ \A q : Weight(Merge(base, NoEdges), q) = Weight(base, q) + 0
    <3>1. /\ DOMAIN Merge(base, NoEdges) = DOMAIN base \cup DOMAIN NoEdges
          /\ \A q : Weight(Merge(base, NoEdges), q) = Weight(base, q) + Weight(NoEdges, q)
      BY <1>1, NoEdgesGraph, MergeGraphs
    <3>2. DOMAIN NoEdges = {} /\ \A q : Weight(NoEdges, q) = 0
      BY NoEdgesGraph
    <3> QED BY <3>1, <3>2
  <2>2. \A q : Weight(base, q) \in Nat
    BY <1>1, GraphWeights
  <2>3. Ends(Merge(base, NoEdges)) = Ends(base)
    BY <2>1 DEF Ends
  <2>4. \A q : Weight(Merge(base, NoEdges), q) = Weight(base, q)
    BY <2>1, <2>2
  <2> QED BY <1>9, <2>3, <2>4
<1>11. Pending'
  BY <1>1, <1>2, <1>8, <1>10 DEF Pending
<1> QED BY <1>2, <1>5, <1>11 DEF DeltaInv, Deltas

(* The announcement changes the feed by what the two overlays tell. *)
LEMMA AnnounceWorker ==
    ASSUME WorkerInv, Announce
    PROVE  LET p == worker.edge
               new == {p[1], p[2]} \ Ends(OldGraph)
           IN  /\ WorkerInv'
               /\ NewGraph[p] \in Nat /\ Weight(OldGraph, p) \in Nat
               /\ feed'.nodes = feed.nodes \cup new
               /\ \A q \in Edges : feed'.weight[q] =
                     IF q = p THEN feed.weight[q] + NewGraph[p] - Weight(OldGraph, p)
                     ELSE feed.weight[q]
<1> DEFINE p == worker.edge
           new == {p[1], p[2]} \ Ends(OldGraph)
<1>1. Shape /\ Named /\ worker.at = "announce" /\ p \in Edges
  BY DEF WorkerInv, Shape, Announce
<1>2. /\ worker'.at = "source" /\ worker'.edge = worker.edge
      /\ worker'.version = worker.version
      /\ DOMAIN worker' = {"at", "edge", "version"}
      /\ UNCHANGED <<base, versions>>
  BY <1>1 DEF Announce, Shape
<1>3. NewGraph \in Graphs /\ OldGraph \in Graphs
  <2>1. worker.version \in 1 .. Current /\ worker.version - 1 \in 1 .. Current
    BY <1>1, OverlayTypes DEF Named
  <2> QED BY <1>1, <2>1, OverlayTypes DEF NewGraph, OldGraph
<1>4. NewGraph[p] \in Nat /\ Weight(OldGraph, p) \in Nat
  <2>1. p \in DOMAIN NewGraph
    BY <1>1 DEF Named
  <2> QED BY <1>3, <2>1, GraphWeights
<1>5. feed \in [nodes : SUBSET NodeIds, weight : [Edges -> Int], turns : [NodeIds -> Nat]]
  BY <1>1 DEF Shape
<1>6. feed' = [feed EXCEPT !.nodes = @ \cup new,
                           !.weight[p] = @ + NewGraph[p] - Weight(OldGraph, p)]
  BY DEF Announce, PreviousWeight
<1>7. /\ feed'.nodes = feed.nodes \cup new
      /\ feed'.weight = [feed.weight EXCEPT ![p] = @ + NewGraph[p] - Weight(OldGraph, p)]
      /\ feed'.turns = feed.turns
      /\ DOMAIN feed' = DOMAIN feed
  BY <1>5, <1>6
<1>8. feed' \in [nodes : SUBSET NodeIds, weight : [Edges -> Int], turns : [NodeIds -> Nat]]
  <2>1. new \subseteq NodeIds
    BY <1>1, EdgesAssumption
  <2>2. feed'.nodes \in SUBSET NodeIds
    BY <1>5, <1>7, <2>1
  <2>3. feed'.weight \in [Edges -> Int]
    BY <1>1, <1>4, <1>5, <1>7
  <2>4. feed' = [nodes |-> feed'.nodes, weight |-> feed'.weight, turns |-> feed'.turns]
    BY <1>5, <1>6
  <2> QED BY <1>5, <1>7, <2>2, <2>3, <2>4
<1>9. Shape'
  BY <1>1, <1>2, <1>8 DEF Shape, Stages
<1>10. Sampled' /\ Turned'
  BY <1>7, SamplesStay DEF Announce
<1>11. Named'
  BY <1>1, <1>2 DEF Named, NewGraph, Current
<1>12. \A q \in Edges : feed'.weight[q] =
          IF q = p THEN feed.weight[q] + NewGraph[p] - Weight(OldGraph, p) ELSE feed.weight[q]
  BY <1>5, <1>7
<1> QED BY <1>4, <1>7, <1>9, <1>10, <1>11, <1>12 DEF WorkerInv

LEMMA AnnounceFeed ==
    ASSUME DeltaInv, Announce
    PROVE  DeltaInv'
<1> DEFINE p == worker.edge
           new == {p[1], p[2]} \ Ends(OldGraph)
<1>1. WorkerInv /\ Pending /\ Shape
  BY DEF DeltaInv, WorkerInv, Deltas, Announce
<1>2. /\ WorkerInv'
      /\ NewGraph[p] \in Nat /\ Weight(OldGraph, p) \in Nat
      /\ feed'.nodes = feed.nodes \cup new
      /\ \A q \in Edges : feed'.weight[q] =
            IF q = p THEN feed.weight[q] + NewGraph[p] - Weight(OldGraph, p) ELSE feed.weight[q]
  BY <1>1, AnnounceWorker
<1>3. worker.at = "announce" /\ worker'.at = "source" /\ UNCHANGED <<base, versions>>
  BY <1>1 DEF Announce, Shape
<1>4. Whole' = Whole
  BY <1>3 DEF Whole, Overlay, Current
<1>5. feed'.nodes = Ends(Whole')
  <2>1. Ends(Whole) = feed.nodes \cup {p[1], p[2]} /\ Ends(OldGraph) \subseteq feed.nodes
    BY <1>1 DEF Pending
  <2> QED BY <1>2, <1>4, <2>1
<1>6. ASSUME NEW q \in Edges PROVE feed'.weight[q] = Weight(Whole', q)
  <2>1. Weight(Whole, q) = feed.weight[q] +
                           IF q = p THEN NewGraph[p] - Weight(OldGraph, p) ELSE 0
    BY <1>1 DEF Pending
  <2>2. feed'.weight[q] = IF q = p THEN feed.weight[q] + NewGraph[p] - Weight(OldGraph, p)
                          ELSE feed.weight[q]
    BY <1>2
  <2>3. feed.weight[q] \in Int
    BY <1>1 DEF Shape
  <2> HIDE DEF p
  <2> QED BY <1>2, <1>4, <2>1, <2>2, <2>3
<1> QED BY <1>2, <1>3, <1>5, <1>6 DEF DeltaInv, Deltas, Told

(* The trends of earlier samples do not change, and the turns are counted on *)
(* by one if the trend of the new one differs from the last.                 *)
LEMMA MoreTurns ==
    ASSUME NEW all, Listed(all), NEW s
    PROVE  LET more == Append(all, s)
               turn == all # <<>> /\ Trend(more, Len(more)) # Trend(all, Len(all))
           IN  /\ Cardinality(Turns(all)) \in Nat
               /\ turn => Cardinality(Turns(more)) = Cardinality(Turns(all)) + 1
               /\ ~turn => Cardinality(Turns(more)) = Cardinality(Turns(all))
<1> DEFINE more == Append(all, s)
           L == Len(all)
           turn == all # <<>> /\ Trend(more, Len(more)) # Trend(all, Len(all))
<1>1. /\ L \in Nat /\ Len(more) = L + 1
      /\ \A i \in 1 .. L : more[i] = all[i]
  BY ListedAppend
<1>2. L = 0 <=> all = <<>>
  BY DEF Listed
<1> HIDE DEF more, L
<1>3. \A i \in 1 .. L : Trend(more, i) = Trend(all, i)
  BY <1>1 DEF Trend
<1>4. Turns(more) \ {L + 1} = Turns(all)
  BY <1>1, <1>3 DEF Turns, L
<1>5. L + 1 \in Turns(more) <=> turn
  <2>1. CASE all = <<>>
    BY <1>1, <1>2, <2>1 DEF Turns
  <2>2. CASE all # <<>>
    <3>1. L \in 1 .. L /\ L + 1 \in 2 .. Len(more) /\ L + 1 - 1 = L /\ Len(more) = L + 1
      BY <1>1, <1>2, <2>2
    <3>2. Trend(more, L) = Trend(all, L)
      BY <1>3, <3>1
    <3>3. turn <=> Trend(more, L + 1) # Trend(all, L)
      BY <2>2, <3>1 DEF L
    <3> HIDE DEF turn
    <3> QED BY <3>1, <3>2, <3>3 DEF Turns
  <2> QED BY <2>1, <2>2
<1>6. IsFiniteSet(Turns(all)) /\ Cardinality(Turns(all)) \in Nat /\ L + 1 \notin Turns(all)
  <2>1. Turns(all) \in SUBSET (2 .. L)
    BY DEF Turns, L
  <2>2. IsFiniteSet(2 .. L)
    BY <1>1, FS_Interval
  <2>3. L + 1 \notin 2 .. L
    BY <1>1
  <2> QED BY <2>1, <2>2, <2>3, FS_Subset, FS_CardinalityType
<1> HIDE DEF turn
<1>7. CASE turn
  <2>1. Turns(more) = Turns(all) \cup {L + 1}
    BY <1>4, <1>5, <1>7
  <2>2. Cardinality(Turns(more)) = Cardinality(Turns(all)) + 1
    BY <1>6, <2>1, FS_AddElement
  <2> QED BY <1>6, <1>7, <2>2 DEF turn, more
<1>8. CASE ~turn
  <2>1. Turns(more) = Turns(all)
    BY <1>4, <1>5, <1>8
  <2> QED BY <1>6, <1>8, <2>1 DEF turn, more
<1> QED BY <1>7, <1>8

(* The trend computed from the buffer is that of the sample just pushed.     *)
LEMMA TrendFromRing ==
    ASSUME NEW h, NEW all, NEW s, Listed(all), Ring(h, Append(all, s))
    PROVE  TrendOf(h, s.tension) = Trend(Append(all, s), Len(all) + 1)
<1> DEFINE more == Append(all, s)
           L == Len(all)
           len == IF Len(more) < Capacity THEN Len(more) ELSE Capacity
<1>1. /\ Listed(more) /\ more # <<>> /\ L \in Nat /\ Len(more) = L + 1 /\ more[L + 1] = s
  BY ListedAppend
<1>2. (HasPrevious(h) <=> len >= 2) /\ (len >= 2 => Previous(h) = more[Len(more) - 1])
  BY <1>1, RingReads
<1>3. Capacity \in Nat /\ Capacity > 0
  BY Sizes
<1> HIDE DEF more, L
<1>4. CASE L + 1 = 1 \/ Capacity = 1
  <2>1. ~(len >= 2)
    BY <1>1, <1>3, <1>4
  <2>2. TrendOf(h, s.tension) = "stable"
    BY <1>2, <2>1 DEF TrendOf
  <2> QED BY <1>4, <2>2 DEF Trend, more, L
<1>5. CASE ~(L + 1 = 1 \/ Capacity = 1)
  <2>1. len >= 2 /\ Len(more) - 1 = L + 1 - 1
    BY <1>1, <1>3, <1>5
  <2>2. HasPrevious(h) /\ Previous(h) = more[L + 1 - 1]
    BY <1>2, <2>1
  <2>3. TrendOf(h, s.tension) = Trend(more, L + 1)
    BY <1>1, <1>5, <2>2 DEF TrendOf, Trend
  <2> QED BY <2>3 DEF more, L
<1> QED BY <1>4, <1>5

(* Examining a node pushes a sample, keeps its trend, and tells a turn.      *)
LEMMA ExamineWorker ==
    ASSUME WorkerInv, worker.at \in {"source", "target"}, NEW n \in NodeIds, Examine(n),
           NEW next \in {"target", "idle"}, worker' = [worker EXCEPT !.at = next]
    PROVE  WorkerInv' /\ feed'.nodes = feed.nodes /\ feed'.weight = feed.weight
<1> DEFINE t == Calculate(NewGraph, n)
           s == [tension |-> t, version |-> worker.version]
           old == IF n \in DOMAIN history THEN history[n] ELSE NewTensionHistory
           h == Push(old, s)
           trend == TrendOf(h, t)
           all == samples[n]
           more == Append(all, s)
<1>1. Shape /\ Sampled /\ Turned /\ Named
  BY DEF WorkerInv
<1>2. /\ history' = [m \in DOMAIN history \cup {n} |-> IF m = n THEN h ELSE history[m]]
      /\ lastTrend' = [m \in DOMAIN lastTrend \cup {n} |-> IF m = n THEN trend ELSE lastTrend[m]]
      /\ feed' = IF n \in DOMAIN lastTrend /\ trend # lastTrend[n]
                 THEN [feed EXCEPT !.turns[n] = @ + 1] ELSE feed
      /\ samples' = [samples EXCEPT ![n] = more]
      /\ UNCHANGED <<base, versions>>
  BY DEF Examine
<1>3. s.tension = t
  OBVIOUS
<1>4. Listed(all) /\ (n \in DOMAIN history <=> all # <<>>) /\ DOMAIN samples = NodeIds
  BY <1>1 DEF Sampled
<1>5. Ring(old, all)
  <2>1. CASE n \in DOMAIN history
    BY <1>1, <2>1 DEF Sampled
  <2>2. CASE n \notin DOMAIN history
    BY <1>4, <2>2, RingNew
  <2> QED BY <2>1, <2>2
<1> HIDE DEF t, s, old, all
<1>6. Ring(h, more) /\ Listed(more) /\ more # <<>> /\ Len(more) = Len(all) + 1
  BY <1>4, <1>5, RingPush, ListedAppend
<1>7. trend = Trend(more, Len(more))
  BY <1>3, <1>4, <1>6, TrendFromRing
<1> HIDE DEF h, trend, more
<1>8. Sampled'
  <2>1. DOMAIN samples' = NodeIds /\ samples'[n] = more
        /\ \A m \in NodeIds : m # n => samples'[m] = samples[m]
    BY <1>2, <1>4
  <2>2. /\ DOMAIN history' = DOMAIN history \cup {n} /\ history'[n] = h
        /\ \A m \in DOMAIN history : m # n => history'[m] = history[m]
    BY <1>2
  <2> QED BY <1>1, <1>6, <2>1, <2>2 DEF Sampled
<1>9. /\ worker'.at = next /\ worker'.edge = worker.edge /\ worker'.version = worker.version
      /\ DOMAIN worker' = {"at", "edge", "version"}
  BY <1>1 DEF Shape
<1>10. feed \in [nodes : SUBSET NodeIds, weight : [Edges -> Int], turns : [NodeIds -> Nat]]
  BY <1>1 DEF Shape
<1>11. /\ feed' \in [nodes : SUBSET NodeIds, weight : [Edges -> Int], turns : [NodeIds -> Nat]]
       /\ feed'.nodes = feed.nodes /\ feed'.weight = feed.weight
       /\ \A m \in NodeIds : m # n => feed'.turns[m] = feed.turns[m]
       /\ feed'.turns[n] = feed.turns[n] +
             IF n \in DOMAIN lastTrend /\ trend # lastTrend[n] THEN 1 ELSE 0
  <2>1. CASE n \in DOMAIN lastTrend /\ trend # lastTrend[n]
    <3>1. feed' = [feed EXCEPT !.turns[n] = @ + 1]
      BY <1>2, <2>1
    <3> QED BY <1>10, <2>1, <3>1
  <2>2. CASE ~(n \in DOMAIN lastTrend /\ trend # lastTrend[n])
    <3>1. feed' = feed /\ feed.turns[n] \in Nat
      BY <1>2, <1>10, <2>2
    <3> QED BY <1>10, <2>2, <3>1
  <2> QED BY <2>1, <2>2
<1>12. Shape'
  BY <1>1, <1>2, <1>9, <1>11 DEF Shape, Stages
<1>13. Turned'
  <2>1. DOMAIN lastTrend' = DOMAIN history'
    BY <1>1, <1>2 DEF Turned
  <2>2. ASSUME NEW m \in DOMAIN lastTrend'
        PROVE  lastTrend'[m] = Trend(samples'[m], Len(samples'[m]))
    <3>1. CASE m = n
      BY <1>2, <1>4, <1>7, <3>1
    <3>2. CASE m # n
      <4>1. m \in DOMAIN lastTrend /\ lastTrend'[m] = lastTrend[m] /\ samples'[m] = samples[m]
        BY <1>1, <1>2, <2>2, <3>2 DEF Sampled, Turned
      <4> QED BY <1>1, <4>1 DEF Turned
    <3> QED BY <3>1, <3>2
  <2>3. feed'.turns[n] = Cardinality(Turns(samples'[n]))
    <3>1. samples'[n] = more
      BY <1>2, <1>4
    <3>2. feed.turns[n] = Cardinality(Turns(all))
      BY <1>1 DEF Turned, all
    <3>3. (n \in DOMAIN lastTrend /\ trend # lastTrend[n])
             <=> (all # <<>> /\ Trend(more, Len(more)) # Trend(all, Len(all)))
      BY <1>1, <1>4, <1>7 DEF Turned, all
    <3>4. LET turn == all # <<>> /\ Trend(more, Len(more)) # Trend(all, Len(all))
          IN  /\ Cardinality(Turns(all)) \in Nat
              /\ turn => Cardinality(Turns(more)) = Cardinality(Turns(all)) + 1
              /\ ~turn => Cardinality(Turns(more)) = Cardinality(Turns(all))
      BY <1>4, MoreTurns DEF more
    <3> QED BY <1>11, <3>1, <3>2, <3>3, <3>4
  <2>4. ASSUME NEW m \in NodeIds, m # n
        PROVE  feed'.turns[m] = Cardinality(Turns(samples'[m]))
    <3>1. samples'[m] = samples[m]
      BY <1>2, <1>4, <2>4
    <3> QED BY <1>1, <1>11, <2>4, <3>1 DEF Turned
  <2> QED BY <2>1, <2>2, <2>3, <2>4 DEF Turned
<1>14. Named'
  BY <1>1, <1>2, <1>9 DEF Named, NewGraph, Current
<1> QED BY <1>8, <1>11, <1>12, <1>13, <1>14 DEF WorkerInv

LEMMA ExamineFeed ==
    ASSUME DeltaInv, worker.at \in {"source", "target"}, NEW n \in NodeIds, Examine(n),
           NEW next \in {"target", "idle"}, worker' = [worker EXCEPT !.at = next]
    PROVE  DeltaInv'
<1>1. WorkerInv /\ Shape /\ Told
  BY DEF DeltaInv, WorkerInv, Deltas
<1>2. WorkerInv' /\ feed'.nodes = feed.nodes /\ feed'.weight = feed.weight
  BY <1>1, ExamineWorker
<1>3. worker'.at = next /\ UNCHANGED <<base, versions>>
  BY <1>1 DEF Shape, Examine
<1>4. Whole' = Whole
  BY <1>3 DEF Whole, Overlay, Current
<1>5. Told'
  BY <1>1, <1>2, <1>4 DEF Told
<1> QED BY <1>2, <1>3, <1>5 DEF DeltaInv, Deltas

LEMMA EdgeNodes ==
    ASSUME WorkerInv, worker.at # "idle"
    PROVE  worker.edge[1] \in NodeIds /\ worker.edge[2] \in NodeIds
<1>1. worker.edge \in NodeIds \X NodeIds
  BY EdgesAssumption DEF WorkerInv, Shape
<1> QED BY <1>1

LEMMA StepWorker ==
    ASSUME WorkerInv, FeedNext
    PROVE  WorkerInv'
<1>1. CASE ExamineSource
  BY <1>1, EdgeNodes, ExamineWorker DEF ExamineSource
<1>2. CASE ExamineTarget
  BY <1>2, EdgeNodes, ExamineWorker DEF ExamineTarget
<1> QED BY <1>1, <1>2, ProcessWorker, CompactWorker, AnnounceWorker DEF FeedNext

LEMMA StepDeltas ==
    ASSUME DeltaInv, FeedNext
    PROVE  DeltaInv'
<1>1. WorkerInv
  BY DEF DeltaInv
<1>2. CASE ExamineSource
  BY <1>1, <1>2, EdgeNodes, ExamineFeed DEF ExamineSource
<1>3. CASE ExamineTarget
  BY <1>1, <1>3, EdgeNodes, ExamineFeed DEF ExamineTarget
<1> QED BY <1>2, <1>3, ProcessFeed, MergeFeed, SwapFeed, AnnounceFeed DEF FeedNext

(* Steps of a call leave all that the worker alone writes as it is. *)
LEMMA CallWorker ==
    ASSUME WorkerInv, CallNext
    PROVE  /\ WorkerInv' /\ UNCHANGED callVars
           /\ \/ UNCHANGED versions
              \/ versions' = Append(versions, NoEdges) /\ UNCHANGED base
<1>1. Shape /\ Sampled /\ Turned /\ Named /\ base \in Graphs /\ NoEdges \in Graphs
      /\ UNCHANGED callVars
  BY NoEdgesGraph DEF WorkerInv, Shape, CallNext, CompactBase, CompactSwap, CompactCount,
                      ResetBase, ResetCount, ResetSwap
<1>2. \/ UNCHANGED versions /\ base' \in {base, NoEdges, Merge(base, Overlay)}
      \/ versions' = Append(versions, NoEdges) /\ UNCHANGED base
  BY DEF CallNext, CompactBase, CompactSwap, CompactCount, ResetBase, ResetCount, ResetSwap
<1>3. UNCHANGED <<worker, history, lastTrend, feed, samples>>
  BY <1>1 DEF callVars
<1>4. Sampled' /\ Turned'
  BY <1>3, SamplesStay
<1>5. base' \in Graphs
  <2>1. Merge(base, Overlay) \in Graphs
    BY <1>1, OverlayTypes, MergeGraphs
  <2> QED BY <1>1, <1>2, <2>1
<1>6. versions' = versions \/ versions' = Append(versions, NoEdges)
  BY <1>2
<1>7. versions' \in Seq(Graphs) /\ versions' # <<>>
  BY <1>1, <1>6, MoreVersions DEF Shape
<1>8. Shape'
  BY <1>1, <1>3, <1>5, <1>7 DEF Shape
<1>9. Named'
  <2>1. CASE worker.at = "idle"
    BY <1>3, <2>1 DEF Named
  <2>2. CASE worker.at # "idle"
    BY <1>1, <1>3, <1>6, <2>2, NamedStays
  <2> QED BY <2>1, <2>2
<1> QED BY <1>1, <1>2, <1>4, <1>8, <1>9 DEF WorkerInv

LEMMA CallingSteps ==
    ASSUME Calling
    PROVE  /\ FeedNext => UNCHANGED caller
           /\ CallNext => Calling' /\ caller'.calls > 0
<1>1. FeedNext => UNCHANGED caller
  BY DEF FeedNext, Process, MergeBase, SwapOverlay, Announce, ExamineSource, ExamineTarget,
         Examine
<1>2. ASSUME CallNext PROVE Calling' /\ caller'.calls > 0
  <2>1. \/ \E at \in CallStages : Call(at)
        \/ \E from \in CallStages \ {"out"}, to \in CallStages : GoOn(from, to)
    BY <1>2 DEF CallNext, CompactBase, CompactSwap, CompactCount, ResetBase, ResetCount,
                ResetSwap, CallStages
  <2>2. ASSUME NEW at \in CallStages, Call(at) PROVE Calling' /\ caller'.calls > 0
    <3>1. /\ caller.calls \in Nat /\ caller.calls < MaxCalls /\ MaxCalls \in Nat
          /\ caller' = [at |-> at, calls |-> caller.calls + 1]
      BY <2>2, FeedAssumption DEF Call, Calling
    <3> QED BY <3>1 DEF Calling
  <2>3. ASSUME NEW from \in CallStages \ {"out"}, NEW to \in CallStages, GoOn(from, to)
        PROVE  Calling' /\ caller'.calls > 0
    <3>1. /\ caller \in [at : CallStages, calls : Nat] /\ caller.calls <= MaxCalls
          /\ caller.calls > 0 /\ caller' = [caller EXCEPT !.at = to]
      BY <2>3 DEF GoOn, Calling
    <3> QED BY <3>1 DEF Calling
  <2> QED BY <2>1, <2>2, <2>3
<1> QED BY <1>1, <1>2

LEMMA StepFeed ==
    ASSUME FeedInv, FeedNext \/ CallNext
    PROVE  FeedInv'
<1>1. WorkerInv /\ Calling
  BY DEF FeedInv
<1>2. CASE FeedNext
  <2>1. caller' = caller /\ WorkerInv'
    BY <1>1, <1>2, CallingSteps, StepWorker
  <2>2. caller.calls = 0 => Deltas'
    BY <1>1, <1>2, StepDeltas DEF FeedInv, DeltaInv
  <2> QED BY <1>1, <2>1, <2>2 DEF FeedInv, Calling
<1>3. CASE CallNext
  <2>1. Calling' /\ caller'.calls > 0 /\ WorkerInv'
    BY <1>1, <1>3, CallingSteps, CallWorker
  <2> QED BY <2>1 DEF FeedInv
<1> QED BY <1>2, <1>3

-----------------------------------------------------------------------------
(* What the invariant says of the two properties. *)

LEMMA FeedIsExact ==
    ASSUME FeedInv
    PROVE  HistoryExact /\ FeedAddsUp
<1>1. HistoryExact
  <2> SUFFICES ASSUME NEW n \in NodeIds
               PROVE  LET all == samples[n]
                          len == IF Len(all) < Capacity THEN Len(all) ELSE Capacity
                      IN  IF n \notin DOMAIN history THEN all = <<>>
                          ELSE /\ Slice(history[n]) = SubSeq(all, Len(all) - len + 1, Len(all))
                               /\ Latest(history[n]) = Last(all)
                               /\ HasPrevious(history[n]) <=> len >= 2
                               /\ len >= 2 => Previous(history[n]) = all[Len(all) - 1]
    BY DEF HistoryExact
  <2>1. CASE n \notin DOMAIN history
    BY <2>1 DEF FeedInv, WorkerInv, Sampled
  <2>2. CASE n \in DOMAIN history
    <3>1. Listed(samples[n]) /\ Ring(history[n], samples[n]) /\ samples[n] # <<>>
      BY <2>2 DEF FeedInv, WorkerInv, Sampled
    <3> QED BY <2>2, <3>1, RingReads
  <2> QED BY <2>1, <2>2
<1>2. FeedAddsUp
  <2>1. ASSUME worker.at \in {"idle", "source", "target"}, caller.calls = 0
        PROVE  LET whole == Merge(base, Overlay)
               IN  /\ feed.nodes = Ends(whole)
                   /\ feed.weight = [p \in Edges |-> Weight(whole, p)]
    <3>1. Told /\ Whole = Merge(base, Overlay)
      BY <2>1 DEF FeedInv, Deltas, Whole
    <3>2. feed.weight \in [Edges -> Int]
      BY DEF FeedInv, WorkerInv, Shape
    <3> QED BY <3>1, <3>2 DEF Told
  <2>2. \A n \in NodeIds : feed.turns[n] = Cardinality(Turns(samples[n]))
    BY DEF FeedInv, WorkerInv, Turned
  <2> QED BY <2>1, <2>2 DEF FeedAddsUp, Turns
<1> QED BY <1>1, <1>2
-----------------------------------------------------------------------------
(* The types: the calibrator's numbers are naturals, whoever observes in it, *)
(* and the overlay never counts more events than have been processed.        *)

LEMMA MinBounds ==
    ASSUME NEW S, S \subseteq Nat, S # {}
    PROVE  Min(S) \in S
<1>1. \E x \in S : \A y \in S : x <= y
  BY Least
<1> QED BY <1>1 DEF Min

LEMMA NaturalsListed ==
    ASSUME NEW values \in Seq(Nat)
    PROVE  /\ Len(values) \in Nat /\ DOMAIN values = 1 .. Len(values)
           /\ \A i \in DOMAIN values : values[i] \in Nat
           /\ IsFiniteSet(DOMAIN values) /\ Cardinality(DOMAIN values) = Len(values)
           /\ Range(values) \subseteq Nat /\ IsFiniteSet(Range(values))
<1>1. /\ Len(values) \in Nat /\ DOMAIN values = 1 .. Len(values)
      /\ \A i \in DOMAIN values : values[i] \in Nat
  OBVIOUS
<1>2. IsFiniteSet(1 .. Len(values)) /\ Cardinality(1 .. Len(values)) = Len(values)
  <2> DEFINE n == Len(values)
  <2>1. n \in Nat
    BY <1>1
  <2> HIDE DEF n
  <2>2. IsFiniteSet(1 .. n) /\ Cardinality(1 .. n) = IF 1 > n THEN 0 ELSE n - 1 + 1
    BY <2>1, FS_Interval
  <2>3. Cardinality(1 .. n) = n
    BY <2>1, <2>2
  <2> QED BY <2>2, <2>3 DEF n
<1>3. Range(values) \subseteq Nat
  BY <1>1 DEF Range
<1>4. values \in Surjection(DOMAIN values, Range(values))
  <2>1. values = [i \in DOMAIN values |-> values[i]]
    BY <1>1
  <2>2. values \in [DOMAIN values -> Range(values)]
    BY <2>1 DEF Range
  <2> QED BY <2>2 DEF Surjection, Range
<1>5. IsFiniteSet(Range(values))
  BY <1>1, <1>2, <1>4, FS_Surjection
<1> QED BY <1>1, <1>2, <1>3, <1>5

LEMMA SortedNatural ==
    ASSUME NEW values \in Seq(Nat), NEW k \in 1 .. Len(values)
    PROVE  Sorted(values, k) \in Nat
<1> DEFINE upto(v) == {i \in DOMAIN values : values[i] <= v}
           S == {v \in Range(values) : Cardinality(upto(v)) >= k}
           top == Max(Range(values))
<1>1. /\ Len(values) \in Nat /\ DOMAIN values = 1 .. Len(values)
      /\ Cardinality(DOMAIN values) = Len(values)
      /\ Range(values) \subseteq Nat /\ IsFiniteSet(Range(values))
  BY NaturalsListed
<1>2. \A i \in DOMAIN values : values[i] \in Range(values)
  BY DEF Range
<1>3. 1 \in DOMAIN values
  BY <1>1
<1>4. Range(values) \subseteq Int
  BY <1>1
<1>5. top \in Range(values) /\ \A x \in Range(values) : top >= x
  BY <1>1, <1>2, <1>3, <1>4, MaxBounds
<1> HIDE DEF top
<1>6. upto(top) = DOMAIN values
  <2>1. \A i \in DOMAIN values : values[i] <= top
    BY <1>1, <1>2, <1>5
  <2> QED BY <2>1
<1>7. top \in S
  <2>1. Cardinality(upto(top)) = Cardinality(DOMAIN values)
    BY <1>6
  <2> HIDE DEF upto
  <2>2. Cardinality(upto(top)) >= k
    BY <1>1, <2>1
  <2> QED BY <1>5, <2>2
<1>8. S \subseteq Nat
  BY <1>1
<1> HIDE DEF S
<1>9. Min(S) \in Nat
  BY <1>7, <1>8, MinBounds
<1> QED BY <1>9 DEF Sorted, S

LEMMA MedianNatural ==
    ASSUME NEW values \in Seq(Nat), values # <<>>
    PROVE  Median(values) \in Nat
<1> DEFINE n == Len(values)
           h == n \div 2
<1>1. n \in Nat /\ n > 0
  OBVIOUS
<1> HIDE DEF n
<1>2. h \in Nat /\ (n % 2 = 0 => h \in 1 .. n /\ h + 1 \in 1 .. n) /\ h + 1 \in 1 .. n
  BY <1>1
<1> HIDE DEF h
<1>3. h + 1 \in 1 .. n => Sorted(values, h + 1) \in Nat
  BY SortedNatural DEF n
<1>4. h \in 1 .. n => Sorted(values, h) \in Nat
  BY SortedNatural DEF n
<1>5. CASE n % 2 = 0
  <2>1. Sorted(values, h) + Sorted(values, h + 1) \in Nat
    BY <1>2, <1>3, <1>4, <1>5
  <2>2. (Sorted(values, h) + Sorted(values, h + 1)) \div 2 \in Nat
    BY <2>1, Quotient
  <2> QED BY <1>5, <2>2 DEF Median, n, h
<1>6. CASE n % 2 # 0
  BY <1>2, <1>3, <1>6 DEF Median, n, h
<1> QED BY <1>5, <1>6

LEMMA BaselineNatural ==
    ASSUME NEW values \in Seq(Nat), values # <<>>
    PROVE  Baseline(values) \in Nat
<1> DEFINE median == Median(values)
           off == [i \in DOMAIN values |-> Abs(values[i] - median)]
<1>1. median \in Nat
  BY MedianNatural
<1> HIDE DEF median
<1>2. off \in Seq(Nat) /\ off # <<>>
  <2>1. \A i \in DOMAIN values : values[i] \in Nat /\ Abs(values[i] - median) \in Nat
    BY <1>1, NaturalsListed DEF Abs
  <2>2. Len(values) \in Nat /\ Len(values) > 0 /\ DOMAIN values = 1 .. Len(values)
    OBVIOUS
  <2>3. off \in [1 .. Len(values) -> Nat]
    BY <2>1, <2>2
  <2> QED BY <2>2, <2>3
<1>3. Median(off) \in Nat
  BY <1>2, MedianNatural
<1>4. K * Median(off) \in Nat
  BY <1>3, FeedAssumption, Product
<1>5. median + K * Median(off) \in Nat
  BY <1>1, <1>4
<1> QED BY <1>5 DEF Baseline, median

Calibrators == [observations : Seq(Nat), warmedUp : BOOLEAN, threshold : Nat]

(* Observing a natural number keeps the calibrator's numbers naturals.       *)
LEMMA ObserveTypes ==
    ASSUME NEW c \in Calibrators, NEW tension \in Nat
    PROVE  Observe(c, tension) \in Calibrators
<1> DEFINE seen == Append(c.observations, tension)
<1>1. seen \in Seq(Nat) /\ seen # <<>>
  BY DEF Calibrators
<1>2. Baseline(seen) \in Nat
  BY <1>1, BaselineNatural
<1> HIDE DEF seen
<1>3. /\ [observations |-> seen, warmedUp |-> TRUE, threshold |-> Baseline(seen)] \in Calibrators
      /\ [c EXCEPT !.observations = seen] \in Calibrators
  BY <1>1, <1>2 DEF Calibrators
<1> QED BY <1>3 DEF Observe, seen

(* The versions with events in them. *)
Busy == {v \in DOMAIN versions : versions[v] # NoEdges}

FeedTyped ==
    /\ overlayCount \in Nat /\ overlayCount <= Processed /\ Processed <= MaxEvents
    /\ worker.version \in 1 .. Current
    /\ calibrator \in Calibrators

LEMMA BusyFinite ==
    ASSUME Shape
    PROVE  /\ Busy \subseteq 1 .. Current /\ Current \in Nat
           /\ IsFiniteSet(Busy) /\ Cardinality(Busy) \in Nat /\ Processed = Cardinality(Busy)
<1>1. Busy \subseteq 1 .. Current /\ Current \in Nat
  BY OverlayTypes DEF Busy, Shape, Current
<1>2. IsFiniteSet(1 .. Current)
  BY <1>1, FS_Interval
<1>3. IsFiniteSet(Busy) /\ Cardinality(Busy) \in Nat
  BY <1>1, <1>2, FS_Subset, FS_CardinalityType
<1> QED BY <1>1, <1>3 DEF Busy, Processed

LEMMA InitTyped ==
    ASSUME FeedInit
    PROVE  FeedTyped
<1>1. Shape
  BY InitFeed DEF FeedInv, WorkerInv
<1>2. Current = 1 /\ Busy = {}
  BY DEF FeedInit, Current, Busy
<1>3. Processed = 0
  BY <1>1, <1>2, BusyFinite, FS_EmptySet
<1>4. calibrator \in Calibrators
  BY DEF FeedInit, NewCalibrator, Calibrators
<1> QED BY <1>2, <1>3, <1>4, FeedAssumption DEF FeedInit, FeedTyped

(* One more version, with or without events. *)
LEMMA ProcessedMore ==
    ASSUME Shape, Shape', NEW v \in Graphs,
           versions' = Append(versions, v)
    PROVE  /\ Processed \in Nat /\ Current' = Current + 1 /\ Current \in Nat
           /\ Processed' = IF v = NoEdges THEN Processed ELSE Processed + 1
<1> DEFINE n == Current + 1
<1>1. /\ Busy \subseteq 1 .. Current /\ IsFiniteSet(Busy)
      /\ Cardinality(Busy) \in Nat /\ Processed = Cardinality(Busy)
  BY BusyFinite
<1>2. Processed' = Cardinality(Busy')
  BY DEF Processed, Busy
<1>3. /\ Current \in Nat /\ Current' = n /\ versions'[n] = v
      /\ \A k \in 1 .. Current : versions'[k] = versions[k]
  BY MoreVersions
<1>4. DOMAIN versions' = 1 .. n /\ DOMAIN versions = 1 .. Current
  BY <1>3 DEF Shape, Current
<1>5. n \notin Busy
  BY <1>1, <1>3
<1>6. \A k : k \in 1 .. n <=> k \in 1 .. Current \/ k = n
  BY <1>3
<1> HIDE DEF n
<1>7. Busy' = IF v = NoEdges THEN Busy ELSE Busy \cup {n}
  BY <1>3, <1>4, <1>5, <1>6 DEF Busy
<1> QED BY <1>1, <1>2, <1>3, <1>5, <1>7, FS_AddElement DEF n

(* An edge with an event is in the overlay. *)
LEMMA EventsShow ==
    ASSUME NEW g \in Graphs, NEW p \in Edges, NEW w \in Weights
    PROVE  WithEvent(g, p, w) # NoEdges
<1>1. DOMAIN WithEvent(g, p, w) = DOMAIN g \cup {p}
  BY EventGraph
<1>2. p \notin DOMAIN NoEdges
  BY NoEdgesGraph
<1> QED BY <1>1, <1>2

LEMMA StepTyped ==
    ASSUME WorkerInv, FeedTyped, FeedNext
    PROVE  FeedTyped'
<1>1. Shape /\ Shape' /\ Named
  BY StepWorker DEF WorkerInv
<1>2. Current \in Nat /\ Current >= 1 /\ base \in Graphs /\ Overlay \in Graphs
  BY <1>1, OverlayTypes DEF Shape
<1>3. ASSUME NEW p \in Edges, NEW w \in Weights, Process(p, w), Processed < MaxEvents
      PROVE  FeedTyped'
  <2> DEFINE v == WithEvent(Overlay, p, w)
  <2>1. v \in Graphs /\ v # NoEdges
    BY <1>2, EventGraph, EventsShow
  <2>2. versions' = Append(versions, v)
    BY <1>3 DEF Process
  <2> HIDE DEF v
  <2>3. Processed \in Nat /\ Processed' = Processed + 1 /\ Current' \in 1 .. Current'
    BY <1>1, <1>2, <2>1, <2>2, ProcessedMore
  <2>4. worker'.version = Current' /\ overlayCount' = overlayCount + 1 /\ calibrator' = calibrator
    BY <1>3 DEF Process
  <2> QED BY <1>3, <2>3, <2>4, FeedAssumption DEF FeedTyped
<1>4. ASSUME UNCHANGED <<versions, overlayCount>>, worker'.version = worker.version,
             calibrator' \in Calibrators
      PROVE  FeedTyped'
  BY <1>4 DEF FeedTyped, Processed, Current
<1>5. CASE MergeBase
  BY <1>1, <1>4, <1>5 DEF MergeBase, Shape, FeedTyped
<1>6. CASE SwapOverlay
  <2> DEFINE v == NoEdges
  <2>1. v \in Graphs /\ v = NoEdges
    BY <1>2, NoEdgesGraph
  <2>2. versions' = Append(versions, v)
    BY <1>6 DEF SwapOverlay
  <2> HIDE DEF v
  <2>3. Processed \in Nat /\ Processed' = Processed /\ Current' = Current + 1
    BY <1>1, <2>1, <2>2, ProcessedMore
  <2>4. worker'.version = worker.version /\ overlayCount' = 0 /\ calibrator' = calibrator
    BY <1>1, <1>6 DEF SwapOverlay, Shape
  <2> QED BY <1>2, <2>3, <2>4 DEF FeedTyped
<1>7. CASE Announce
  BY <1>1, <1>4, <1>7 DEF Announce, Shape, FeedTyped
<1>8. ASSUME NEW n \in NodeIds, Examine(n), worker.at # "idle"
      PROVE  calibrator' \in Calibrators /\ UNCHANGED <<versions, overlayCount>>
  <2>1. NewGraph \in Graphs
    <3>1. worker.version \in 1 .. Current
      BY <1>2, <1>8 DEF FeedTyped
    <3> QED BY <1>1, <3>1, OverlayTypes DEF NewGraph
  <2>2. Calculate(NewGraph, n) \in Nat
    BY <2>1, FeedTension
  <2>3. calibrator' = Observe(calibrator, Calculate(NewGraph, n))
    BY <1>8 DEF Examine
  <2>4. calibrator' \in Calibrators
    BY <2>2, <2>3, ObserveTypes DEF FeedTyped
  <2> QED BY <1>8, <2>4 DEF Examine
<1>9. CASE ExamineSource
  <2>1. calibrator' \in Calibrators /\ UNCHANGED <<versions, overlayCount>>
    BY <1>8, <1>9, EdgeNodes DEF ExamineSource
  <2> QED BY <1>1, <1>4, <1>9, <2>1 DEF ExamineSource, Shape
<1>10. CASE ExamineTarget
  <2>1. calibrator' \in Calibrators /\ UNCHANGED <<versions, overlayCount>>
    BY <1>8, <1>10, EdgeNodes DEF ExamineTarget
  <2> QED BY <1>1, <1>4, <1>10, <2>1 DEF ExamineTarget, Shape
<1> QED BY <1>3, <1>5, <1>6, <1>7, <1>9, <1>10 DEF FeedNext

LEMMA CallTyped ==
    ASSUME WorkerInv, FeedTyped, CallNext
    PROVE  FeedTyped'
<1>1. Shape /\ Shape' /\ NoEdges \in Graphs
  BY CallWorker, NoEdgesGraph DEF WorkerInv
<1>2. overlayCount' \in {0, overlayCount} /\ UNCHANGED <<worker, calibrator>>
  BY DEF CallNext, CompactBase, CompactSwap, CompactCount, ResetBase, ResetCount, ResetSwap,
         callVars
<1>3. CASE UNCHANGED versions
  <2>1. Processed' = Processed /\ Current' = Current /\ Processed \in Nat
    BY <1>1, <1>3, BusyFinite DEF Processed, Current
  <2> QED BY <1>2, <2>1 DEF FeedTyped
<1>4. CASE versions' = Append(versions, NoEdges)
  <2>1. /\ Processed \in Nat /\ Processed' = Processed
        /\ Current' = Current + 1 /\ Current \in Nat
    BY <1>1, <1>4, ProcessedMore
  <2> QED BY <1>2, <2>1 DEF FeedTyped
<1> QED BY <1>3, <1>4, CallWorker

(* The types follow. *)
LEMMA FeedTypes ==
    ASSUME WorkerInv, Calling, FeedTyped
    PROVE  FeedTypeOK
<1>1. Shape /\ Sampled /\ Turned
  BY DEF WorkerInv
<1>2. DOMAIN base \subseteq Edges /\ \A v \in DOMAIN versions : DOMAIN versions[v] \subseteq Edges
  <2>1. DOMAIN versions = 1 .. Current /\ base \in Graphs
    BY <1>1 DEF Shape, Current
  <2> QED BY <1>1, <2>1, OverlayTypes, GraphWeights
<1>3. overlayCount \in 0 .. MaxEvents /\ worker.version \in DOMAIN versions
  <2>1. DOMAIN versions = 1 .. Current
    BY <1>1 DEF Shape, Current
  <2>2. Processed \in Nat /\ MaxEvents \in Nat
    BY <1>1, BusyFinite, FeedAssumption
  <2> QED BY <2>1, <2>2 DEF FeedTyped
<1>4. worker.at \in Stages /\ worker.edge \in Edges
      /\ feed.nodes \subseteq NodeIds /\ feed.turns \in [NodeIds -> Nat]
  BY <1>1 DEF Shape
<1>5. DOMAIN history = DOMAIN lastTrend
      /\ \A n \in DOMAIN history : history[n].head \in 0 .. Capacity - 1
  BY <1>1 DEF Turned, Sampled, Ring
<1>6. \A n \in DOMAIN lastTrend : lastTrend[n] \in {"stable", "increasing", "decreasing"}
  <2>1. \A all, i : Trend(all, i) \in {"stable", "increasing", "decreasing"}
    BY DEF Trend
  <2> QED BY <1>1, <2>1 DEF Turned
<1>7. calibrator.warmedUp \in BOOLEAN /\ calibrator.threshold \in Nat
  BY DEF FeedTyped, Calibrators
<1>8. caller.at \in CallStages /\ caller.calls \in 0 .. MaxCalls
  BY FeedAssumption DEF Calling
<1> QED BY <1>2, <1>3, <1>4, <1>5, <1>6, <1>7, <1>8 DEF FeedTypeOK, Stages, CallStages
=============================================================================
