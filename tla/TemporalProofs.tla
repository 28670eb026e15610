--------------------------- MODULE TemporalProofs ---------------------------
(* The temporal summary of an analysis, for any graph, capacity, number of   *)
(* users and of resets: what it takes for lost was dropped or is newer than  *)
(* the snapshot, and its trends are founded.                                 *)
EXTENDS Temporal, ChangeFeedProofs

-----------------------------------------------------------------------------
(* The inductive invariant. *)

Edged(v) == DOMAIN versions[v]

(* Until the next Reset no edge of a version gets lost: it is in every later *)
(* overlay or in the base, and in the base when a compaction has merged.     *)
Kept ==
    /\ cleared \in 0 .. Current
    /\ \A u \in 1 .. Current : \A v \in 1 .. u :
         v > cleared => Edged(v) \subseteq Edged(u) \cup DOMAIN base
    /\ worker.at = "swap" =>
         \A v \in 1 .. Current : v > cleared => Edged(v) \subseteq DOMAIN base

(* A sample is the tension its node had in the overlay of its version. *)
SampleOf(n, s) ==
    /\ s.version \in 1 .. Current
    /\ n \in Ends(versions[s.version])
    /\ s.tension = Calculate(versions[s.version], n)

Drawn == \A n \in NodeIds : \A i \in 1 .. Len(samples[n]) : SampleOf(n, samples[n][i])

(* The snapshot has what Kept says of its version when it was opened. *)
Opened(x) ==
    /\ x.version \in 1 .. Current /\ x.base \in Graphs /\ x.cleared \in Nat
    /\ \A v \in 1 .. x.version :
         v > x.cleared => Edged(v) \subseteq Edged(x.version) \cup DOMAIN x.base

(* What was read first are the samples before the latest of that time. *)
Read(x) ==
    /\ DOMAIN x.sampled = NodeIds
    /\ \A n \in NodeIds : x.sampled[n] \in Nat /\ x.sampled[n] <= Len(samples[n])
    /\ DOMAIN x.previous = {n \in NodeIds : x.sampled[n] >= 2 /\ Capacity >= 2}
    /\ \A n \in DOMAIN x.previous : x.previous[n] = samples[n][x.sampled[n] - 1].tension

Fields == DOMAIN NoReader

View(x) == Merge(x.base, versions[x.version])
Viewed(x) == [n \in Ends(View(x)) |-> Calculate(View(x), n)]

(* The summary: a loss is one of the view against what was read, and each    *)
(* trend has its reasons.                                                    *)
Judged(x) ==
    /\ x.phase \in {"scarred", "collapse"} => ~Healing(Viewed(x), x.previous)
    /\ x.phase # "none" =>
         /\ DOMAIN x.trend \subseteq NodeIds
         /\ \A n \in DOMAIN x.trend :
            /\ n \in DOMAIN x.told /\ x.base = NoEdges => x.trend[n] = x.told[n]
            /\ x.trend[n] # "stable" /\ x.sampled[n] = Len(samples[n]) => x.spike > Epsilon

Sound(x) ==
    /\ DOMAIN x = Fields
    /\ x.at \in {"out", "acquired", "open", "compare", "done"}
    /\ x.at # "out" => x.version \in 1 .. Current
    /\ x.at \in {"open", "compare", "done"} => Opened(x)
    /\ x.at \in {"compare", "done"} => Read(x)
    /\ x.at # "done" => x.phase = "none"
    /\ x.at = "done" => Judged(x)

Reading == DOMAIN reader = Readers /\ \A r \in Readers : Sound(reader[r])

TemporalInv == WorkerInv /\ Kept /\ Drawn /\ Reading

-----------------------------------------------------------------------------
(* Versions only grow, and so do the samples. *)

Extends ==
    /\ Current \in Nat /\ Current' \in Nat /\ Current <= Current'
    /\ \A v \in 1 .. Current : versions'[v] = versions[v]

Longer ==
    \A n \in NodeIds :
        /\ Len(samples[n]) \in Nat /\ Len(samples'[n]) \in Nat
        /\ Len(samples[n]) <= Len(samples'[n])
        /\ \A i \in 1 .. Len(samples[n]) : samples'[n][i] = samples[n][i]

LEMMA Lengths ==
    ASSUME Sampled, NEW n \in NodeIds
    PROVE  Listed(samples[n]) /\ Len(samples[n]) \in Nat /\ (samples[n] = <<>> <=> Len(samples[n]) = 0)
<1>1. Listed(samples[n])
  BY DEF Sampled
<1>2. PICK S : samples[n] \in Seq(S)
  BY <1>1 DEF Listed
<1> QED BY <1>1, <1>2

LEMMA SameVersions ==
    ASSUME Shape, versions' = versions
    PROVE  Extends
BY OverlayTypes DEF Extends, Current

LEMMA OneMore ==
    ASSUME Shape, NEW v \in Graphs, versions' = Append(versions, v)
    PROVE  Extends /\ Current' = Current + 1 /\ versions'[Current + 1] = v
<1>1. /\ Current \in Nat /\ Current >= 1 /\ Current' = Current + 1
      /\ versions'[Current + 1] = v /\ \A k \in 1 .. Current : versions'[k] = versions[k]
  BY MoreVersions
<1>2. Current' \in Nat /\ Current <= Current'
  BY <1>1
<1> QED BY <1>1, <1>2 DEF Extends

LEMMA SameSamples ==
    ASSUME Sampled, samples' = samples
    PROVE  Longer
BY Lengths DEF Longer

(* A sample stays what it was. *)
LEMMA SampleStays ==
    ASSUME Extends, NEW n, NEW s, SampleOf(n, s)
    PROVE  SampleOf(n, s)'
<1>1. s.version \in 1 .. Current /\ s.version \in 1 .. Current'
  BY DEF SampleOf, Extends
<1>2. versions'[s.version] = versions[s.version]
  BY <1>1 DEF Extends
<1> QED BY <1>1, <1>2 DEF SampleOf

LEMMA DrawnStays ==
    ASSUME Drawn, Extends, samples' = samples
    PROVE  Drawn'
BY SampleStays DEF Drawn

(* So does what a user has read. *)
LEMMA SoundStays ==
    ASSUME NEW x, Sound(x), Extends, Longer
    PROVE  Sound(x)'
<1>1. x.version \in 1 .. Current =>
         /\ x.version \in 1 .. Current'
         /\ \A v \in 1 .. x.version : versions'[v] = versions[v]
  BY DEF Extends
<1>2. Opened(x) => Opened(x)' /\ View(x)' = View(x)
  <2> SUFFICES ASSUME Opened(x) PROVE Opened(x)' /\ View(x)' = View(x)
    OBVIOUS
  <2>1. x.version \in 1 .. Current /\ x.version \in 1 .. x.version
    BY DEF Opened, Extends
  <2>2. \A v \in 1 .. x.version : Edged(v)' = Edged(v)
    BY <1>1, <2>1 DEF Edged
  <2>3. versions'[x.version] = versions[x.version]
    BY <1>1, <2>1
  <2> QED BY <1>1, <2>1, <2>2, <2>3 DEF Opened, View
<1>3. Read(x) => Read(x)'
  <2> SUFFICES ASSUME Read(x) PROVE Read(x)'
    OBVIOUS
  <2>1. ASSUME NEW n \in NodeIds
        PROVE  x.sampled[n] \in Nat /\ x.sampled[n] <= Len(samples'[n])
    <3>1. x.sampled[n] \in Nat /\ x.sampled[n] <= Len(samples[n])
      BY DEF Read
    <3>2. Len(samples[n]) \in Nat /\ Len(samples'[n]) \in Nat /\ Len(samples[n]) <= Len(samples'[n])
      BY DEF Longer
    <3> QED BY <3>1, <3>2
  <2>2. ASSUME NEW n \in DOMAIN x.previous
        PROVE  x.previous[n] = samples'[n][x.sampled[n] - 1].tension
    <3>1. /\ n \in NodeIds /\ x.sampled[n] >= 2
          /\ x.sampled[n] \in Nat /\ x.sampled[n] <= Len(samples[n])
          /\ x.previous[n] = samples[n][x.sampled[n] - 1].tension
      BY DEF Read
    <3>2. Len(samples[n]) \in Nat
      BY <3>1 DEF Longer
    <3>3. x.sampled[n] - 1 \in 1 .. Len(samples[n])
      BY <3>1, <3>2
    <3> QED BY <3>1, <3>3 DEF Longer
  <2> QED BY <2>1, <2>2 DEF Read
<1>4. Opened(x) /\ Read(x) /\ Judged(x) => Judged(x)'
  <2> SUFFICES ASSUME Opened(x), Read(x), Judged(x) PROVE Judged(x)'
    OBVIOUS
  <2>1. Viewed(x)' = Viewed(x)
    BY <1>2 DEF Viewed
  <2>2. ASSUME x.phase # "none", NEW n \in DOMAIN x.trend, x.sampled[n] = Len(samples'[n])
        PROVE  x.sampled[n] = Len(samples[n])
    <3>1. n \in NodeIds
      BY <2>2 DEF Judged
    <3>2. x.sampled[n] <= Len(samples[n])
      BY <3>1 DEF Read
    <3>3. Len(samples[n]) \in Nat /\ Len(samples'[n]) \in Nat /\ Len(samples[n]) <= Len(samples'[n])
      BY <3>1 DEF Longer
    <3> QED BY <2>2, <3>2, <3>3
  <2> QED BY <2>1, <2>2 DEF Judged
<1> QED BY <1>1, <1>2, <1>3, <1>4 DEF Sound

LEMMA ReadingStays ==
    ASSUME Reading, Extends, Longer, reader' = reader
    PROVE  Reading'
<1> SUFFICES ASSUME NEW r \in Readers PROVE Sound(reader[r])'
  BY DEF Reading
<1>1. PICK x : x = reader[r]
  OBVIOUS
<1>2. Sound(x)
  BY <1>1 DEF Reading
<1>3. Sound(x)'
  BY <1>2, SoundStays
<1> QED BY <1>1, <1>3

(* One reader moves, and the others stand still. *)
LEMMA ReaderMoves ==
    ASSUME TemporalInv, UNCHANGED <<feedVars, cleared>>, NEW r \in Readers, NEW y,
           reader' = [reader EXCEPT ![r] = y], Sound(y)
    PROVE  TemporalInv'
<1>1. WorkerInv /\ Shape /\ Sampled /\ Kept /\ Drawn /\ Reading
  BY DEF TemporalInv, WorkerInv
<1>2. Extends /\ Longer
  BY <1>1, SameVersions, SameSamples DEF feedVars
<1>3. WorkerInv'
  BY <1>1, WorkerStays DEF feedVars
<1>4. Kept'
  BY <1>1 DEF Kept, Edged, Current, feedVars
<1>5. Drawn'
  BY <1>1, <1>2, DrawnStays DEF feedVars
<1>6. DOMAIN reader' = Readers /\ reader'[r] = y
      /\ \A u \in Readers : u # r => reader'[u] = reader[u]
  BY <1>1 DEF Reading
<1>7. ASSUME NEW u \in Readers PROVE Sound(reader[u])'
  <2>1. PICK x : x = reader'[u]
    OBVIOUS
  <2>2. Sound(x)
    BY <1>1, <1>6, <2>1 DEF Reading
  <2>3. Sound(x)'
    BY <1>2, <2>2, SoundStays
  <2> QED BY <2>1, <2>3
<1> QED BY <1>3, <1>4, <1>5, <1>6, <1>7 DEF TemporalInv, Reading

-----------------------------------------------------------------------------
(* The worker. *)

(* A version that has all the last one had keeps what is kept. *)
LEMMA KeptByVersion ==
    ASSUME Shape, Kept, NEW v \in Graphs,
           versions' = Append(versions, v), base' = base, cleared' = cleared,
           worker'.at # "swap",
           \A k \in 1 .. Current : k > cleared => Edged(k) \subseteq DOMAIN v \cup DOMAIN base
    PROVE  Kept'
<1> DEFINE n == Current + 1
<1>1. /\ Current \in Nat /\ Current >= 1 /\ Current' = n
      /\ versions'[n] = v /\ \A k \in 1 .. Current : versions'[k] = versions[k]
  BY MoreVersions
<1>2. /\ \A j : j = n => Edged(j)' = DOMAIN v
      /\ \A k \in 1 .. Current : Edged(k)' = Edged(k)
  BY <1>1 DEF Edged
<1>3. cleared' \in 0 .. Current'
  BY <1>1 DEF Kept
<1>4. ASSUME NEW u \in 1 .. n, NEW k \in 1 .. u, k > cleared
      PROVE  Edged(k)' \subseteq Edged(u)' \cup DOMAIN base
  <2>1. CASE u \in 1 .. Current
    <3>1. k \in 1 .. Current
      BY <1>1, <2>1
    <3> QED BY <1>2, <1>4, <2>1, <3>1 DEF Kept
  <2>2. CASE u = n /\ k = n
    BY <2>2
  <2>3. CASE u = n /\ k \in 1 .. Current
    BY <1>2, <1>4, <2>3
  <2> QED BY <1>1, <2>1, <2>2, <2>3
<1> QED BY <1>1, <1>3, <1>4 DEF Kept

LEMMA ProcessKept ==
    ASSUME WorkerInv, Kept, cleared' = cleared, NEW p \in Edges, NEW w \in Weights, Process(p, w)
    PROVE  Kept' /\ Extends
<1> DEFINE g == WithEvent(Overlay, p, w)
           v == g
<1>1. Shape /\ base \in Graphs /\ Overlay \in Graphs /\ Current \in Nat /\ Current >= 1
  BY OverlayTypes DEF WorkerInv, Shape
<1>2. g \in Graphs /\ DOMAIN g = DOMAIN Overlay \cup {p}
  BY <1>1, EventGraph
<1>3. v \in Graphs /\ v = g
  BY <1>1, <1>2
<1>4. versions' = Append(versions, v) /\ base' = base /\ worker'.at # "swap"
  BY DEF Process
<1>5. ASSUME NEW k \in 1 .. Current, k > cleared
      PROVE  Edged(k) \subseteq DOMAIN g \cup DOMAIN base
  <2>1. Edged(k) \subseteq Edged(Current) \cup DOMAIN base
    BY <1>1, <1>5 DEF Kept
  <2> QED BY <1>2, <2>1 DEF Edged, Overlay
<1> HIDE DEF v, g
<1> QED BY <1>1, <1>3, <1>4, <1>5, KeptByVersion, OneMore

LEMMA MergeKept ==
    ASSUME WorkerInv, Kept, cleared' = cleared, MergeBase
    PROVE  Kept' /\ Extends
<1>1. Shape /\ base \in Graphs /\ Overlay \in Graphs /\ Current \in Nat /\ Current >= 1
  BY OverlayTypes DEF WorkerInv, Shape
<1>2. versions' = versions /\ base' = Merge(base, Overlay) /\ Current' = Current
  BY DEF MergeBase, Current
<1>3. DOMAIN base' = DOMAIN base \cup Edged(Current) /\ \A v : Edged(v)' = Edged(v)
  BY <1>1, <1>2, MergeGraphs DEF Edged, Overlay
<1>4. \A v \in 1 .. Current : v > cleared => Edged(v) \subseteq DOMAIN base'
  BY <1>1, <1>3 DEF Kept
<1>5. \A u \in 1 .. Current : \A v \in 1 .. u :
        v > cleared => Edged(v) \subseteq Edged(u) \cup DOMAIN base'
  BY <1>3 DEF Kept
<1>6. Kept'
  BY <1>2, <1>3, <1>4, <1>5 DEF Kept
<1> QED BY <1>1, <1>2, <1>6, SameVersions

LEMMA SwapKept ==
    ASSUME WorkerInv, Kept, cleared' = cleared, SwapOverlay
    PROVE  Kept' /\ Extends
<1> DEFINE v == NoEdges
<1>1. Shape /\ base \in Graphs /\ worker.at = "swap"
  BY DEF WorkerInv, Shape, SwapOverlay
<1>2. v \in Graphs
  BY <1>1, NoEdgesGraph
<1>3. versions' = Append(versions, v) /\ base' = base /\ worker'.at # "swap"
  BY <1>1 DEF SwapOverlay, Shape
<1>4. \A k \in 1 .. Current :
        k > cleared => Edged(k) \subseteq DOMAIN v \cup DOMAIN base
  BY <1>1 DEF Kept
<1> HIDE DEF v
<1> QED BY <1>1, <1>2, <1>3, <1>4, KeptByVersion, OneMore

(* The worker stays at its event, with the graph it made. *)
LEMMA ExamineSample ==
    ASSUME WorkerInv, Drawn, worker.at # "idle", NEW n \in NodeIds,
           n \in {worker.edge[1], worker.edge[2]}, Examine(n)
    PROVE  Drawn' /\ Longer /\ Extends
<1> DEFINE s == [tension |-> Calculate(NewGraph, n), version |-> worker.version]
<1>1. Shape /\ Sampled /\ Named /\ versions' = versions /\ DOMAIN samples = NodeIds
  BY DEF WorkerInv, Sampled, Examine
<1>2. Extends
  BY <1>1, SameVersions
<1>3. SampleOf(n, s)
  <2>1. worker.version \in 2 .. Current /\ worker.edge \in DOMAIN NewGraph
    BY <1>1 DEF Named
  <2>2. worker.version \in 1 .. Current
    BY <2>1, <1>1, OverlayTypes
  <2>3. n \in Ends(NewGraph)
    BY <2>1 DEF Ends
  <2> QED BY <2>2, <2>3 DEF SampleOf, NewGraph
<1>4. samples' = [samples EXCEPT ![n] = Append(@, s)]
  BY DEF Examine
<1> HIDE DEF s
<1>5. /\ samples'[n] = Append(samples[n], s)
      /\ \A m \in NodeIds : m # n => samples'[m] = samples[m]
  BY <1>1, <1>4
<1>6. \A m \in NodeIds : Listed(samples[m]) /\ Len(samples[m]) \in Nat
  BY <1>1, Lengths
<1>7. /\ Len(samples'[n]) = Len(samples[n]) + 1
      /\ samples'[n][Len(samples[n]) + 1] = s
      /\ \A i \in 1 .. Len(samples[n]) : samples'[n][i] = samples[n][i]
  BY <1>5, <1>6, ListedAppend
<1>8. Longer
  BY <1>5, <1>6, <1>7 DEF Longer
<1>9. ASSUME NEW m \in NodeIds, NEW i \in 1 .. Len(samples'[m])
      PROVE  SampleOf(m, samples[m][i])'
  <2>1. PICK x : x = samples'[m][i]
    OBVIOUS
  <2>2. SampleOf(m, x)
    <3>1. CASE m # n
      BY <1>5, <2>1, <3>1 DEF Drawn
    <3>2. CASE m = n /\ i \in 1 .. Len(samples[n])
      BY <1>7, <2>1, <3>2 DEF Drawn
    <3>3. CASE m = n /\ i = Len(samples[n]) + 1
      BY <1>3, <1>7, <2>1, <3>3
    <3> QED BY <1>6, <1>7, <3>1, <3>2, <3>3
  <2>3. SampleOf(m, x)'
    BY <1>2, <2>2, SampleStays
  <2> QED BY <2>1, <2>3
<1> QED BY <1>2, <1>8, <1>9 DEF Drawn

LEMMA WorkerSteps ==
    ASSUME TemporalInv, FeedNext, UNCHANGED temporalVars
    PROVE  TemporalInv'
<1>1. /\ WorkerInv /\ Shape /\ Sampled /\ Kept /\ Drawn /\ Reading
      /\ reader' = reader /\ cleared' = cleared
  BY DEF TemporalInv, WorkerInv, temporalVars
<1>2. WorkerInv'
  BY <1>1, StepWorker
<1>3. ASSUME Kept', Extends, samples' = samples
      PROVE  TemporalInv'
  BY <1>1, <1>2, <1>3, DrawnStays, ReadingStays, SameSamples DEF TemporalInv
<1>4. ASSUME NEW p \in Edges, NEW w \in Weights, Process(p, w) PROVE TemporalInv'
  BY <1>1, <1>3, <1>4, ProcessKept DEF Process
<1>5. CASE MergeBase
  BY <1>1, <1>3, <1>5, MergeKept DEF MergeBase
<1>6. CASE SwapOverlay
  BY <1>1, <1>3, <1>6, SwapKept DEF SwapOverlay
<1>7. ASSUME UNCHANGED <<versions, base>>, worker'.at # "swap"
      PROVE  Kept' /\ Extends
  BY <1>1, <1>7, SameVersions DEF Kept, Edged, Current
<1>8. CASE Announce
  <2>1. UNCHANGED <<versions, base, samples>> /\ worker'.at # "swap"
    BY <1>1, <1>8 DEF Announce, Shape
  <2> QED BY <1>3, <1>7, <2>1
<1>9. CASE ExamineSource \/ ExamineTarget
  <2>1. PICK n \in {worker.edge[1], worker.edge[2]} : Examine(n)
    BY <1>9 DEF ExamineSource, ExamineTarget
  <2>2. /\ worker.at # "idle" /\ worker'.at # "swap" /\ UNCHANGED <<versions, base>>
    BY <1>1, <1>9 DEF ExamineSource, ExamineTarget, Examine, Shape
  <2>3. n \in NodeIds
    BY <1>1, <2>2, EdgeNodes
  <2>4. Drawn' /\ Longer /\ Extends
    BY <1>1, <2>1, <2>2, <2>3, ExamineSample
  <2> QED BY <1>1, <1>2, <1>7, <2>2, <2>4, ReadingStays DEF TemporalInv
<1> QED BY <1>4, <1>5, <1>6, <1>8, <1>9 DEF FeedNext

-----------------------------------------------------------------------------
(* Reset. *)

LEMMA ResetSteps ==
    ASSUME TemporalInv,
           \/ (ResetBase \/ ResetSwap) /\ cleared' = Current' /\ UNCHANGED reader
           \/ ResetCount /\ UNCHANGED temporalVars
    PROVE  TemporalInv'
<1>1. /\ WorkerInv /\ Shape /\ Sampled /\ Kept /\ Drawn /\ Reading /\ WorkerInv'
      /\ UNCHANGED <<worker, samples, reader>>
  BY CallWorker DEF TemporalInv, WorkerInv, CallNext, callVars, temporalVars
<1>2. Current \in Nat /\ Current >= 1
  BY <1>1, OverlayTypes
<1>3. ASSUME Extends, Kept'
      PROVE  TemporalInv'
  BY <1>1, <1>3, SameSamples, DrawnStays, ReadingStays DEF TemporalInv
<1>4. CASE ResetBase /\ cleared' = Current'
  <2>1. versions' = versions /\ base' = NoEdges /\ cleared' = Current /\ Current' = Current
    BY <1>4 DEF ResetBase, Current
  <2>2. Extends
    BY <1>1, <2>1, SameVersions
  <2>3. Kept'
    BY <1>2, <2>1 DEF Kept
  <2> QED BY <1>3, <2>2, <2>3
<1>5. CASE ResetCount /\ UNCHANGED temporalVars
  <2>1. UNCHANGED <<versions, base, cleared>>
    BY <1>5 DEF ResetCount, temporalVars
  <2> QED BY <1>1, <1>3, <2>1, SameVersions DEF Kept, Edged, Current
<1>6. CASE ResetSwap /\ cleared' = Current'
  <2> DEFINE v == NoEdges
  <2>1. versions' = Append(versions, v) /\ base' = base /\ cleared' = Current'
    BY <1>6 DEF ResetSwap
  <2>2. v \in Graphs
    BY NoEdgesGraph
  <2> HIDE DEF v
  <2>3. Extends /\ Current' \in Nat
    BY <1>1, <2>1, <2>2, OneMore DEF Extends
  <2>4. Kept'
    BY <1>1, <2>1, <2>3 DEF Kept
  <2> QED BY <1>3, <2>3, <2>4
<1> QED BY <1>4, <1>5, <1>6

-----------------------------------------------------------------------------
(* What a trend and a spike say of each other. *)

(* The history of a node has the sample before its latest when there is one. *)
LEMMA Histories ==
    ASSUME WorkerInv, NEW n \in NodeIds
    PROVE  /\ (n \in DOMAIN history /\ HasPrevious(history[n]))
                 <=> (Len(samples[n]) >= 2 /\ Capacity >= 2)
           /\ Len(samples[n]) >= 2 /\ Capacity >= 2 =>
                 Previous(history[n]) = samples[n][Len(samples[n]) - 1]
<1> DEFINE all == samples[n]
           len == IF Len(all) < Capacity THEN Len(all) ELSE Capacity
<1>1. /\ Sampled /\ Listed(all) /\ Len(all) \in Nat /\ (all = <<>> <=> Len(all) = 0)
      /\ Capacity \in Nat
  BY Lengths, Sizes DEF WorkerInv
<1>2. n \in DOMAIN history <=> all # <<>>
  BY <1>1 DEF Sampled
<1>3. len >= 2 <=> Len(all) >= 2 /\ Capacity >= 2
  BY <1>1
<1>4. CASE all = <<>>
  BY <1>1, <1>2, <1>4
<1>5. CASE all # <<>>
  <2>1. Ring(history[n], all)
    BY <1>1, <1>2, <1>5 DEF Sampled
  <2>2. (HasPrevious(history[n]) <=> len >= 2) /\ (len >= 2 => Previous(history[n]) = all[Len(all) - 1])
    BY <1>1, <1>5, <2>1, RingReads
  <2> QED BY <1>2, <1>3, <1>5, <2>2
<1> QED BY <1>4, <1>5

(* The trend of a tension that is the latest sample is the trend kept. *)
LEMMA LatestTrend ==
    ASSUME WorkerInv, NEW n \in DOMAIN lastTrend, NEW t, t = Last(samples[n]).tension
    PROVE  TrendOf(history[n], t) = lastTrend[n]
<1> DEFINE all == samples[n]
           L == Len(all)
<1>1. /\ n \in DOMAIN history /\ n \in NodeIds /\ all # <<>>
      /\ lastTrend[n] = Trend(all, L)
  BY DEF WorkerInv, Sampled, Turned
<1>2. L \in Nat /\ L > 0 /\ t = all[L].tension /\ Capacity \in Nat /\ Capacity > 0
  BY <1>1, Lengths, Sizes DEF WorkerInv, Last
<1>3. /\ HasPrevious(history[n]) <=> (L >= 2 /\ Capacity >= 2)
      /\ L >= 2 /\ Capacity >= 2 => Previous(history[n]) = all[L - 1]
  BY <1>1, Histories
<1> HIDE DEF L
<1>4. CASE L >= 2 /\ Capacity >= 2
  BY <1>1, <1>2, <1>3, <1>4 DEF TrendOf, Trend
<1>5. CASE ~(L >= 2 /\ Capacity >= 2)
  <2>1. L = 1 \/ Capacity = 1
    BY <1>2, <1>5
  <2> QED BY <1>1, <1>3, <1>5, <2>1 DEF TrendOf, Trend
<1> QED BY <1>4, <1>5

(* Samples are numbers. *)
LEMMA SampleNatural ==
    ASSUME Shape, NEW n, NEW s, SampleOf(n, s)
    PROVE  s.tension \in Nat
BY OverlayTypes, FeedTension DEF SampleOf

LEMMA MergeNothing ==
    ASSUME NEW g \in Graphs
    PROVE  Merge(NoEdges, g) = g
<1>1. \A q : Weight(NoEdges, q) = 0
  BY NoEdgesGraph
<1>2. \A q \in DOMAIN g : g[q] = Weight(g, q) /\ Weight(g, q) \in Nat
  BY GraphWeights
<1>3. Merge(NoEdges, g) = [q \in DOMAIN g |-> g[q]]
  BY <1>1, <1>2, NoEdgesGraph DEF Merge
<1>4. g = [q \in DOMAIN g |-> g[q]]
  BY DEF Graphs
<1> QED BY <1>3, <1>4

(* The spike is a number, as large as the change of any node's tension. *)
LEMMA SpikeBounds ==
    ASSUME NEW current, NEW previous,
           IsFiniteSet(DOMAIN current), IsFiniteSet(DOMAIN previous),
           \A n \in DOMAIN current : current[n] \in Nat,
           \A n \in DOMAIN previous : previous[n] \in Nat
    PROVE  /\ TensionSpike(current, previous) \in Int
           /\ \A m \in DOMAIN current \cap DOMAIN previous :
                TensionSpike(current, previous) >= Abs(current[m] - previous[m])
<1> DEFINE at(f, n) == IF n \in DOMAIN f THEN f[n] ELSE 0
           change(n) == Abs(at(current, n) - at(previous, n))
           D == DOMAIN current \cup DOMAIN previous
           changes == {change(n) : n \in D}
<1>1. IsFiniteSet(changes)
  <2>1. IsFiniteSet(D)
    BY FS_Union
  <2> DEFINE f == [n \in D |-> change(n)]
  <2>2. f \in Surjection(D, changes)
    <3>1. f \in [D -> changes] /\ \A c \in changes : \E n \in D : f[n] = c
      <4> HIDE DEF change, D
      <4> QED OBVIOUS
    <3> HIDE DEF f, changes, D
    <3> QED BY <3>1 DEF Surjection
  <2> HIDE DEF f, changes, D
  <2> QED BY <2>1, <2>2, FS_Surjection
<1>2. \A n \in D : change(n) \in Int
  BY DEF Abs
<1>3. \A m \in DOMAIN current \cap DOMAIN previous :
        change(m) \in changes /\ change(m) = Abs(current[m] - previous[m])
  OBVIOUS
<1>4. IsFiniteSet({0} \cup changes)
  BY <1>1, FS_Singleton, FS_Union
<1>5. {0} \cup changes \subseteq Int
  BY <1>2
<1>6. TensionSpike(current, previous) = Max({0} \cup changes)
  BY DEF TensionSpike
<1> HIDE DEF changes, change
<1>7. Max({0} \cup changes) \in Int /\ \A c \in changes : Max({0} \cup changes) >= c
  BY <1>4, <1>5, MaxBounds
<1> QED BY <1>3, <1>6, <1>7

-----------------------------------------------------------------------------
(* The users. *)

LEMMA SnapshotSteps ==
    ASSUME TemporalInv, NEW r \in Readers, Acquire(r) \/ LoadBase(r) \/ Close(r)
    PROVE  TemporalInv'
<1>1. /\ WorkerInv /\ Shape /\ Kept /\ Reading /\ UNCHANGED <<feedVars, cleared>>
  BY DEF TemporalInv, WorkerInv, Acquire, LoadBase, Close
<1>2. PICK x : x = reader[r]
  OBVIOUS
<1>3. Sound(x) /\ DOMAIN x = Fields /\ DOMAIN reader = Readers
  BY <1>1, <1>2 DEF Reading, Sound
<1>4. PICK y : y = reader'[r]
  OBVIOUS
<1>5. Current \in Nat /\ Current >= 1
  BY <1>1, OverlayTypes
<1>6. reader' = [reader EXCEPT ![r] = y] /\ Sound(y)
  <2>1. CASE Acquire(r)
    <3>1. y = [x EXCEPT !.at = "acquired", !.version = Current] /\ x.at = "out"
      BY <1>2, <1>3, <1>4, <2>1 DEF Acquire
    <3>2. reader' = [reader EXCEPT ![r] = y]
      BY <1>2, <1>3, <2>1, <3>1 DEF Acquire
    <3>3. y.at = "acquired" /\ y.version = Current /\ y.phase = "none" /\ DOMAIN y = Fields
      BY <1>3, <3>1 DEF Sound, Fields, NoReader
    <3> QED BY <1>5, <3>2, <3>3 DEF Sound
  <2>2. CASE LoadBase(r)
    <3>1. y = [x EXCEPT !.at = "open", !.base = base, !.cleared = cleared] /\ x.at = "acquired"
      BY <1>2, <1>3, <1>4, <2>2 DEF LoadBase
    <3>2. reader' = [reader EXCEPT ![r] = y]
      BY <1>2, <1>3, <2>2, <3>1 DEF LoadBase
    <3>3. /\ y.at = "open" /\ y.base = base /\ y.cleared = cleared
          /\ y.version = x.version /\ y.phase = "none" /\ DOMAIN y = Fields
      BY <1>3, <3>1 DEF Sound, Fields, NoReader
    <3>4. x.version \in 1 .. Current
      BY <1>3, <3>1 DEF Sound
    <3>5. cleared \in Nat
      BY <1>1, <1>5 DEF Kept
    <3>6. Opened(y)
      BY <1>1, <3>3, <3>4, <3>5 DEF Kept, Opened, Shape
    <3> QED BY <3>2, <3>3, <3>4, <3>6 DEF Sound
  <2>3. CASE Close(r)
    <3>1. y = NoReader /\ reader' = [reader EXCEPT ![r] = y]
      BY <1>3, <1>4, <2>3 DEF Close
    <3>2. y.at = "out" /\ y.phase = "none" /\ DOMAIN y = Fields
      BY <3>1 DEF NoReader, Fields
    <3> QED BY <3>1, <3>2 DEF Sound
  <2> QED BY <2>1, <2>2, <2>3
<1> QED BY <1>1, <1>6, ReaderMoves

LEMMA PreviousSteps ==
    ASSUME TemporalInv, NEW r \in Readers, ReadPrevious(r)
    PROVE  TemporalInv'
<1> DEFINE known == {n \in DOMAIN history : HasPrevious(history[n])}
<1>1. /\ WorkerInv /\ Shape /\ Sampled /\ Reading /\ UNCHANGED <<feedVars, cleared>>
      /\ DOMAIN history \subseteq NodeIds
  BY DEF TemporalInv, WorkerInv, Sampled, ReadPrevious
<1>2. PICK x : x = reader[r]
  OBVIOUS
<1>3. Sound(x) /\ DOMAIN x = Fields /\ DOMAIN reader = Readers
  BY <1>1, <1>2 DEF Reading, Sound
<1>4. PICK y : y = reader'[r]
  OBVIOUS
<1>5. /\ x.at = "open"
      /\ reader' = [reader EXCEPT ![r] =
           [x EXCEPT !.previous = [n \in known |-> Previous(history[n]).tension],
                     !.sampled = [n \in NodeIds |-> Len(samples[n])],
                     !.at = IF known = {} THEN "done" ELSE "compare"]]
  BY <1>2, <1>3 DEF ReadPrevious
<1>6. /\ y.at \in {"compare", "done"} /\ y.phase = "none" /\ DOMAIN y = Fields
      /\ y.previous = [n \in known |-> Previous(history[n]).tension]
      /\ y.sampled = [n \in NodeIds |-> Len(samples[n])]
      /\ y.version = x.version /\ y.base = x.base /\ y.cleared = x.cleared
      /\ reader' = [reader EXCEPT ![r] = y]
  <2>1. y = [x EXCEPT !.previous = [n \in known |-> Previous(history[n]).tension],
                      !.sampled = [n \in NodeIds |-> Len(samples[n])],
                      !.at = IF known = {} THEN "done" ELSE "compare"]
    BY <1>3, <1>4, <1>5
  <2> HIDE DEF known
  <2>2. x.phase = "none"
    BY <1>3, <1>5 DEF Sound
  <2> QED BY <1>3, <1>5, <2>1, <2>2 DEF Fields, NoReader
<1>7. \A n : n \in known <=> n \in NodeIds /\ Len(samples[n]) >= 2 /\ Capacity >= 2
  BY <1>1, Histories
<1>8. \A n \in known : Previous(history[n]) = samples[n][Len(samples[n]) - 1]
  BY <1>1, <1>7, Histories
<1> HIDE DEF known
<1>9. Read(y)
  <2>1. DOMAIN y.previous = {n \in NodeIds : y.sampled[n] >= 2 /\ Capacity >= 2}
    BY <1>6, <1>7
  <2>2. \A n \in NodeIds : y.sampled[n] \in Nat /\ y.sampled[n] <= Len(samples[n])
    BY <1>1, <1>6, Lengths
  <2>3. \A n \in DOMAIN y.previous : y.previous[n] = samples[n][y.sampled[n] - 1].tension
    BY <1>6, <1>7, <1>8
  <2> QED BY <1>6, <2>1, <2>2, <2>3 DEF Read
<1>10. Opened(y) /\ y.version \in 1 .. Current
  BY <1>3, <1>5, <1>6 DEF Sound, Opened
<1>11. Judged(y)
  BY <1>6 DEF Judged
<1> QED BY <1>1, <1>6, <1>9, <1>10, <1>11, ReaderMoves DEF Sound

(* The comparison. *)
LEMMA TrendSteps ==
    ASSUME TemporalInv, NEW r \in Readers, ReadTrends(r)
    PROVE  TemporalInv'
<1>1. /\ WorkerInv /\ Shape /\ Sampled /\ Drawn /\ Reading /\ UNCHANGED <<feedVars, cleared>>
  BY DEF TemporalInv, WorkerInv, ReadTrends
<1>2. PICK x : x = reader[r]
  OBVIOUS
<1>3. Sound(x) /\ DOMAIN x = Fields /\ DOMAIN reader = Readers
  BY <1>1, <1>2 DEF Reading, Sound
<1>4. PICK y : y = reader'[r]
  OBVIOUS
<1> DEFINE current  == Viewed(x)
           previous == x.previous
           fresh    == {n \in DOMAIN lastTrend : Last(samples[n]).version = x.version}
<1>5. PICK critical \in Critical(current, previous) :
        reader' = [reader EXCEPT ![r] =
          [x EXCEPT !.at = "done", !.trend = Trends(current),
                    !.spike = TensionSpike(current, previous),
                    !.phase = ClassifyPhase(critical, Healing(current, previous)),
                    !.told = [n \in fresh |-> lastTrend[n]]]]
  <2>1. Tensions(r) = current /\ reader[r].previous = previous
    BY <1>2 DEF Tensions, Viewed, View
  <2>2. fresh = {n \in DOMAIN lastTrend : Last(samples[n]).version = reader[r].version}
    BY <1>2
  <2> HIDE DEF current, previous, fresh
  <2>3. PICK critical \in Critical(current, previous) :
          reader' = [reader EXCEPT
            ![r].at = "done", ![r].trend = Trends(current),
            ![r].spike = TensionSpike(current, previous),
            ![r].phase = ClassifyPhase(critical, Healing(current, previous)),
            ![r].told = [n \in fresh |-> lastTrend[n]]]
    BY <2>1, <2>2 DEF ReadTrends
  <2> QED BY <1>2, <1>3, <2>3
<1>6. x.at = "compare" /\ Opened(x) /\ Read(x) /\ x.version \in 1 .. Current
  BY <1>2, <1>3 DEF ReadTrends, Sound
<1>7. /\ y.at = "done" /\ DOMAIN y = Fields
      /\ y.trend = Trends(current) /\ y.spike = TensionSpike(current, previous)
      /\ y.phase = ClassifyPhase(critical, Healing(current, previous))
      /\ y.told = [n \in fresh |-> lastTrend[n]]
      /\ y.version = x.version /\ y.base = x.base /\ y.cleared = x.cleared
      /\ y.previous = x.previous /\ y.sampled = x.sampled
      /\ reader' = [reader EXCEPT ![r] = y]
  <2>1. y = [x EXCEPT !.at = "done", !.trend = Trends(current),
                      !.spike = TensionSpike(current, previous),
                      !.phase = ClassifyPhase(critical, Healing(current, previous)),
                      !.told = [n \in fresh |-> lastTrend[n]]]
    BY <1>3, <1>4, <1>5
  <2> HIDE DEF current, previous, fresh
  <2> QED BY <1>3, <1>5, <2>1 DEF Fields, NoReader
<1>8. Opened(y) /\ Read(y) /\ Viewed(y) = current
  BY <1>6, <1>7 DEF Opened, Read, Viewed, View
<1> DEFINE g == View(x)
<1>9. /\ g \in Graphs /\ DOMAIN current = Ends(g)
      /\ \A n \in DOMAIN current : current[n] = Calculate(g, n) /\ current[n] \in Nat
      /\ DOMAIN current \subseteq NodeIds
      /\ x.base = NoEdges => g = versions[x.version]
  <2>1. x.base \in Graphs /\ versions[x.version] \in Graphs
    BY <1>1, <1>6, OverlayTypes DEF Opened
  <2>2. g \in Graphs /\ (x.base = NoEdges => g = versions[x.version])
    BY <2>1, MergeGraphs, MergeNothing DEF View
  <2>3. DOMAIN current = Ends(g) /\ \A n \in DOMAIN current : current[n] = Calculate(g, n)
    BY DEF Viewed
  <2> HIDE DEF g, current
  <2> QED BY <2>2, <2>3, EndsAreNodes, FeedTension
<1>10. /\ DOMAIN previous = {n \in NodeIds : x.sampled[n] >= 2 /\ Capacity >= 2}
       /\ \A n \in DOMAIN previous :
            previous[n] = samples[n][x.sampled[n] - 1].tension /\ previous[n] \in Nat
  <2>1. /\ DOMAIN previous = {n \in NodeIds : x.sampled[n] >= 2 /\ Capacity >= 2}
        /\ \A n \in DOMAIN previous : previous[n] = samples[n][x.sampled[n] - 1].tension
    BY <1>6 DEF Read
  <2>2. ASSUME NEW n \in DOMAIN previous PROVE previous[n] \in Nat
    <3>1. n \in NodeIds /\ x.sampled[n] >= 2 /\ x.sampled[n] \in Nat
          /\ x.sampled[n] <= Len(samples[n]) /\ Len(samples[n]) \in Nat
      BY <1>1, <1>6, <2>1, Lengths DEF Read
    <3>2. x.sampled[n] - 1 \in 1 .. Len(samples[n])
      BY <3>1
    <3>3. SampleOf(n, samples[n][x.sampled[n] - 1])
      BY <1>1, <3>1, <3>2 DEF Drawn
    <3> QED BY <1>1, <2>1, <3>3, SampleNatural
  <2> QED BY <2>1, <2>2
<1> HIDE DEF current, previous, g, fresh
<1>11. ASSUME y.phase \in {"scarred", "collapse"}
       PROVE  ~Healing(current, previous)
  BY <1>7, <1>11 DEF ClassifyPhase
<1>12. \A n \in DOMAIN current :
         Trends(current)[n] = IF n \in DOMAIN history THEN TrendOf(history[n], current[n])
                              ELSE "stable"
  BY DEF Trends
<1>13. DOMAIN y.trend = DOMAIN current
  BY <1>7 DEF Trends
<1>14. ASSUME NEW n \in DOMAIN current, n \in fresh, x.base = NoEdges
       PROVE  y.trend[n] = lastTrend[n]
  <2> DEFINE all == samples[n]
             s == all[Len(all)]
  <2>1. /\ n \in DOMAIN lastTrend /\ Last(all).version = x.version
        /\ n \in DOMAIN history /\ n \in NodeIds /\ all # <<>>
    BY <1>1, <1>14 DEF WorkerInv, Sampled, Turned, fresh
  <2>2. Len(all) \in 1 .. Len(all)
    BY <1>1, <2>1, Lengths
  <2>3. SampleOf(n, s) /\ s = Last(all)
    BY <1>1, <2>1, <2>2 DEF Drawn, Last
  <2>4. current[n] = Last(all).tension
    BY <1>9, <1>14, <2>1, <2>3 DEF SampleOf
  <2> HIDE DEF all, s
  <2>5. TrendOf(history[n], current[n]) = lastTrend[n]
    BY <1>1, <2>1, <2>4, LatestTrend DEF all
  <2> QED BY <1>7, <1>12, <1>14, <2>1, <2>5
<1>15. ASSUME NEW n \in DOMAIN current, y.trend[n] # "stable", x.sampled[n] = Len(samples[n])
       PROVE  y.spike > Epsilon
  <2>1. /\ n \in NodeIds /\ n \in DOMAIN history /\ HasPrevious(history[n])
        /\ \/ current[n] - Previous(history[n]).tension > Epsilon
           \/ current[n] - Previous(history[n]).tension < -Epsilon
    BY <1>7, <1>9, <1>12, <1>15 DEF TrendOf
  <2>2. /\ Len(samples[n]) >= 2 /\ Capacity >= 2
        /\ Previous(history[n]) = samples[n][Len(samples[n]) - 1]
    BY <1>1, <2>1, Histories
  <2>3. n \in DOMAIN previous /\ previous[n] = Previous(history[n]).tension
    BY <1>10, <1>15, <2>1, <2>2
  <2>4. IsFiniteSet(DOMAIN current) /\ IsFiniteSet(DOMAIN previous)
    <3>1. DOMAIN previous \in SUBSET NodeIds
      BY <1>10
    <3> QED BY <1>9, <3>1, FiniteNodes, FS_Subset
  <2>5. y.spike \in Int /\ y.spike >= Abs(current[n] - previous[n])
    BY <1>7, <1>9, <1>10, <1>15, <2>3, <2>4, SpikeBounds
  <2>6. Abs(current[n] - previous[n]) > Epsilon /\ Abs(current[n] - previous[n]) \in Int
    BY <1>9, <1>10, <1>15, <2>1, <2>3, Sizes DEF Abs
  <2> QED BY <2>5, <2>6, Sizes
<1>16. Judged(y)
  <2>1. ASSUME NEW n \in DOMAIN y.trend, n \in DOMAIN y.told, y.base = NoEdges
        PROVE  y.trend[n] = y.told[n]
    BY <1>7, <1>13, <1>14, <2>1
  <2>2. y.phase \in {"scarred", "collapse"} => ~Healing(Viewed(y), y.previous)
    BY <1>7, <1>8, <1>11 DEF previous
  <2>3. DOMAIN y.trend \subseteq NodeIds
    BY <1>9, <1>13
  <2>4. ASSUME NEW n \in DOMAIN y.trend, y.trend[n] # "stable", y.sampled[n] = Len(samples[n])
        PROVE  y.spike > Epsilon
    BY <1>7, <1>13, <1>15, <2>4
  <2> QED BY <2>1, <2>2, <2>3, <2>4 DEF Judged
<1> QED BY <1>1, <1>6, <1>7, <1>8, <1>16, ReaderMoves DEF Sound

-----------------------------------------------------------------------------
(* The invariant. *)

LEMMA InitTemporal == Init => TemporalInv
<1> SUFFICES ASSUME Init PROVE TemporalInv
  OBVIOUS
<1>1. WorkerInv
  BY InitFeed DEF Init, FeedInv
<1>2. Current = 1 /\ worker.at # "swap" /\ cleared = 0
  BY DEF Init, FeedInit, Current
<1>3. Kept
  BY <1>2 DEF Kept
<1>4. Drawn
  <2>1. \A n \in NodeIds : Len(samples[n]) = 0
    BY ListedEmpty DEF Init, FeedInit
  <2> QED BY <2>1 DEF Drawn
<1>5. Reading
  <2>1. DOMAIN reader = Readers /\ \A r \in Readers : reader[r] = NoReader
    BY DEF Init
  <2>2. NoReader.at = "out" /\ NoReader.phase = "none" /\ DOMAIN NoReader = Fields
    BY DEF NoReader, Fields
  <2>3. \A r \in Readers : Sound(reader[r])
    BY <2>1, <2>2 DEF Sound
  <2> QED BY <2>1, <2>3 DEF Reading
<1> QED BY <1>1, <1>3, <1>4, <1>5 DEF TemporalInv

LEMMA StepTemporal == TemporalInv /\ [Next]_vars => TemporalInv'
<1> SUFFICES ASSUME TemporalInv, [Next]_vars PROVE TemporalInv'
  OBVIOUS
<1>1. CASE UNCHANGED vars
  <2>1. /\ WorkerInv /\ Shape /\ Sampled /\ Kept /\ Drawn /\ Reading
        /\ UNCHANGED <<feedVars, reader, cleared>>
    BY <1>1 DEF TemporalInv, WorkerInv, vars, temporalVars
  <2>2. WorkerInv' /\ Extends /\ Longer
    BY <2>1, WorkerStays, SameVersions, SameSamples DEF feedVars
  <2>3. Kept'
    BY <2>1 DEF Kept, Edged, Current, feedVars
  <2> QED BY <2>1, <2>2, <2>3, DrawnStays, ReadingStays DEF TemporalInv, feedVars
<1>2. CASE FeedNext /\ UNCHANGED temporalVars
  BY <1>2, WorkerSteps
<1>3. ASSUME NEW r \in Readers,
             Acquire(r) \/ LoadBase(r) \/ ReadPrevious(r) \/ ReadTrends(r) \/ Close(r)
      PROVE  TemporalInv'
  BY <1>3, SnapshotSteps, PreviousSteps, TrendSteps
<1> QED BY <1>1, <1>2, <1>3, ResetSteps DEF Next

(* A node with history that the view lacks was dropped, or is newer. *)
LEMMA LossOf ==
    ASSUME TemporalInv, NEW r \in Readers, reader[r].at \in {"compare", "done"}
    PROVE  LET known  == DOMAIN reader[r].previous
               unseen == {n \in known : Unseen(r, n)}
           IN  /\ known \ DOMAIN Tensions(r) \subseteq unseen
               /\ reader[r].phase \in {"scarred", "collapse"} =>
                     2 * Cardinality(unseen) > Cardinality(known)
<1> DEFINE x == reader[r]
           known  == DOMAIN x.previous
           unseen == {n \in known : Unseen(r, n)}
           seen   == known \cap DOMAIN Tensions(r)
<1>1. Shape /\ Sampled /\ Drawn /\ Sound(x) /\ Opened(x) /\ Read(x)
  BY DEF TemporalInv, WorkerInv, Reading, Sound
<1>2. Tensions(r) = Viewed(x) /\ DOMAIN Tensions(r) = Ends(View(x))
  BY DEF Tensions, Viewed, View
<1>3. known \subseteq NodeIds
  BY <1>1 DEF Read
<1>4. ASSUME NEW n \in known, n \notin DOMAIN Tensions(r)
      PROVE  Unseen(r, n)
  <2> SUFFICES ASSUME NEW i \in 1 .. x.sampled[n],
                      ~(samples[n][i].version > x.version),
                      ~(samples[n][i].version <= x.cleared)
               PROVE  FALSE
    BY DEF Unseen
  <2> DEFINE v == samples[n][i].version
  <2>1. x.version \in 1 .. Current /\ Current \in Nat /\ x.cleared \in Nat
    BY <1>1, OverlayTypes DEF Opened
  <2>2. i \in 1 .. Len(samples[n])
    <3>1. x.sampled[n] \in Nat /\ x.sampled[n] <= Len(samples[n]) /\ Len(samples[n]) \in Nat
      BY <1>1, <1>3, Lengths DEF Read
    <3> QED BY <3>1
  <2>3. SampleOf(n, samples[n][i])
    BY <1>1, <1>3, <2>2 DEF Drawn
  <2>4. v \in 1 .. Current /\ n \in Ends(versions[v])
    BY <2>3 DEF SampleOf
  <2>5. v \in 1 .. x.version /\ v > x.cleared
    BY <2>1, <2>4
  <2>6. Edged(v) \subseteq Edged(x.version) \cup DOMAIN x.base
    BY <1>1, <2>5 DEF Opened
  <2>7. DOMAIN View(x) = DOMAIN x.base \cup Edged(x.version)
    BY DEF View, Merge, Edged
  <2>8. n \in Ends(View(x))
    BY <2>4, <2>6, <2>7 DEF Ends, Edged
  <2> QED BY <1>2, <1>4, <2>8
<1>5. known \ DOMAIN Tensions(r) \subseteq unseen
  BY <1>4
<1>6. ASSUME x.phase \in {"scarred", "collapse"}
      PROVE  2 * Cardinality(unseen) > Cardinality(known)
  <2>1. ~Healing(Tensions(r), x.previous)
    BY <1>1, <1>2, <1>6 DEF Sound, Judged
  <2>2. ~(2 * Cardinality(seen) >= Cardinality(known))
    BY <2>1 DEF Healing
  <2>3. IsFiniteSet(known) /\ IsFiniteSet(seen) /\ IsFiniteSet(unseen)
    BY <1>3, FiniteNodes, FS_Subset
  <2> DEFINE lost == known \ seen
  <2>4. IsFiniteSet(lost) /\ Cardinality(lost) = Cardinality(known) - Cardinality(seen)
    <3>1. lost \in SUBSET known /\ seen \cap lost = {} /\ known = seen \cup lost
      OBVIOUS
    <3>2. IsFiniteSet(lost)
      BY <2>3, FS_Subset
    <3> HIDE DEF known, seen, lost
    <3>3. Cardinality(known) = Cardinality(seen) + Cardinality(lost) - Cardinality(seen \cap lost)
      BY <2>3, <3>1, <3>2, FS_Union
    <3>4. /\ Cardinality(seen \cap lost) = 0 /\ Cardinality(known) \in Nat
          /\ Cardinality(seen) \in Nat /\ Cardinality(lost) \in Nat
      BY <2>3, <3>1, <3>2, FS_EmptySet, FS_CardinalityType
    <3> QED BY <3>2, <3>3, <3>4
  <2>5. lost \subseteq unseen
    BY <1>5
  <2> HIDE DEF known, seen, unseen, lost
  <2>6. /\ Cardinality(lost) <= Cardinality(unseen)
        /\ Cardinality(known) \in Nat /\ Cardinality(seen) \in Nat
        /\ Cardinality(lost) \in Nat /\ Cardinality(unseen) \in Nat
    BY <2>3, <2>4, <2>5, FS_Subset, FS_CardinalityType
  <2> QED BY <2>2, <2>4, <2>6
<1> QED BY <1>5, <1>6

-----------------------------------------------------------------------------
(* The theorems. *)

(* The invariant holds in every state of every run.                          *)
THEOREM TemporalInvariant == Spec => []TemporalInv
<1> QED BY InitTemporal, StepTemporal, PTL DEF Spec

(* Analyze takes nodes for lost, and the region for damaged, only when Reset *)
(* dropped them or the snapshot is older than they are: a compaction, at     *)
(* whatever point the snapshot was opened, loses none.                       *)
THEOREM LossesExplained == Spec => []LossExplained
<1>1. TemporalInv => LossExplained
  BY LossOf DEF LossExplained
<1> QED BY <1>1, TemporalInvariant, PTL

(* The trend that Analyze gives a node of its version's latest sample is the *)
(* one checkAnomalies told, and no trend comes without a spike as large, but *)
(* where samples came between the two reads of the histories.                *)
THEOREM TrendsAreFounded == Spec => []TrendsFounded
<1>1. ASSUME TemporalInv PROVE TrendsFounded
  <2> SUFFICES ASSUME NEW r \in Readers, reader[r].at = "done", reader[r].phase # "none",
                      NEW n \in DOMAIN reader[r].trend
               PROVE  /\ n \in DOMAIN reader[r].told /\ reader[r].base = NoEdges =>
                            reader[r].trend[n] = reader[r].told[n]
                      /\ reader[r].trend[n] # "stable" /\ reader[r].sampled[n] = Len(samples[n]) =>
                            reader[r].spike > Epsilon
    BY DEF TrendsFounded
  <2>1. Judged(reader[r])
    BY <1>1 DEF TemporalInv, Reading, Sound
  <2> QED BY <2>1 DEF Judged
<1> QED BY <1>1, TemporalInvariant, PTL
=============================================================================
