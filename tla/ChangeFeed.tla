----------------------------- MODULE ChangeFeed -----------------------------
(***************************************************************************)
(* The worker's side of the analysis: processEvent publishes a version and *)
(* compacts, then tells a subscriber of the changes, and checkAnomalies    *)
(* samples the tension of the two ends in the overlay, observes it in the  *)
(* calibrator, keeps it in the node's history and tells the subscriber     *)
(* when its trend turns.                                                   *)
(*                                                                         *)
(* One worker, by-volume compaction, and a user who calls Compact or Reset *)
(* beside it, one call at a time.  Each write of a call is a step of its   *)
(* own; the worker takes the overlay and stores its successor in one step, *)
(* and what is lost when a call comes between the two is EngineCore's.     *)
(* onChange and onAnomaly are set, and onChange keeps a copy of what it is *)
(* told; what onAnomaly and onTensionSpike get is not kept.  Node types,   *)
(* times and the fields of a node are left out.                            *)
(***************************************************************************)
EXTENDS Tension

CONSTANTS
    Edges,        \* the edges events may name
    Weights,      \* the weights of events
    Threshold,    \* compactionThreshold
    Capacity,     \* temporalCapacity
    Epsilon,      \* the least change of tension that is a trend
    K,            \* the calibrator's multiplier
    WarmupSize,   \* observations before the calibrator is warm
    MaxEvents,    \* bound: events processed
    MaxCalls      \* bound: calls of Compact and Reset

ASSUME EdgesAssumption ==
    /\ Edges # {} /\ Edges \subseteq NodeIds \X NodeIds
    /\ Weights \subseteq Nat \ {0}
ASSUME FeedAssumption ==
    /\ Threshold \in Int /\ {Epsilon, K, MaxEvents, MaxCalls} \subseteq Nat
    /\ {Capacity, WarmupSize} \subseteq Nat \ {0}

VARIABLES
    base,           \* Engine.base
    versions,       \* the overlay of each version stored
    overlayCount,   \* Engine.overlayCount
    worker,         \* where processEvent is, the event's edge, the version it made
    history,        \* Engine.tensionHistory, by node
    lastTrend,      \* Engine.lastTrend, by node
    calibrator,     \* config.calibrator
    feed,           \* what the subscriber has gathered
    samples,        \* history: every sample of each node
    caller          \* where a user's Compact or Reset is, and the calls so far

feedVars == <<base, versions, overlayCount, worker, history, lastTrend,
              calibrator, feed, samples, caller>>

Current == Len(versions)
Overlay == versions[Current]

-----------------------------------------------------------------------------
(* The ring buffer of a node's tensions. *)

NewTensionHistory ==
    [samples |-> [i \in 0 .. Capacity - 1 |-> [tension |-> 0, version |-> 0]],
     head |-> 0, count |-> 0]

(* Slip: the head runs past the end of the buffer. *)
SlipPush(h, s) ==
    [samples |-> [h.samples EXCEPT ![h.head] = s],
     head |-> h.head + 1,
     count |-> h.count + 1]

Push(h, s) ==
    [samples |-> [h.samples EXCEPT ![h.head] = s],
     head |-> (h.head + 1) % Capacity,
     count |-> h.count + 1]

HistoryLen(h) == IF h.count < Capacity THEN h.count ELSE Capacity

Latest(h) == h.samples[(h.head - 1 + Capacity) % Capacity]

HasPrevious(h) == HistoryLen(h) >= 2
Previous(h) == h.samples[(h.head - 2 + Capacity) % Capacity]

Slice(h) ==
    [i \in 1 .. HistoryLen(h) |->
        IF h.count <= Capacity THEN h.samples[i - 1]
        ELSE h.samples[(h.head + i - 1) % Capacity]]

-----------------------------------------------------------------------------
(* The calibrator: median and median absolute deviation of the warm-up. *)

(* The k-th of the sorted values. *)
Sorted(values, k) ==
    Min({v \in Range(values) : Cardinality({i \in DOMAIN values : values[i] <= v}) >= k})

Median(values) ==
    LET n == Len(values)
    IN  IF n % 2 = 0 THEN (Sorted(values, n \div 2) + Sorted(values, n \div 2 + 1)) \div 2
        ELSE Sorted(values, n \div 2 + 1)

Baseline(values) ==
    LET median == Median(values)
    IN  median + K * Median([i \in DOMAIN values |-> Abs(values[i] - median)])

NewCalibrator == [observations |-> <<>>, warmedUp |-> FALSE, threshold |-> 0]

(* Observations past the warm-up are kept by the program but never read.     *)
Observe(c, tension) ==
    LET seen == Append(c.observations, tension)
    IN  IF c.warmedUp THEN c
        ELSE IF Len(seen) >= WarmupSize
        THEN [observations |-> seen, warmedUp |-> TRUE, threshold |-> Baseline(seen)]
        ELSE [c EXCEPT !.observations = seen]

-----------------------------------------------------------------------------
(* The worker. *)

FeedInit ==
    /\ base = NoEdges
    /\ versions = <<NoEdges>>
    /\ overlayCount = 0
    /\ worker = [at |-> "idle", edge |-> CHOOSE p \in Edges : TRUE, version |-> 1]
    /\ history = [n \in {} |-> NewTensionHistory]
    /\ lastTrend = [n \in {} |-> "stable"]
    /\ calibrator = NewCalibrator
    /\ feed = [nodes |-> {}, weight |-> [p \in Edges |-> 0], turns |-> [n \in NodeIds |-> 0]]
    /\ samples = [n \in NodeIds |-> <<>>]
    /\ caller = [at |-> "out", calls |-> 0]

(* The version with the event is stored; compaction is due by volume. *)
Process(p, w) ==
    /\ worker.at = "idle"
    /\ overlayCount' = overlayCount + 1
    /\ versions' = Append(versions, WithEvent(Overlay, p, w))
    /\ worker' = [at |-> IF overlayCount' >= Threshold THEN "merge" ELSE "announce",
                  edge |-> p, version |-> Current']
    /\ UNCHANGED <<base, history, lastTrend, calibrator, feed, samples, caller>>

(* Slip: an empty base is taken for none, and stays. *)
SlipMergeBase ==
    /\ worker.at = "merge"
    /\ base' = IF base = NoEdges THEN base ELSE Merge(base, Overlay)
    /\ worker' = [worker EXCEPT !.at = "swap"]
    /\ UNCHANGED <<versions, overlayCount, history, lastTrend, calibrator, feed, samples, caller>>

MergeBase ==
    /\ worker.at = "merge"
    /\ base' = Merge(base, Overlay)
    /\ worker' = [worker EXCEPT !.at = "swap"]
    /\ UNCHANGED <<versions, overlayCount, history, lastTrend, calibrator, feed, samples, caller>>

SwapOverlay ==
    /\ worker.at = "swap"
    /\ versions' = Append(versions, NoEdges)
    /\ overlayCount' = 0
    /\ worker' = [worker EXCEPT !.at = "announce"]
    /\ UNCHANGED <<base, history, lastTrend, calibrator, feed, samples, caller>>

(* The overlay the event was added to, and the one that it made. *)
OldGraph == versions[worker.version - 1]
NewGraph == versions[worker.version]

(* Slip: the weight before the event is read off the new graph. *)
SlipPreviousWeight == Weight(NewGraph, worker.edge)

(* Delta.Previous: the weight before the event, zero for a new edge. *)
PreviousWeight == Weight(OldGraph, worker.edge)

(* Node deltas for ends the overlay did not have, then the edge delta; the   *)
(* subscriber adds what the edge's weight has changed by.                    *)
Announce ==
    /\ worker.at = "announce"
    /\ LET p == worker.edge
           new == {p[1], p[2]} \ Ends(OldGraph)
       IN  feed' = [feed EXCEPT !.nodes = @ \cup new,
                                !.weight[p] = @ + NewGraph[p] - PreviousWeight]
    /\ worker' = [worker EXCEPT !.at = "source"]
    /\ UNCHANGED <<base, versions, overlayCount, history, lastTrend, calibrator, samples, caller>>

(* Slip: the sample just pushed is taken for the one before. *)
SlipTrendOf(h, t) ==
    IF ~HasPrevious(h) THEN "stable"
    ELSE IF t - Latest(h).tension > Epsilon THEN "increasing"
    ELSE IF t - Latest(h).tension < -Epsilon THEN "decreasing"
    ELSE "stable"

(* The trend of tension t after the samples of history h. *)
TrendOf(h, t) ==
    IF ~HasPrevious(h) THEN "stable"
    ELSE IF t - Previous(h).tension > Epsilon THEN "increasing"
    ELSE IF t - Previous(h).tension < -Epsilon THEN "decreasing"
    ELSE "stable"

(* One turn of checkAnomalies' loop, for one end of the event's edge. *)
Examine(n) ==
    LET t == Calculate(NewGraph, n)
        s == [tension |-> t, version |-> worker.version]
        h == Push(IF n \in DOMAIN history THEN history[n] ELSE NewTensionHistory, s)
        trend == TrendOf(h, t)
    IN  /\ calibrator' = Observe(calibrator, t)
        /\ history' = [m \in DOMAIN history \cup {n} |-> IF m = n THEN h ELSE history[m]]
        /\ lastTrend' = [m \in DOMAIN lastTrend \cup {n} |->
                            IF m = n THEN trend ELSE lastTrend[m]]
        /\ feed' = IF n \in DOMAIN lastTrend /\ trend # lastTrend[n]
                   THEN [feed EXCEPT !.turns[n] = @ + 1] ELSE feed
        /\ samples' = [samples EXCEPT ![n] = Append(@, s)]
        /\ UNCHANGED <<base, versions, overlayCount, caller>>

ExamineSource ==
    /\ worker.at = "source"
    /\ Examine(worker.edge[1])
    /\ worker' = [worker EXCEPT !.at = "target"]

ExamineTarget ==
    /\ worker.at = "target"
    /\ Examine(worker.edge[2])
    /\ worker' = [worker EXCEPT !.at = "idle"]

(* Events processed so far: each has made a version of a non-empty overlay. *)
Processed == Cardinality({v \in DOMAIN versions : versions[v] # NoEdges})

FeedNext ==
    \/ Processed < MaxEvents /\ \E p \in Edges, w \in Weights : Process(p, w)
    \/ MergeBase
    \/ SwapOverlay
    \/ Announce
    \/ ExamineSource
    \/ ExamineTarget

-----------------------------------------------------------------------------
(* The user's calls.  Compact publishes an empty overlay after it has let go *)
(* of the base; Reset empties the base, the counter and the overlay in turn. *)

callVars == <<worker, history, lastTrend, calibrator, feed, samples>>

Call(at) ==
    /\ caller.at = "out" /\ caller.calls < MaxCalls
    /\ caller' = [at |-> at, calls |-> caller.calls + 1]

GoOn(from, to) ==
    /\ caller.at = from
    /\ caller' = [caller EXCEPT !.at = to]

CompactBase ==
    /\ Call("compactSwap")
    /\ base' = Merge(base, Overlay)
    /\ UNCHANGED <<callVars, versions, overlayCount>>

CompactSwap ==
    /\ GoOn("compactSwap", "compactCount")
    /\ versions' = Append(versions, NoEdges)
    /\ UNCHANGED <<callVars, base, overlayCount>>

CompactCount ==
    /\ GoOn("compactCount", "out")
    /\ overlayCount' = 0
    /\ UNCHANGED <<callVars, base, versions>>

ResetBase ==
    /\ Call("resetCount")
    /\ base' = NoEdges
    /\ UNCHANGED <<callVars, versions, overlayCount>>

ResetCount ==
    /\ GoOn("resetCount", "resetSwap")
    /\ overlayCount' = 0
    /\ UNCHANGED <<callVars, base, versions>>

ResetSwap ==
    /\ GoOn("resetSwap", "out")
    /\ versions' = Append(versions, NoEdges)
    /\ UNCHANGED <<callVars, base, overlayCount>>

CallNext ==
    \/ CompactBase \/ CompactSwap \/ CompactCount
    \/ ResetBase \/ ResetCount \/ ResetSwap

-----------------------------------------------------------------------------
(* Properties of the feed. *)

FeedTypeOK ==
    /\ DOMAIN base \subseteq Edges
    /\ \A v \in DOMAIN versions : DOMAIN versions[v] \subseteq Edges
    /\ overlayCount \in 0 .. MaxEvents
    /\ worker.at \in {"idle", "merge", "swap", "announce", "source", "target"}
    /\ worker.edge \in Edges /\ worker.version \in DOMAIN versions
    /\ DOMAIN history = DOMAIN lastTrend
    /\ \A n \in DOMAIN history : history[n].head \in 0 .. Capacity - 1
    /\ \A n \in DOMAIN lastTrend : lastTrend[n] \in {"stable", "increasing", "decreasing"}
    /\ calibrator.warmedUp \in BOOLEAN /\ calibrator.threshold \in Nat
    /\ feed.nodes \subseteq NodeIds /\ feed.turns \in [NodeIds -> Nat]
    /\ caller.at \in {"out", "compactSwap", "compactCount", "resetCount", "resetSwap"}
    /\ caller.calls \in 0 .. MaxCalls

(* The ring buffer holds the latest samples of its node, in order, and       *)
(* knows the one before the latest unless it has room for one only.          *)
HistoryExact ==
    \A n \in NodeIds :
        LET all == samples[n]
            len == IF Len(all) < Capacity THEN Len(all) ELSE Capacity
        IN  IF n \notin DOMAIN history THEN all = <<>>
            ELSE /\ Slice(history[n]) = SubSeq(all, Len(all) - len + 1, Len(all))
                 /\ Latest(history[n]) = Last(all)
                 /\ HasPrevious(history[n]) <=> len >= 2
                 /\ len >= 2 => Previous(history[n]) = all[Len(all) - 1]

(* The trend of each sample against the one before it; the first is stable. *)
Trend(all, i) ==
    IF i = 1 \/ Capacity = 1 THEN "stable"
    ELSE IF all[i].tension - all[i - 1].tension > Epsilon THEN "increasing"
    ELSE IF all[i].tension - all[i - 1].tension < -Epsilon THEN "decreasing"
    ELSE "stable"

(* A subscriber that joins the nodes it is told of, and adds to each edge    *)
(* what its deltas say it has changed by, has the whole graph between        *)
(* events, though the overlay the deltas are computed from is emptied by     *)
(* compaction between any two of them, as long as no user has called Compact *)
(* or Reset, which tell nobody; and it is told of a node's trend exactly     *)
(* when it turns, whoever calls what.                                        *)
FeedAddsUp ==
    /\ worker.at \in {"idle", "source", "target"} /\ caller.calls = 0 =>
         LET whole == Merge(base, Overlay)
         IN  /\ feed.nodes = Ends(whole)
             /\ feed.weight = [p \in Edges |-> Weight(whole, p)]
    /\ \A n \in NodeIds :
         feed.turns[n] = Cardinality({i \in 2 .. Len(samples[n]) :
                             Trend(samples[n], i) # Trend(samples[n], i - 1)})
=============================================================================
