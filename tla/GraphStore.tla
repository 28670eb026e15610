----------------------------- MODULE GraphStore -----------------------------
(***************************************************************************)
(* The data of the engine's layered graph: nodes with degree and times,    *)
(* edges with weight, count and times.  Events go to an overlay, Compact   *)
(* merges the overlay into the base, storage keeps merged bases for the    *)
(* next engine, and a snapshot reads both layers through a view.           *)
(*                                                                         *)
(* Who does this when is EngineCore's; here each operation is one step.    *)
(* Types and attributes of nodes and edges are left out, degrees are total *)
(* degrees, and weights are integers: rounding of sums is not modelled.    *)
(***************************************************************************)
EXTENDS Integers, FiniteSets

CONSTANTS
    NodeIds,     \* names of nodes
    Weights,     \* weights of events
    Times,       \* timestamps of events
    MaxEvents,   \* bound: events added
    MaxRounds    \* bound: compactions and restarts

Pairs == NodeIds \X NodeIds

ASSUME IdsAssumption == IsFiniteSet(NodeIds)
ASSUME EventsAssumption == Weights \subseteq Int /\ Times \subseteq Int
ASSUME BoundsAssumption == MaxEvents \in Nat /\ MaxRounds \in Nat

VARIABLES
    base,      \* Engine.base
    overlay,   \* the graph of the current version
    saving,    \* bases handed to Save goroutines that have not finished
    saved,     \* what storage holds
    added,     \* events added so far
    rounds,    \* compactions and restarts so far
    clock,     \* history: the latest timestamp added
    ordered,   \* history: no timestamp was older than one added before
    past       \* history: the edges the view has shown

vars == <<base, overlay, saving, saved, added, rounds, clock, ordered, past>>

-----------------------------------------------------------------------------
(* Graphs. *)

EmptyGraph == [nodes |-> [n \in {} |-> 0], edges |-> [p \in {} |-> 0]]

Ids(g) == DOMAIN g.nodes
Arcs(g) == DOMAIN g.edges

NewNode(ts) == [degree |-> 0, first |-> ts, last |-> ts]
NewEdge(weight, ts) == [weight |-> weight, count |-> 1, first |-> ts, last |-> ts]

Earlier(s, t) == IF s < t THEN s ELSE t
Later(s, t) == IF s > t THEN s ELSE t

(* AddEdge on an edge that is there.  Slip: the comparisons of the times are *)
(* swapped.                                                                  *)
SlipAccumulate(e, weight, ts) ==
    [weight |-> e.weight + weight,
     count  |-> e.count + 1,
     first  |-> Later(ts, e.first),
     last   |-> Earlier(ts, e.last)]

Accumulate(e, weight, ts) ==
    [weight |-> e.weight + weight,
     count  |-> e.count + 1,
     first  |-> Earlier(ts, e.first),
     last   |-> Later(ts, e.last)]

(* What AddEdge makes of an edge. *)
EdgeAdded(es, p, weight, ts) ==
    IF p \in DOMAIN es THEN Accumulate(es[p], weight, ts) ELSE NewEdge(weight, ts)

(* The edges a view makes of two layers: those in both are merged. *)
MergeEdges(b, o) ==
    [weight |-> b.weight + o.weight,
     count  |-> b.count + o.count,
     first  |-> Earlier(b.first, o.first),
     last   |-> Later(b.last, o.last)]

Union(b, o) ==
    [p \in DOMAIN b \cup DOMAIN o |->
        IF p \notin DOMAIN o THEN b[p]
        ELSE IF p \notin DOMAIN b THEN o[p]
        ELSE MergeEdges(b[p], o[p])]

(* How often a node is an end of some edges; a loop counts twice. *)
Incident(ps, n) ==
    Cardinality({p \in ps : p[1] = n}) + Cardinality({p \in ps : p[2] = n})

Raised(node, k) == [node EXCEPT !.degree = @ + k]
Widened(node, ts) == [node EXCEPT !.first = Earlier(ts, @), !.last = Later(ts, @)]

(* AddEdge makes the missing ends of an edge, and counts it at its ends only *)
(* when it is new.  Slip: at every event.                                    *)
NodeIn(g, n, ts) == IF n \in Ids(g) THEN g.nodes[n] ELSE NewNode(ts)

SlipAddEdge(g, p, weight, ts) ==
    [nodes |-> [n \in Ids(g) \cup {p[1], p[2]} |->
                   Raised(NodeIn(g, n, ts), Incident({p}, n))],
     edges |-> [q \in Arcs(g) \cup {p} |->
                   IF q = p THEN EdgeAdded(g.edges, p, weight, ts) ELSE g.edges[q]]]

AddEdge(g, p, weight, ts) ==
    [nodes |-> [n \in Ids(g) \cup {p[1], p[2]} |->
                   Raised(NodeIn(g, n, ts), Incident({p} \ Arcs(g), n))],
     edges |-> [q \in Arcs(g) \cup {p} |->
                   IF q = p THEN EdgeAdded(g.edges, p, weight, ts) ELSE g.edges[q]]]

WithEvent(g, p, weight, ts) ==
    LET cp == AddEdge(g, p, weight, ts)
    IN  [nodes |-> [n \in Ids(cp) |-> IF n \in {p[1], p[2]} THEN Widened(cp.nodes[n], ts)
                                      ELSE cp.nodes[n]],
         edges |-> cp.edges]

(* A graph built anew from the nodes and edges of another: the nodes bring   *)
(* their degrees, and adding the edges counts them once more.  An edge is    *)
(* added at its first time, and its count and last time are set afterwards.  *)
RebuiltEdge(e) == [NewEdge(e.weight, e.first) EXCEPT !.count = e.count, !.last = e.last]

Rebuild(g) ==
    [nodes |-> [n \in Ids(g) |-> Raised(g.nodes[n], Incident(Arcs(g), n))],
     edges |-> [p \in Arcs(g) |-> RebuiltEdge(g.edges[p])]]

(* Compact rebuilds the base, then adds the overlay.  A node of both keeps   *)
(* what the base says, but for its last time; a new one loses its degree,    *)
(* and adding its edges counts it anew.  Slip: a node that is there already  *)
(* is left as it is.                                                         *)
SlipCompactNode(b, o, n) ==
    IF n \in Ids(b) THEN Rebuild(b).nodes[n] ELSE [o.nodes[n] EXCEPT !.degree = 0]

CompactNode(b, o, n) ==
    IF n \notin Ids(o) THEN Rebuild(b).nodes[n]
    ELSE IF n \notin Ids(b) THEN [o.nodes[n] EXCEPT !.degree = 0]
    ELSE [Rebuild(b).nodes[n] EXCEPT !.last = o.nodes[n].last]

(* An edge of the overlay is added to the rebuilt base once, at its first    *)
(* time, and then corrected: AddEdge has counted one event of all it stands  *)
(* for, and has not seen its last time.  Slip: the one is counted twice.     *)
SlipMergedEdge(es, p, e) ==
    [EdgeAdded(es, p, e.weight, e.first) EXCEPT !.count = @ + e.count,
                                                !.last = Later(e.last, @)]

MergedEdge(es, p, e) ==
    [EdgeAdded(es, p, e.weight, e.first) EXCEPT !.count = @ + (e.count - 1),
                                                !.last = Later(e.last, @)]

Merged(b, o) ==
    [nodes |-> [n \in Ids(b) \cup Ids(o) |->
                   Raised(CompactNode(b, o, n), Incident(Arcs(o) \ Arcs(b), n))],
     edges |-> [p \in Arcs(b) \cup Arcs(o) |->
                   IF p \in Arcs(o) THEN MergedEdge(Rebuild(b).edges, p, o.edges[p])
                   ELSE Rebuild(b).edges[p]]]

-----------------------------------------------------------------------------
(* The view a snapshot reads: overlay nodes win, edges of both are merged.   *)

ViewIds == Ids(base) \cup Ids(overlay)
ViewNode(n) == IF n \in Ids(overlay) THEN overlay.nodes[n] ELSE base.nodes[n]
ViewEdges == Union(base.edges, overlay.edges)

-----------------------------------------------------------------------------
Init ==
    /\ base = EmptyGraph /\ overlay = EmptyGraph
    /\ saving = {} /\ saved = EmptyGraph
    /\ added = 0 /\ rounds = 0
    /\ clock = 0 /\ ordered = TRUE
    /\ past = {ViewEdges}

(* The worker adds an event to a copy of the overlay. *)
AddEvent(p, weight, ts) ==
    /\ added < MaxEvents
    /\ overlay' = WithEvent(overlay, p, weight, ts)
    /\ added' = added + 1
    /\ ordered' = (ordered /\ (added = 0 \/ clock <= ts))
    /\ clock' = IF added = 0 THEN ts ELSE Later(clock, ts)
    /\ UNCHANGED <<base, saving, saved, rounds>>
    /\ past' = past \cup {ViewEdges'}

(* The overlay is merged into the base, and a goroutine is to save it. *)
Compact ==
    /\ rounds < MaxRounds
    /\ base' = Merged(base, overlay)
    /\ overlay' = EmptyGraph
    /\ saving' = saving \cup {base'}
    /\ rounds' = rounds + 1
    /\ UNCHANGED <<saved, added, clock, ordered, past>>

FinishSave(g) ==
    /\ g \in saving
    /\ saved' = g
    /\ saving' = saving \ {g}
    /\ UNCHANGED <<base, overlay, added, rounds, clock, ordered, past>>

(* A new engine loads what storage holds; saves may be lost with the old one. *)
Restart ==
    /\ rounds < MaxRounds
    /\ base' = Rebuild(saved)
    /\ overlay' = EmptyGraph
    /\ saving' \in SUBSET saving
    /\ rounds' = rounds + 1
    /\ UNCHANGED <<saved, added, clock, ordered, past>>

Next ==
    \/ \E p \in Pairs, weight \in Weights, ts \in Times : AddEvent(p, weight, ts)
    \/ Compact
    \/ \E g \in saving : FinishSave(g)
    \/ Restart

Spec == Init /\ [][Next]_vars

-----------------------------------------------------------------------------
(* Properties. *)

Edge == [weight : Int, count : Nat \ {0}, first : Int, last : Int]
Node == [degree : Nat, first : Int, last : Int]

IsGraph(g) ==
    /\ g = [nodes |-> g.nodes, edges |-> g.edges]
    /\ Ids(g) \subseteq NodeIds /\ Arcs(g) \subseteq Pairs
    /\ g.nodes \in [Ids(g) -> Node]
    /\ g.edges \in [Arcs(g) -> Edge]
    /\ \A p \in Arcs(g) : g.edges[p].first <= g.edges[p].last

(* Every layer, and every graph saved, is a graph, and no edge of it was     *)
(* last seen before it was first seen.                                       *)
TypeOK ==
    /\ \A g \in saving \cup {base, overlay, saved} : IsGraph(g)
    /\ added \in 0 .. MaxEvents /\ rounds \in 0 .. MaxRounds
    /\ clock \in Int /\ ordered \in BOOLEAN

(* The nodes a snapshot lists are the ends of the edges it lists, across     *)
(* compactions, saves and restarts: none is lost, and none stays alone.      *)
ViewClosed == ViewIds = {p[1] : p \in DOMAIN ViewEdges} \cup {p[2] : p \in DOMAIN ViewEdges}

(* In the overlay, which anomaly detection reads, a node's degree is the     *)
(* number of its edge ends there, whatever the base holds.                   *)
OverlayDegreeExact ==
    \A n \in Ids(overlay) : overlay.nodes[n].degree = Incident(Arcs(overlay), n)

(* If timestamps arrive in order, a snapshot sees a node's last time as that *)
(* of its latest edge, wherever the two are kept.                            *)
LastSeenExact ==
    ordered =>
        \A n \in ViewIds :
            LET times == {ViewEdges[p].last : p \in {q \in DOMAIN ViewEdges : n \in {q[1], q[2]}}}
            IN  ViewNode(n).last \in times /\ \A t \in times : t <= ViewNode(n).last

(* The edges of the view are those of one graph that was never compacted,    *)
(* and a restart only takes them back to what they have been: weights,       *)
(* counts and times are neither lost nor counted twice.                      *)
Ledger == INSTANCE EdgeLedger WITH edges <- ViewEdges

ImplementsEdgeLedger == Ledger!Spec
=============================================================================
