----------------------------- MODULE EdgeLedger -----------------------------
(***************************************************************************)
(* What the layered graph of the engine promises of its edges: they are    *)
(* those of one graph that every event is added to and that is never       *)
(* compacted.  A restart takes it back to a graph it has been before.      *)
(***************************************************************************)
EXTENDS Integers

CONSTANTS
    Pairs,     \* the directed edges <<from, to>> events may add to
    Weights,   \* the weights of events
    Times      \* the timestamps of events

VARIABLES
    edges,     \* weight, count, first and last time of each edge
    past       \* the graphs this one has been

(* The totals of an edge after one more event. *)
Counted(e, weight, ts) ==
    [weight |-> e.weight + weight,
     count  |-> e.count + 1,
     first  |-> IF ts < e.first THEN ts ELSE e.first,
     last   |-> IF ts > e.last THEN ts ELSE e.last]

Fresh(weight, ts) == [weight |-> weight, count |-> 1, first |-> ts, last |-> ts]

Init ==
    /\ edges = [p \in {} |-> Fresh(0, 0)]
    /\ past = {edges}

Record(p, weight, ts) ==
    /\ edges' = [q \in DOMAIN edges \cup {p} |->
                    IF q # p THEN edges[q]
                    ELSE IF p \in DOMAIN edges THEN Counted(edges[p], weight, ts)
                    ELSE Fresh(weight, ts)]
    /\ past' = past \cup {edges'}

Revert ==
    /\ edges' \in past
    /\ UNCHANGED past

Next ==
    \/ \E p \in Pairs, weight \in Weights, ts \in Times : Record(p, weight, ts)
    \/ Revert

Spec == Init /\ [][Next]_<<edges, past>>
=============================================================================
