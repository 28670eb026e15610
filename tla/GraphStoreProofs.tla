-------------------------- MODULE GraphStoreProofs --------------------------
(* GraphStore for any nodes, weights and times: the layers are graphs, the  *)
(* nodes of a view are the ends of its edges, overlay degrees are exact,    *)
(* the view's edges are those of one graph that is never compacted, and the *)
(* last times of its nodes are theirs while timestamps arrive in order.     *)
EXTENDS GraphStore, FiniteSetTheorems, TLAPS

-----------------------------------------------------------------------------
(* Edges. *)

(* A map from pairs to edges, none of which was last seen before its first.  *)
IsEdges(f) ==
    /\ DOMAIN f \subseteq Pairs
    /\ f \in [DOMAIN f -> Edge]
    /\ \A p \in DOMAIN f : f[p].first <= f[p].last

(* Merging two edges gives an edge. *)
LEMMA MergeTypes ==
    ASSUME NEW b \in Edge, NEW o \in Edge, b.first <= b.last, o.first <= o.last
    PROVE  /\ MergeEdges(b, o) \in Edge
           /\ MergeEdges(b, o).first <= MergeEdges(b, o).last
BY DEF MergeEdges, Edge, Earlier, Later

(* The union of two maps of edges is one. *)
LEMMA UnionTypes ==
    ASSUME NEW b, NEW o, IsEdges(b), IsEdges(o)
    PROVE  IsEdges(Union(b, o)) /\ DOMAIN Union(b, o) = DOMAIN b \cup DOMAIN o
<1>1. DOMAIN Union(b, o) = DOMAIN b \cup DOMAIN o
  BY DEF Union
<1>2. ASSUME NEW p \in DOMAIN b \cup DOMAIN o
      PROVE  Union(b, o)[p] \in Edge /\ Union(b, o)[p].first <= Union(b, o)[p].last
  <2>1. CASE p \notin DOMAIN o
    BY <1>2, <2>1 DEF Union, IsEdges
  <2>2. CASE p \in DOMAIN o /\ p \notin DOMAIN b
    BY <1>2, <2>2 DEF Union, IsEdges
  <2>3. CASE p \in DOMAIN o /\ p \in DOMAIN b
    <3>1. Union(b, o)[p] = MergeEdges(b[p], o[p])
      BY <2>3 DEF Union
    <3> QED BY <2>3, <3>1, MergeTypes DEF IsEdges
  <2> QED BY <1>2, <2>1, <2>2, <2>3
<1>3. Union(b, o) \in [DOMAIN Union(b, o) -> Edge]
  BY <1>1, <1>2 DEF Union
<1> QED BY <1>1, <1>2, <1>3 DEF IsEdges

(* Merging is associative, so it does not matter to which layer an event is  *)
(* added.                                                                    *)
LEMMA MergeAssociative ==
    ASSUME NEW a \in Edge, NEW b \in Edge, NEW c \in Edge
    PROVE  MergeEdges(MergeEdges(a, b), c) = MergeEdges(a, MergeEdges(b, c))
BY DEF MergeEdges, Edge, Earlier, Later

(* Adding one event to an edge is what the ledger does. *)
LEMMA FreshEdge ==
    ASSUME NEW weight \in Int, NEW ts \in Int
    PROVE  /\ NewEdge(weight, ts) \in Edge
           /\ NewEdge(weight, ts) = Ledger!Fresh(weight, ts)
BY DEF NewEdge, Edge, Ledger!Fresh

LEMMA MergeOne ==
    ASSUME NEW b \in Edge, NEW weight \in Int, NEW ts \in Int
    PROVE  MergeEdges(b, NewEdge(weight, ts)) = Ledger!Counted(b, weight, ts)
BY DEF MergeEdges, NewEdge, Edge, Earlier, Later, Ledger!Counted

(* What AddEdge makes of an edge is its merge with a new one. *)
LEMMA AccumulateMerges ==
    ASSUME NEW e \in Edge, NEW weight \in Int, NEW ts \in Int
    PROVE  Accumulate(e, weight, ts) = MergeEdges(e, NewEdge(weight, ts))
BY DEF Accumulate, MergeEdges, NewEdge, Edge, Earlier, Later

One(p, weight, ts) == [q \in {p} |-> NewEdge(weight, ts)]

WithEdge(es, p, weight, ts) ==
    [q \in DOMAIN es \cup {p} |-> IF q = p THEN EdgeAdded(es, p, weight, ts) ELSE es[q]]

LEMMA AddedIsUnion ==
    ASSUME NEW es, IsEdges(es), NEW p \in Pairs, NEW weight \in Int, NEW ts \in Int
    PROVE  WithEdge(es, p, weight, ts) = Union(es, One(p, weight, ts))
<1>1. p \in DOMAIN es =>
         EdgeAdded(es, p, weight, ts) = MergeEdges(es[p], NewEdge(weight, ts))
  BY AccumulateMerges DEF EdgeAdded, IsEdges
<1>2. p \notin DOMAIN es => EdgeAdded(es, p, weight, ts) = NewEdge(weight, ts)
  BY DEF EdgeAdded
<1> QED BY <1>1, <1>2 DEF WithEdge, Union, One

(* An edge rebuilt is the edge it was. *)
LEMMA RebuiltSame ==
    ASSUME NEW e \in Edge
    PROVE  RebuiltEdge(e) = e
<1>1. RebuiltEdge(e) =
         [weight |-> e.weight, count |-> e.count, first |-> e.first, last |-> e.last]
  <2> DEFINE n == NewEdge(e.weight, e.first)
  <2>1. n = [weight |-> e.weight, count |-> 1, first |-> e.first, last |-> e.first]
    BY DEF NewEdge
  <2>2. RebuiltEdge(e) = [n EXCEPT !.count = e.count, !.last = e.last]
    BY DEF RebuiltEdge
  <2> HIDE DEF n
  <2> QED BY <2>1, <2>2
<1>2. e = [weight |-> e.weight, count |-> e.count, first |-> e.first, last |-> e.last]
  BY DEF Edge
<1> QED BY <1>1, <1>2

(* Compact's corrections of an edge give the two layers' merge, and those of *)
(* a new one the overlay's edge.                                             *)
LEMMA CorrectedEdge ==
    ASSUME NEW es, IsEdges(es), NEW p \in Pairs, NEW o \in Edge, o.first <= o.last
    PROVE  MergedEdge(es, p, o) = IF p \in DOMAIN es THEN MergeEdges(es[p], o) ELSE o
<1> DEFINE a == EdgeAdded(es, p, o.weight, o.first)
           e == es[p]
<1>1. /\ o = [weight |-> o.weight, count |-> o.count, first |-> o.first, last |-> o.last]
      /\ o.weight \in Int /\ o.count \in Int /\ o.first \in Int /\ o.last \in Int
  BY DEF Edge
<1>2. CASE p \in DOMAIN es
  <2>1. a = [weight |-> e.weight + o.weight, count |-> e.count + 1,
             first |-> Earlier(o.first, e.first), last |-> Later(o.first, e.last)]
    BY <1>2 DEF EdgeAdded, Accumulate
  <2>2. e.count \in Int /\ e.first \in Int /\ e.last \in Int
    BY <1>2 DEF IsEdges, Edge
  <2>3. MergedEdge(es, p, o) = [a EXCEPT !.count = @ + (o.count - 1), !.last = Later(o.last, @)]
    BY DEF MergedEdge
  <2> HIDE DEF a, e
  <2>4. MergedEdge(es, p, o) =
           [weight |-> e.weight + o.weight, count |-> (e.count + 1) + (o.count - 1),
            first |-> Earlier(o.first, e.first), last |-> Later(o.last, Later(o.first, e.last))]
    BY <2>1, <2>3
  <2>5. /\ (e.count + 1) + (o.count - 1) = e.count + o.count
        /\ Earlier(o.first, e.first) = Earlier(e.first, o.first)
        /\ Later(o.last, Later(o.first, e.last)) = Later(e.last, o.last)
    <3>1. o.first <= o.last /\ o.first \in Int /\ o.last \in Int /\ o.count \in Int
      BY <1>1
    <3>2. Later(o.last, Later(o.first, e.last)) = Later(e.last, o.last)
      BY <2>2, <3>1 DEF Later
    <3>3. Earlier(o.first, e.first) = Earlier(e.first, o.first)
      BY <2>2, <3>1 DEF Earlier
    <3>4. (e.count + 1) + (o.count - 1) = e.count + o.count
      BY <2>2, <3>1
    <3> QED BY <3>2, <3>3, <3>4
  <2> QED BY <1>2, <2>4, <2>5 DEF MergeEdges, e
<1>3. CASE p \notin DOMAIN es
  <2>1. a = [weight |-> o.weight, count |-> 1, first |-> o.first, last |-> o.first]
    BY <1>3 DEF EdgeAdded, NewEdge
  <2>2. MergedEdge(es, p, o) = [a EXCEPT !.count = @ + (o.count - 1), !.last = Later(o.last, @)]
    BY DEF MergedEdge
  <2> HIDE DEF a
  <2>3. MergedEdge(es, p, o) =
           [weight |-> o.weight, count |-> 1 + (o.count - 1),
            first |-> o.first, last |-> Later(o.last, o.first)]
    BY <2>1, <2>2
  <2>4. 1 + (o.count - 1) = o.count /\ Later(o.last, o.first) = o.last
    BY <1>1 DEF Later
  <2> QED BY <1>1, <1>3, <2>3, <2>4
<1> QED BY <1>2, <1>3

-----------------------------------------------------------------------------
(* Degrees. *)

(* The ends of a set of edges are counted in the natural numbers, and the    *)
(* counts of two sets without a common edge add up.                          *)
LEMMA IncidentTypes ==
    ASSUME NEW ps \in SUBSET Pairs, NEW n
    PROVE  /\ IsFiniteSet({p \in ps : p[1] = n}) /\ IsFiniteSet({p \in ps : p[2] = n})
           /\ Incident(ps, n) \in Nat
<1>1. IsFiniteSet(Pairs)
  BY IdsAssumption, FS_Product DEF Pairs
<1>2. IsFiniteSet({p \in ps : p[1] = n}) /\ IsFiniteSet({p \in ps : p[2] = n})
  BY <1>1, FS_Subset
<1>3. Cardinality({p \in ps : p[1] = n}) \in Nat /\ Cardinality({p \in ps : p[2] = n}) \in Nat
  BY <1>2, FS_CardinalityType
<1> QED BY <1>2, <1>3 DEF Incident

LEMMA DisjointCardinality ==
    ASSUME NEW S, NEW T, IsFiniteSet(S), IsFiniteSet(T), S \cap T = {}
    PROVE  Cardinality(S \cup T) = Cardinality(S) + Cardinality(T)
<1>1. Cardinality(S \cup T) = Cardinality(S) + Cardinality(T) - Cardinality(S \cap T)
  BY FS_Union
<1>2. Cardinality(S) \in Nat /\ Cardinality(T) \in Nat /\ Cardinality(S \cap T) = 0
  BY FS_CardinalityType, FS_EmptySet
<1> QED BY <1>1, <1>2

LEMMA IncidentAdds ==
    ASSUME NEW ps \in SUBSET Pairs, NEW qs \in SUBSET Pairs, ps \cap qs = {}, NEW n
    PROVE  Incident(ps \cup qs, n) = Incident(ps, n) + Incident(qs, n)
<1> DEFINE out(es) == {p \in es : p[1] = n}
           in(es) == {p \in es : p[2] = n}
<1>1. /\ IsFiniteSet(out(ps)) /\ IsFiniteSet(in(ps))
      /\ IsFiniteSet(out(qs)) /\ IsFiniteSet(in(qs))
  BY IncidentTypes
<1>2. /\ out(ps \cup qs) = out(ps) \cup out(qs) /\ out(ps) \cap out(qs) = {}
      /\ in(ps \cup qs) = in(ps) \cup in(qs) /\ in(ps) \cap in(qs) = {}
  OBVIOUS
<1>3. /\ Cardinality(out(ps)) \in Nat /\ Cardinality(in(ps)) \in Nat
      /\ Cardinality(out(qs)) \in Nat /\ Cardinality(in(qs)) \in Nat
  BY <1>1, FS_CardinalityType
<1>4. Cardinality(out(ps \cup qs)) = Cardinality(out(ps)) + Cardinality(out(qs))
  BY <1>1, <1>2, DisjointCardinality
<1>5. Cardinality(in(ps \cup qs)) = Cardinality(in(ps)) + Cardinality(in(qs))
  BY <1>1, <1>2, DisjointCardinality
<1> HIDE DEF out, in
<1>6. Cardinality(out(ps \cup qs)) + Cardinality(in(ps \cup qs)) =
         Cardinality(out(ps)) + Cardinality(in(ps)) + (Cardinality(out(qs)) + Cardinality(in(qs)))
  BY <1>3, <1>4, <1>5
<1> QED BY <1>6 DEF out, in, Incident

(* A node that is no end of some edges counts none of them. *)
Ends(ps) == {p[1] : p \in ps} \cup {p[2] : p \in ps}

LEMMA IncidentNone ==
    ASSUME NEW ps, NEW n, n \notin Ends(ps)
    PROVE  Incident(ps, n) = 0
<1>1. {p \in ps : p[1] = n} = {} /\ {p \in ps : p[2] = n} = {}
  BY DEF Ends
<1> QED BY <1>1, FS_EmptySet DEF Incident

-----------------------------------------------------------------------------
(* Graphs. *)

Closed(g) == Ids(g) = Ends(Arcs(g))

(* Counting more edge ends at a node, and widening its times. *)
LEMMA NodeChanges ==
    ASSUME NEW node \in Node, NEW k \in Nat, NEW ts \in Int
    PROVE  /\ Raised(node, k) \in Node /\ Raised(node, k).degree = node.degree + k
           /\ Widened(node, ts) \in Node /\ Widened(node, ts).degree = node.degree
           /\ [node EXCEPT !.last = ts] \in Node
           /\ [node EXCEPT !.degree = 0] \in Node
           /\ node.degree \in Nat
<1>1. Raised(node, k) \in Node
  BY DEF Raised, Node
<1>2. Raised(node, k).degree = node.degree + k
  BY DEF Raised, Node
<1>3. Widened(node, ts) \in Node
  BY DEF Widened, Node, Earlier, Later
<1>4. Widened(node, ts).degree = node.degree
  BY DEF Widened, Node
<1>5. [node EXCEPT !.last = ts] \in Node
  BY DEF Node
<1>6. [node EXCEPT !.degree = 0] \in Node
  BY DEF Node
<1>7. node.degree \in Nat
  BY DEF Node
<1> QED BY <1>1, <1>2, <1>3, <1>4, <1>5, <1>6, <1>7

LEMMA RaisedNode ==
    ASSUME NEW node \in Node, NEW k \in Nat
    PROVE  Raised(node, k) \in Node
BY DEF Raised, Node

More(g, p, n) == Incident({p} \ Arcs(g), n)

(* A graph is made of any nodes and edges of the right types. *)
LEMMA GraphOf ==
    ASSUME NEW N, NEW E, DOMAIN N \subseteq NodeIds, N \in [DOMAIN N -> Node], IsEdges(E),
           NEW g, g = [nodes |-> N, edges |-> E]
    PROVE  IsGraph(g) /\ g.nodes = N /\ g.edges = E /\ Ids(g) = DOMAIN N /\ Arcs(g) = DOMAIN E
<1>1. g.nodes = N /\ g.edges = E /\ Ids(g) = DOMAIN N /\ Arcs(g) = DOMAIN E
  BY DEF Ids, Arcs
<1> QED BY <1>1 DEF IsGraph, IsEdges

(* The parts of a graph. *)
LEMMA GraphParts ==
    ASSUME NEW g, IsGraph(g)
    PROVE  /\ IsEdges(g.edges) /\ Arcs(g) \in SUBSET Pairs
           /\ \A n \in Ids(g) : g.nodes[n] \in Node
BY DEF IsGraph, IsEdges, Arcs

(* Adding an event to a graph: which nodes and edges it has then, and which  *)
(* degrees.                                                                  *)
LEMMA EventGraph ==
    ASSUME NEW g, IsGraph(g), NEW p \in Pairs, NEW weight \in Int, NEW ts \in Int,
           NEW h, h = WithEvent(g, p, weight, ts)
    PROVE  /\ IsGraph(h)
           /\ Ids(h) = Ids(g) \cup {p[1], p[2]}
           /\ Arcs(h) = Arcs(g) \cup {p}
           /\ h.edges = Union(g.edges, One(p, weight, ts))
           /\ \A n \in Ids(h) : h.nodes[n].degree = NodeIn(g, n, ts).degree + More(g, p, n)
<1> DEFINE ids == Ids(g) \cup {p[1], p[2]}
           node(n) == Raised(NodeIn(g, n, ts), More(g, p, n))
           N == [n \in ids |-> node(n)]
           M == [n \in ids |-> IF n \in {p[1], p[2]} THEN Widened(N[n], ts) ELSE N[n]]
           E == Union(g.edges, One(p, weight, ts))
<1>1. ids \subseteq NodeIds
  BY DEF Pairs, IsGraph
<1>2. IsEdges(E) /\ DOMAIN E = Arcs(g) \cup {p}
  <2>1. IsEdges(One(p, weight, ts)) /\ DOMAIN One(p, weight, ts) = {p}
    BY DEF One, IsEdges, NewEdge, Edge
  <2> QED BY <2>1, GraphParts, UnionTypes DEF Arcs
<1>3. ASSUME NEW n \in ids
      PROVE  /\ N[n] \in Node /\ N[n].degree = NodeIn(g, n, ts).degree + More(g, p, n)
             /\ M[n] \in Node /\ M[n].degree = N[n].degree
  <2>1. More(g, p, n) \in Nat
    BY IncidentTypes DEF More
  <2>2. NodeIn(g, n, ts) \in Node
    BY GraphParts DEF NodeIn, NewNode, Node
  <2>3. N[n] = node(n)
    OBVIOUS
  <2>4. N[n] \in Node /\ N[n].degree = NodeIn(g, n, ts).degree + More(g, p, n)
    BY <2>1, <2>2, <2>3, NodeChanges
  <2>5. M[n] = Widened(N[n], ts) \/ M[n] = N[n]
    OBVIOUS
  <2> HIDE DEF N, M
  <2>6. Widened(N[n], ts) \in Node /\ Widened(N[n], ts).degree = N[n].degree
    BY <2>4, NodeChanges, 0 \in Nat
  <2> QED BY <2>4, <2>5, <2>6
<1>4. DOMAIN M = ids /\ M \in [DOMAIN M -> Node]
  <2>1. M = [n \in ids |-> M[n]]
    OBVIOUS
  <2> HIDE DEF M
  <2> QED BY <1>3, <2>1
<1>5. h = [nodes |-> M, edges |-> E]
  <2>1. AddEdge(g, p, weight, ts) = [nodes |-> N, edges |-> E]
    <3>1. IsEdges(g.edges)
      BY GraphParts
    <3>2. E = WithEdge(g.edges, p, weight, ts)
      BY <3>1, AddedIsUnion
    <3> HIDE DEF E
    <3> QED BY <3>2 DEF WithEdge, Arcs, AddEdge, More
  <2> HIDE DEF N, E
  <2>2. Ids([nodes |-> N, edges |-> E]) = ids
    BY DEF N, Ids
  <2> QED BY <2>1, <2>2 DEF WithEvent
<1> HIDE DEF M, E, N
<1>6. IsGraph(h) /\ h.nodes = M /\ h.edges = E /\ Ids(h) = ids /\ Arcs(h) = DOMAIN E
  BY <1>1, <1>2, <1>4, <1>5, GraphOf
<1> QED BY <1>2, <1>3, <1>6 DEF E

(* Rebuilding a graph keeps its edges and the names of its nodes. *)
LEMMA RebuildGraph ==
    ASSUME NEW g, IsGraph(g), NEW h, h = Rebuild(g)
    PROVE  IsGraph(h) /\ Ids(h) = Ids(g) /\ h.edges = g.edges /\ Arcs(h) = Arcs(g)
<1> DEFINE N == [n \in Ids(g) |-> Raised(g.nodes[n], Incident(Arcs(g), n))]
<1>1. ASSUME NEW n \in Ids(g) PROVE N[n] \in Node
  <2>1. g.nodes[n] \in Node /\ Incident(Arcs(g), n) \in Nat
    BY GraphParts, IncidentTypes
  <2>2. N[n] = Raised(g.nodes[n], Incident(Arcs(g), n))
    OBVIOUS
  <2> HIDE DEF N
  <2> QED BY <2>1, <2>2, RaisedNode
<1>2. DOMAIN N = Ids(g) /\ N \in [DOMAIN N -> Node]
  BY <1>1
<1>3. h = [nodes |-> N, edges |-> g.edges]
  <2>1. [p \in Arcs(g) |-> RebuiltEdge(g.edges[p])] = g.edges
    BY GraphParts, RebuiltSame DEF IsEdges, Arcs
  <2> QED BY <2>1 DEF Rebuild
<1>4. Ids(g) \subseteq NodeIds /\ IsEdges(g.edges)
  BY GraphParts DEF IsGraph
<1> HIDE DEF N
<1> QED BY <1>2, <1>3, <1>4, GraphOf DEF Arcs

(* The merge of two graphs has the nodes and the edges of both. *)
LEMMA MergedGraph ==
    ASSUME NEW b, IsGraph(b), NEW o, IsGraph(o), NEW h, h = Merged(b, o)
    PROVE  /\ IsGraph(h)
           /\ Ids(h) = Ids(b) \cup Ids(o)
           /\ Arcs(h) = Arcs(b) \cup Arcs(o)
           /\ h.edges = Union(b.edges, o.edges)
<1> DEFINE ids == Ids(b) \cup Ids(o)
           more(n) == Incident(Arcs(o) \ Arcs(b), n)
           N == [n \in ids |-> Raised(CompactNode(b, o, n), more(n))]
           E == Union(b.edges, o.edges)
<1>1. ASSUME NEW n \in ids PROVE N[n] \in Node
  <2>1. more(n) \in Nat
    <3>1. Arcs(o) \ Arcs(b) \in SUBSET Pairs
      BY GraphParts
    <3> QED BY <3>1, IncidentTypes
  <2>2. n \in Ids(b) => Rebuild(b).nodes[n] \in Node
    BY RebuildGraph, GraphParts
  <2>3. n \in Ids(o) => o.nodes[n] \in Node
    BY GraphParts
  <2>4. CompactNode(b, o, n) \in Node
    <3>1. CASE n \notin Ids(o)
      BY <2>2, <3>1 DEF CompactNode
    <3>2. CASE n \in Ids(o) /\ n \notin Ids(b)
      BY <2>1, <2>3, <3>2, NodeChanges DEF CompactNode, Node
    <3>3. CASE n \in Ids(o) /\ n \in Ids(b)
      <4>1. o.nodes[n].last \in Int
        BY <2>3, <3>3 DEF Node
      <4>2. CompactNode(b, o, n) = [Rebuild(b).nodes[n] EXCEPT !.last = o.nodes[n].last]
        BY <3>3 DEF CompactNode
      <4>3. Rebuild(b).nodes[n] \in Node
        BY <2>2, <3>3
      <4> HIDE DEF more
      <4> QED BY <2>1, <4>1, <4>2, <4>3, NodeChanges
    <3> QED BY <3>1, <3>2, <3>3
  <2>5. N[n] = Raised(CompactNode(b, o, n), more(n))
    OBVIOUS
  <2> HIDE DEF N, more
  <2> QED BY <2>1, <2>4, <2>5, RaisedNode
<1>2. DOMAIN N = ids /\ N \in [DOMAIN N -> Node]
  <2>1. N = [n \in ids |-> N[n]]
    OBVIOUS
  <2> HIDE DEF N
  <2> QED BY <1>1, <2>1
<1>3. IsEdges(E) /\ DOMAIN E = Arcs(b) \cup Arcs(o)
  BY GraphParts, UnionTypes DEF Arcs
<1>4. h = [nodes |-> N, edges |-> E]
  <2> DEFINE B == Rebuild(b).edges
             F == [p \in Arcs(b) \cup Arcs(o) |->
                     IF p \in Arcs(o) THEN MergedEdge(B, p, o.edges[p]) ELSE B[p]]
  <2>1. h = [nodes |-> N, edges |-> F]
    BY DEF Merged
  <2>2. B = b.edges /\ IsEdges(B) /\ DOMAIN B = Arcs(b)
    BY RebuildGraph, GraphParts DEF Arcs
  <2>3. IsEdges(o.edges) /\ DOMAIN o.edges = Arcs(o)
    BY GraphParts DEF Arcs
  <2>4. E = [p \in Arcs(b) \cup Arcs(o) |->
               IF p \notin Arcs(o) THEN b.edges[p]
               ELSE IF p \notin Arcs(b) THEN o.edges[p]
               ELSE MergeEdges(b.edges[p], o.edges[p])]
    BY DEF Union, Arcs
  <2> HIDE DEF N, E, B
  <2>5. ASSUME NEW p \in Arcs(o)
        PROVE  MergedEdge(B, p, o.edges[p]) =
                  IF p \in Arcs(b) THEN MergeEdges(b.edges[p], o.edges[p]) ELSE o.edges[p]
    <3>1. o.edges[p] \in Edge /\ o.edges[p].first <= o.edges[p].last /\ p \in Pairs
      BY <2>3, <2>5 DEF IsEdges
    <3> QED BY <2>2, <3>1, CorrectedEdge
  <2>6. E = F
    BY <2>2, <2>4, <2>5
  <2> QED BY <2>1, <2>6
<1>5. ids \subseteq NodeIds
  BY DEF IsGraph
<1> HIDE DEF N, E
<1>6. IsGraph(h) /\ h.edges = E /\ Ids(h) = ids /\ Arcs(h) = DOMAIN E
  BY <1>2, <1>3, <1>4, <1>5, GraphOf
<1> QED BY <1>3, <1>6 DEF E

(* The empty graph. *)
LEMMA EmptyIsGraph ==
    IsGraph(EmptyGraph) /\ Ids(EmptyGraph) = {} /\ Arcs(EmptyGraph) = {} /\ Closed(EmptyGraph)
BY DEF EmptyGraph, IsGraph, Ids, Arcs, Closed, Ends

(* An empty layer adds nothing to the edges of the other. *)
LEMMA UnionEmpty ==
    ASSUME NEW b, IsEdges(b)
    PROVE  Union(b, EmptyGraph.edges) = b
BY DEF Union, EmptyGraph, IsEdges

-----------------------------------------------------------------------------
(* The inductive invariant. *)

Layers == saving \cup {base, overlay, saved}

StoreInv ==
    /\ TypeOK
    /\ \A g \in Layers : Closed(g)
    /\ OverlayDegreeExact
    /\ ViewEdges \in past
    /\ \A g \in saving \cup {saved} : g.edges \in past

LEMMA InitStore == Init => StoreInv
<1> SUFFICES ASSUME Init PROVE StoreInv
  OBVIOUS
<1>1. TypeOK
  BY EmptyIsGraph, BoundsAssumption DEF Init, TypeOK
<1>2. (\A g \in Layers : Closed(g)) /\ OverlayDegreeExact
  BY EmptyIsGraph DEF Init, Layers, OverlayDegreeExact
<1>3. ViewEdges \in past /\ saved.edges = ViewEdges
  <2>1. IsEdges(EmptyGraph.edges)
    BY EmptyIsGraph, GraphParts
  <2> QED BY <2>1, UnionEmpty DEF Init, ViewEdges
<1> QED BY <1>1, <1>2, <1>3 DEF StoreInv, Init

(* An event keeps the overlay a closed graph with exact degrees. *)
LEMMA AddEventStore ==
    ASSUME StoreInv, NEW p \in Pairs, NEW weight \in Weights, NEW ts \in Times,
           AddEvent(p, weight, ts)
    PROVE  StoreInv'
<1> USE DEF StoreInv, TypeOK
<1>1. weight \in Int /\ ts \in Int
  BY EventsAssumption
<1>2. IsGraph(overlay) /\ Closed(overlay)
  BY DEF Layers
<1>3. /\ IsGraph(overlay')
      /\ Ids(overlay') = Ids(overlay) \cup {p[1], p[2]}
      /\ Arcs(overlay') = Arcs(overlay) \cup {p}
      /\ \A n \in Ids(overlay') :
            overlay'.nodes[n].degree = NodeIn(overlay, n, ts).degree + More(overlay, p, n)
  BY <1>1, <1>2, EventGraph DEF AddEvent
<1>4. TypeOK'
  BY <1>1, <1>3, BoundsAssumption DEF AddEvent, Later
<1>5. Closed(overlay')
  BY <1>2, <1>3 DEF Closed, Ends
<1>6. OverlayDegreeExact'
  <2> SUFFICES ASSUME NEW n \in Ids(overlay')
               PROVE  overlay'.nodes[n].degree = Incident(Arcs(overlay'), n)
    BY DEF OverlayDegreeExact
  <2>1. NodeIn(overlay, n, ts).degree = Incident(Arcs(overlay), n)
    <3>1. CASE n \in Ids(overlay)
      BY <3>1 DEF NodeIn, OverlayDegreeExact
    <3>2. CASE n \notin Ids(overlay)
      BY <1>2, <3>2, IncidentNone DEF NodeIn, NewNode, Closed
    <3> QED BY <3>1, <3>2
  <2>2. Incident(Arcs(overlay'), n) = Incident(Arcs(overlay), n) + More(overlay, p, n)
    <3>1. Arcs(overlay') = Arcs(overlay) \cup ({p} \ Arcs(overlay))
      BY <1>3
    <3>2. Arcs(overlay) \in SUBSET Pairs /\ {p} \ Arcs(overlay) \in SUBSET Pairs
      BY <1>2, GraphParts
    <3> QED BY <3>1, <3>2, IncidentAdds DEF More
  <2> QED BY <1>3, <2>1, <2>2
<1>7. /\ (\A g \in Layers' : Closed(g))
      /\ ViewEdges' \in past'
      /\ \A g \in saving' \cup {saved'} : g.edges \in past'
  BY <1>5 DEF AddEvent, Layers
<1> QED BY <1>4, <1>6, <1>7

(* Compact moves the overlay's nodes and edges to the base; what is seen     *)
(* stays the same, and is handed to a Save goroutine.                        *)
LEMMA CompactStore ==
    ASSUME StoreInv, Compact
    PROVE  StoreInv' /\ ViewEdges' = ViewEdges
<1> USE DEF StoreInv, TypeOK
<1>1. IsGraph(base) /\ IsGraph(overlay) /\ Closed(base) /\ Closed(overlay)
  BY DEF Layers
<1>2. /\ IsGraph(base') /\ base'.edges = ViewEdges
      /\ Ids(base') = Ids(base) \cup Ids(overlay)
      /\ Arcs(base') = Arcs(base) \cup Arcs(overlay)
  BY <1>1, MergedGraph DEF Compact, ViewEdges
<1>3. Closed(base')
  BY <1>1, <1>2 DEF Closed, Ends
<1>4. ViewEdges' = ViewEdges
  <2>1. IsEdges(base'.edges)
    BY <1>2, GraphParts
  <2> QED BY <1>2, <2>1, UnionEmpty DEF Compact, ViewEdges
<1>5. TypeOK'
  BY <1>2, EmptyIsGraph, BoundsAssumption DEF Compact
<1>6. (\A g \in Layers' : Closed(g)) /\ OverlayDegreeExact'
  BY <1>3, EmptyIsGraph DEF Compact, Layers, OverlayDegreeExact
<1>7. ViewEdges' \in past' /\ (\A g \in saving' \cup {saved'} : g.edges \in past')
  BY <1>2, <1>4 DEF Compact
<1> QED BY <1>4, <1>5, <1>6, <1>7

LEMMA FinishSaveStore ==
    ASSUME StoreInv, NEW g \in saving, FinishSave(g)
    PROVE  StoreInv' /\ ViewEdges' = ViewEdges
BY DEF StoreInv, TypeOK, FinishSave, Layers, OverlayDegreeExact, ViewEdges

(* A restart shows what storage holds, which has been shown before. *)
LEMMA RestartStore ==
    ASSUME StoreInv, Restart
    PROVE  StoreInv' /\ ViewEdges' \in past
<1> USE DEF StoreInv, TypeOK
<1>1. IsGraph(saved) /\ Closed(saved) /\ saved.edges \in past
  BY DEF Layers
<1>2. /\ IsGraph(base') /\ base'.edges = saved.edges
      /\ Ids(base') = Ids(saved) /\ Arcs(base') = Arcs(saved)
  BY <1>1, RebuildGraph DEF Restart
<1>3. ViewEdges' = saved.edges
  <2>1. IsEdges(base'.edges)
    BY <1>2, GraphParts
  <2> QED BY <1>2, <2>1, UnionEmpty DEF Restart, ViewEdges
<1>4. TypeOK'
  BY <1>2, EmptyIsGraph, BoundsAssumption DEF Restart
<1>5. (\A g \in Layers' : Closed(g)) /\ OverlayDegreeExact'
  BY <1>1, <1>2, EmptyIsGraph DEF Restart, Layers, OverlayDegreeExact, Closed
<1>6. \A g \in saving' \cup {saved'} : g.edges \in past'
  BY DEF Restart
<1> QED BY <1>1, <1>3, <1>4, <1>5, <1>6 DEF Restart

LEMMA StepStore == StoreInv /\ [Next]_vars => StoreInv'
<1> SUFFICES ASSUME StoreInv, [Next]_vars PROVE StoreInv'
  OBVIOUS
<1>1. CASE UNCHANGED vars
  BY <1>1 DEF vars, StoreInv, TypeOK, Layers, OverlayDegreeExact, ViewEdges
<1>2. CASE Next
  BY <1>2, AddEventStore, CompactStore, FinishSaveStore, RestartStore DEF Next
<1> QED BY <1>1, <1>2

LEMMA StoreAlways == Spec => []StoreInv
BY InitStore, StepStore, PTL DEF Spec

(* The layers, and all that is saved, are graphs with sound edges, for any   *)
(* events in any order.                                                      *)
THEOREM TypeCorrect == Spec => []TypeOK
<1>1. StoreInv => TypeOK
  BY DEF StoreInv
<1> QED BY <1>1, StoreAlways, PTL

(* The nodes a snapshot lists are the ends of the edges it lists. *)
THEOREM ViewAlwaysClosed == Spec => []ViewClosed
<1>1. StoreInv => ViewClosed
  <2> SUFFICES ASSUME StoreInv PROVE ViewClosed
    OBVIOUS
  <2>1. Closed(base) /\ Closed(overlay)
    BY DEF StoreInv, Layers
  <2>2. DOMAIN ViewEdges = Arcs(base) \cup Arcs(overlay)
    BY DEF ViewEdges, Union, Arcs
  <2> QED BY <2>1, <2>2 DEF ViewClosed, ViewIds, Closed, Ends
<1> QED BY <1>1, StoreAlways, PTL

(* Degrees are exact in the overlay, whatever was compacted before. *)
THEOREM OverlayDegreesExact == Spec => []OverlayDegreeExact
<1>1. StoreInv => OverlayDegreeExact
  BY DEF StoreInv
<1> QED BY <1>1, StoreAlways, PTL

-----------------------------------------------------------------------------
(* The ledger. *)

(* An event added to the overlay is added to the view. *)
LEMMA EventIsRecorded ==
    ASSUME StoreInv, NEW p \in Pairs, NEW weight \in Weights, NEW ts \in Times,
           AddEvent(p, weight, ts)
    PROVE  Ledger!Record(p, weight, ts)
<1> DEFINE B == base.edges
           O == overlay.edges
           X == One(p, weight, ts)
           L == [q \in DOMAIN ViewEdges \cup {p} |->
                    IF q # p THEN ViewEdges[q]
                    ELSE IF p \in DOMAIN ViewEdges
                         THEN Ledger!Counted(ViewEdges[p], weight, ts)
                    ELSE Ledger!Fresh(weight, ts)]
<1>1. weight \in Int /\ ts \in Int
  BY EventsAssumption
<1>2. IsGraph(base) /\ IsGraph(overlay)
  BY DEF StoreInv, TypeOK
<1>3. IsEdges(B) /\ IsEdges(O)
  BY <1>2, GraphParts
<1>4. DOMAIN X = {p} /\ X[p] = NewEdge(weight, ts) /\ NewEdge(weight, ts) \in Edge
  BY <1>1, FreshEdge DEF One
<1>5. ViewEdges' = Union(B, Union(O, X))
  <2>1. overlay' = WithEvent(overlay, p, weight, ts)
    BY DEF AddEvent
  <2>2. overlay'.edges = Union(O, X)
    BY <1>1, <1>2, <2>1, EventGraph
  <2> QED BY <2>2 DEF AddEvent, ViewEdges
<1>6. ViewEdges = Union(B, O) /\ DOMAIN ViewEdges = DOMAIN B \cup DOMAIN O
  BY DEF ViewEdges, Union
<1>7. DOMAIN Union(O, X) = DOMAIN O \cup {p}
  BY <1>4 DEF Union
<1>8. DOMAIN Union(B, Union(O, X)) = DOMAIN L
  BY <1>6, <1>7 DEF Union
<1> HIDE DEF B, O, X
<1>9. ASSUME NEW q \in DOMAIN L PROVE Union(B, Union(O, X))[q] = L[q]
  <2>1. CASE q # p
    <3>1. q \in DOMAIN O => Union(O, X)[q] = O[q]
      BY <1>4, <2>1 DEF Union
    <3>2. q \in DOMAIN Union(O, X) <=> q \in DOMAIN O
      BY <1>7, <2>1
    <3>3. Union(B, Union(O, X))[q] = Union(B, O)[q]
      BY <1>6, <2>1, <3>1, <3>2, <1>9 DEF Union
    <3> QED BY <1>6, <2>1, <3>3
  <2>2. CASE q = p /\ p \notin DOMAIN O
    <3>1. Union(O, X)[p] = NewEdge(weight, ts) /\ p \in DOMAIN Union(O, X)
      BY <1>4, <1>7, <2>2 DEF Union
    <3>2. CASE p \in DOMAIN B
      <4>1. Union(B, Union(O, X))[p] = MergeEdges(B[p], NewEdge(weight, ts))
        BY <3>1, <3>2 DEF Union
      <4>2. ViewEdges[p] = B[p] /\ B[p] \in Edge /\ p \in DOMAIN ViewEdges
        BY <1>3, <1>6, <2>2, <3>2 DEF Union, IsEdges
      <4> QED BY <1>1, <2>2, <4>1, <4>2, MergeOne
    <3>3. CASE p \notin DOMAIN B
      <4>1. Union(B, Union(O, X))[p] = NewEdge(weight, ts)
        BY <3>1, <3>3 DEF Union
      <4>2. p \notin DOMAIN ViewEdges
        BY <1>6, <2>2, <3>3
      <4> QED BY <1>1, <2>2, <4>1, <4>2, FreshEdge
    <3> QED BY <3>2, <3>3
  <2>3. CASE q = p /\ p \in DOMAIN O
    <3>1. Union(O, X)[p] = MergeEdges(O[p], NewEdge(weight, ts)) /\ p \in DOMAIN Union(O, X)
      BY <1>4, <1>7, <2>3 DEF Union
    <3>2. O[p] \in Edge /\ p \in DOMAIN ViewEdges
      BY <1>3, <1>6, <2>3 DEF IsEdges
    <3>3. CASE p \in DOMAIN B
      <4>1. Union(B, Union(O, X))[p] = MergeEdges(B[p], MergeEdges(O[p], NewEdge(weight, ts)))
        BY <3>1, <3>3 DEF Union
      <4>2. ViewEdges[p] = MergeEdges(B[p], O[p]) /\ B[p] \in Edge
        BY <1>3, <1>6, <2>3, <3>3 DEF Union, IsEdges
      <4>3. MergeEdges(B[p], O[p]) \in Edge
        BY <1>3, <2>3, <3>2, <3>3, <4>2, MergeTypes DEF IsEdges
      <4>4. Union(B, Union(O, X))[p] = MergeEdges(ViewEdges[p], NewEdge(weight, ts))
        BY <1>4, <3>2, <4>1, <4>2, MergeAssociative
      <4> QED BY <1>1, <2>3, <3>2, <4>2, <4>3, <4>4, MergeOne
    <3>4. CASE p \notin DOMAIN B
      <4>1. Union(B, Union(O, X))[p] = MergeEdges(O[p], NewEdge(weight, ts))
        BY <3>1, <3>4 DEF Union
      <4>2. ViewEdges[p] = O[p]
        BY <1>6, <2>3, <3>4 DEF Union
      <4> QED BY <1>1, <2>3, <3>2, <4>1, <4>2, MergeOne
    <3> QED BY <3>3, <3>4
  <2> QED BY <2>1, <2>2, <2>3
<1>10. Union(B, Union(O, X)) = L
  <2>1. Union(B, Union(O, X)) = [q \in DOMAIN L |-> Union(B, Union(O, X))[q]]
    BY <1>8 DEF Union
  <2>2. L = [q \in DOMAIN L |-> L[q]]
    OBVIOUS
  <2> HIDE DEF L
  <2> QED BY <1>9, <2>1, <2>2
<1>11. ViewEdges' = L
  BY <1>5, <1>10
<1>12. past' = past \cup {ViewEdges'}
  BY DEF AddEvent
<1> QED BY <1>11, <1>12 DEF Ledger!Record

(* For any events, compactions, saves and restarts, the edges of the view    *)
(* are those of one graph that is never compacted.                           *)
THEOREM StoreImplementsLedger == Spec => ImplementsEdgeLedger
<1>1. Init => Ledger!Init
  <2> SUFFICES ASSUME Init PROVE Ledger!Init
    OBVIOUS
  <2>1. ViewEdges = [p \in {} |-> Ledger!Fresh(0, 0)]
    BY DEF Init, ViewEdges, Union, EmptyGraph
  <2> QED BY <2>1 DEF Init, Ledger!Init
<1>2. StoreInv /\ [Next]_vars => [Ledger!Next]_<<ViewEdges, past>>
  <2> SUFFICES ASSUME StoreInv, [Next]_vars PROVE [Ledger!Next]_<<ViewEdges, past>>
    OBVIOUS
  <2>1. CASE UNCHANGED vars
    BY <2>1 DEF vars, ViewEdges
  <2>2. ASSUME NEW p \in Pairs, NEW weight \in Weights, NEW ts \in Times,
               AddEvent(p, weight, ts)
        PROVE  Ledger!Next
    BY <2>2, EventIsRecorded DEF Ledger!Next
  <2>3. CASE Compact
    BY <2>3, CompactStore DEF Compact
  <2>4. ASSUME NEW g \in saving, FinishSave(g)
        PROVE  UNCHANGED <<ViewEdges, past>>
    BY <2>4, FinishSaveStore DEF FinishSave
  <2>5. CASE Restart
    BY <2>5, RestartStore DEF Restart, Ledger!Next, Ledger!Revert
  <2> QED BY <2>1, <2>2, <2>3, <2>4, <2>5 DEF Next
<1> QED BY <1>1, <1>2, StoreAlways, PTL DEF Spec, ImplementsEdgeLedger, Ledger!Spec

-----------------------------------------------------------------------------
(* When nodes were last seen. *)

(* The time a node was last seen is that of the latest of its edges. *)
AtEnd(f, n) == {p \in DOMAIN f : n \in {p[1], p[2]}}
Latest(f, n, t) ==
    /\ \E p \in AtEnd(f, n) : f[p].last = t
    /\ \A p \in AtEnd(f, n) : f[p].last <= t

Timely(g) == \A n \in Ids(g) : Latest(g.edges, n, g.nodes[n].last)

(* No edge of a first map was seen after one of a second. *)
NoLater(b, o) == \A p \in DOMAIN b, q \in DOMAIN o : b[p].last <= o[q].last

(* The last time of an edge of a union. *)
LEMMA UnionLast ==
    ASSUME NEW b, NEW o, IsEdges(b), IsEdges(o), NoLater(b, o), NEW p \in DOMAIN Union(b, o)
    PROVE  /\ p \in DOMAIN o => Union(b, o)[p].last = o[p].last
           /\ p \notin DOMAIN o => Union(b, o)[p].last = b[p].last
<1>1. CASE p \notin DOMAIN o
  BY <1>1 DEF Union
<1>2. CASE p \in DOMAIN o /\ p \notin DOMAIN b
  BY <1>2 DEF Union
<1>3. CASE p \in DOMAIN o /\ p \in DOMAIN b
  <2>1. Union(b, o)[p].last = Later(b[p].last, o[p].last)
    BY <1>3 DEF Union, MergeEdges
  <2>2. b[p].last \in Int /\ o[p].last \in Int /\ b[p].last <= o[p].last
    BY <1>3 DEF IsEdges, Edge, NoLater
  <2> QED BY <1>3, <2>1, <2>2 DEF Later
<1> QED BY <1>1, <1>2, <1>3

(* Where the second of two graphs is the later one, the last times of its    *)
(* nodes, and those of the first graph's others, are those of both's edges.  *)
LEMMA UnionTimely ==
    ASSUME NEW b, NEW o, IsGraph(b), IsGraph(o), Closed(b), Closed(o),
           Timely(b), Timely(o), NoLater(b.edges, o.edges), NEW n \in Ids(b) \cup Ids(o)
    PROVE  Latest(Union(b.edges, o.edges), n,
                  IF n \in Ids(o) THEN o.nodes[n].last ELSE b.nodes[n].last)
<1> DEFINE B == b.edges
           O == o.edges
           U == Union(B, O)
<1>1. IsEdges(B) /\ IsEdges(O) /\ DOMAIN U = DOMAIN B \cup DOMAIN O
  BY GraphParts, UnionTypes
<1>2. ASSUME NEW p \in DOMAIN U
      PROVE  /\ p \in DOMAIN O => U[p].last = O[p].last
             /\ p \notin DOMAIN O => U[p].last = B[p].last
  BY <1>1, <1>2, UnionLast
<1>3. CASE n \in Ids(o)
  <2>1. PICK q \in AtEnd(O, n) : O[q].last = o.nodes[n].last
    BY <1>3 DEF Timely, Latest
  <2>2. \A p \in AtEnd(O, n) : O[p].last <= o.nodes[n].last
    BY <1>3 DEF Timely, Latest
  <2>3. \A p \in DOMAIN B : B[p].last <= o.nodes[n].last
    BY <2>1 DEF AtEnd, NoLater
  <2> HIDE DEF B, O, U
  <2>4. q \in AtEnd(U, n) /\ U[q].last = o.nodes[n].last
    BY <1>1, <1>2, <2>1 DEF AtEnd
  <2>5. ASSUME NEW p \in AtEnd(U, n) PROVE U[p].last <= o.nodes[n].last
    <3>1. CASE p \in DOMAIN O
      BY <1>2, <2>2, <3>1, <2>5 DEF AtEnd
    <3>2. CASE p \notin DOMAIN O
      BY <1>1, <1>2, <2>3, <3>2, <2>5 DEF AtEnd
    <3> QED BY <3>1, <3>2
  <2>6. Latest(U, n, o.nodes[n].last)
    BY <2>4, <2>5 DEF Latest
  <2> QED BY <1>3, <2>6 DEF U, B, O
<1>4. CASE n \notin Ids(o)
  <2>1. n \in Ids(b)
    BY <1>4
  <2>2. AtEnd(O, n) = {}
    BY <1>4 DEF AtEnd, Closed, Ends, Arcs
  <2>3. /\ \E p \in AtEnd(B, n) : B[p].last = b.nodes[n].last
        /\ \A p \in AtEnd(B, n) : B[p].last <= b.nodes[n].last
    BY <2>1 DEF Timely, Latest
  <2> HIDE DEF B, O, U
  <2>4. AtEnd(U, n) = AtEnd(B, n)
    BY <1>1, <2>2 DEF AtEnd
  <2>5. \A p \in AtEnd(U, n) : U[p].last = B[p].last
    BY <1>2, <2>2 DEF AtEnd
  <2>6. Latest(U, n, b.nodes[n].last)
    BY <2>3, <2>4, <2>5 DEF Latest
  <2> QED BY <1>4, <2>6 DEF U, B, O
<1> QED BY <1>3, <1>4

(* What raising and widening do to a node's last time. *)
LEMMA LastChanges ==
    ASSUME NEW node \in Node, NEW k \in Nat, NEW ts \in Int
    PROVE  /\ Raised(node, k).last = node.last
           /\ Widened(node, ts).last = Later(ts, node.last)
           /\ [node EXCEPT !.last = ts].last = ts
           /\ [node EXCEPT !.degree = 0].last = node.last
<1>1. Raised(node, k).last = node.last
  BY DEF Raised, Node
<1>2. Widened(node, ts).last = Later(ts, node.last)
  BY DEF Widened, Node
<1>3. [node EXCEPT !.last = ts].last = ts
  BY DEF Node
<1>4. [node EXCEPT !.degree = 0].last = node.last
  BY DEF Node
<1> QED BY <1>1, <1>2, <1>3, <1>4

(* The last times of an overlay's nodes after an event. *)
LEMMA EventNodeLast ==
    ASSUME NEW g, IsGraph(g), NEW p \in Pairs, NEW weight \in Int, NEW ts \in Int,
           NEW h, h = WithEvent(g, p, weight, ts), NEW n \in Ids(g) \cup {p[1], p[2]}
    PROVE  h.nodes[n].last = IF n \in {p[1], p[2]} THEN Later(ts, NodeIn(g, n, ts).last)
                             ELSE g.nodes[n].last
<1> DEFINE ids == Ids(g) \cup {p[1], p[2]}
           N == [m \in ids |-> Raised(NodeIn(g, m, ts), More(g, p, m))]
           M == [m \in ids |-> IF m \in {p[1], p[2]} THEN Widened(N[m], ts) ELSE N[m]]
           E == Union(g.edges, One(p, weight, ts))
<1>1. h.nodes = M
  <2>1. AddEdge(g, p, weight, ts) = [nodes |-> N, edges |-> E]
    <3>1. IsEdges(g.edges)
      BY GraphParts
    <3>2. E = WithEdge(g.edges, p, weight, ts)
      BY <3>1, AddedIsUnion
    <3> HIDE DEF E
    <3> QED BY <3>2 DEF WithEdge, Arcs, AddEdge, More
  <2> HIDE DEF N, E
  <2>2. Ids([nodes |-> N, edges |-> E]) = ids
    BY DEF N, Ids
  <2> QED BY <2>1, <2>2 DEF WithEvent
<1>2. More(g, p, n) \in Nat
  BY IncidentTypes DEF More
<1>3. NodeIn(g, n, ts) \in Node
  BY GraphParts DEF NodeIn, NewNode, Node
<1>4. N[n] = Raised(NodeIn(g, n, ts), More(g, p, n))
  OBVIOUS
<1>5. M[n] = IF n \in {p[1], p[2]} THEN Widened(N[n], ts) ELSE N[n]
  OBVIOUS
<1> HIDE DEF N, M
<1>6. N[n] \in Node /\ N[n].last = NodeIn(g, n, ts).last
  <2> DEFINE node == NodeIn(g, n, ts)
             k == More(g, p, n)
  <2>1. node \in Node /\ k \in Nat /\ N[n] = Raised(node, k)
    BY <1>2, <1>3, <1>4
  <2> HIDE DEF node, k
  <2>2. Raised(node, k) \in Node
    BY <2>1, NodeChanges
  <2>3. Raised(node, k).last = node.last
    BY <2>1, LastChanges
  <2> QED BY <2>1, <2>2, <2>3 DEF node
<1>7. CASE n \in {p[1], p[2]}
  <2>1. M[n].last = Later(ts, N[n].last)
    BY <1>5, <1>6, <1>7, LastChanges, 0 \in Nat
  <2> QED BY <1>1, <1>6, <1>7, <2>1
<1>8. CASE n \notin {p[1], p[2]}
  <2>1. NodeIn(g, n, ts) = g.nodes[n]
    BY <1>8 DEF NodeIn
  <2> QED BY <1>1, <1>5, <1>6, <1>8, <2>1
<1> QED BY <1>7, <1>8

(* A graph rebuilt, and the merge of a graph with a later one, keep the last *)
(* times of nodes.                                                           *)
LEMMA RebuildLast ==
    ASSUME NEW g, IsGraph(g), NEW n \in Ids(g)
    PROVE  Rebuild(g).nodes[n] \in Node /\ Rebuild(g).nodes[n].last = g.nodes[n].last
<1>1. g.nodes[n] \in Node /\ Incident(Arcs(g), n) \in Nat
  BY GraphParts, IncidentTypes
<1>2. Rebuild(g).nodes[n] = Raised(g.nodes[n], Incident(Arcs(g), n))
  BY DEF Rebuild
<1>3. \A k \in Nat : /\ Raised(g.nodes[n], k) \in Node
                     /\ Raised(g.nodes[n], k).last = g.nodes[n].last
  BY <1>1, NodeChanges, LastChanges, 0 \in Int
<1> QED BY <1>1, <1>2, <1>3

LEMMA MergedNodeLast ==
    ASSUME NEW b, NEW o, IsGraph(b), IsGraph(o), NEW h, h = Merged(b, o),
           NEW n \in Ids(b) \cup Ids(o)
    PROVE  h.nodes[n].last = IF n \in Ids(o) THEN o.nodes[n].last ELSE b.nodes[n].last
<1> DEFINE k == Incident(Arcs(o) \ Arcs(b), n)
           c == CompactNode(b, o, n)
<1>1. k \in Nat
  <2>1. Arcs(o) \ Arcs(b) \in SUBSET Pairs
    BY GraphParts
  <2> QED BY <2>1, IncidentTypes
<1>2. h.nodes[n] = Raised(c, k)
  BY DEF Merged
<1> HIDE DEF k
<1>3. c \in Node /\ c.last = IF n \in Ids(o) THEN o.nodes[n].last ELSE b.nodes[n].last
  <2>1. CASE n \notin Ids(o)
    BY <2>1, RebuildLast DEF CompactNode
  <2>2. CASE n \in Ids(o) /\ n \notin Ids(b)
    <3>1. o.nodes[n] \in Node
      BY <2>2, GraphParts
    <3> QED BY <2>2, <3>1, NodeChanges, LastChanges, 0 \in Nat, 0 \in Int DEF CompactNode
  <2>3. CASE n \in Ids(o) /\ n \in Ids(b)
    <3>1. o.nodes[n].last \in Int
      BY <2>3, GraphParts DEF Node
    <3>2. Rebuild(b).nodes[n] \in Node
      BY <2>3, RebuildLast
    <3>3. c = [Rebuild(b).nodes[n] EXCEPT !.last = o.nodes[n].last]
      BY <2>3 DEF CompactNode
    <3> HIDE DEF c
    <3>4. c \in Node
      BY <3>1, <3>2, <3>3, NodeChanges, 0 \in Nat
    <3>5. c.last = o.nodes[n].last
      BY <3>1, <3>2, <3>3, LastChanges, 0 \in Nat
    <3> QED BY <2>3, <3>4, <3>5
  <2> QED BY <2>1, <2>2, <2>3
<1> HIDE DEF c
<1> QED BY <1>1, <1>2, <1>3, LastChanges, 0 \in Int

(* The inductive invariant: while timestamps arrive in order, every layer's  *)
(* nodes have the last times of their edges, no edge was seen after the      *)
(* clock, and none of the base after one of the overlay.                     *)
Behind(g) == \A p \in Arcs(g) : added > 0 /\ g.edges[p].last <= clock

SeenInv ==
    ordered =>
        /\ \A g \in Layers : Timely(g) /\ Behind(g)
        /\ NoLater(base.edges, overlay.edges)

LEMMA EmptySeen ==
    /\ Timely(EmptyGraph) /\ Arcs(EmptyGraph) = {}
    /\ \A f : NoLater(f, EmptyGraph.edges)
BY DEF EmptyGraph, Timely, Ids, Arcs, NoLater

LEMMA InitSeen == Init => SeenInv
BY EmptySeen DEF Init, SeenInv, Layers, Behind

(* An event in order is the latest of its edge, and of both its ends.        *)
LEMMA AddEventSeen ==
    ASSUME StoreInv, SeenInv, NEW p \in Pairs, NEW weight \in Weights, NEW ts \in Times,
           AddEvent(p, weight, ts)
    PROVE  SeenInv'
<1> SUFFICES ASSUME ordered' PROVE SeenInv'
  BY DEF SeenInv
<1> DEFINE O == overlay.edges
           X == One(p, weight, ts)
           g == overlay
           h == overlay'
<1>1. weight \in Int /\ ts \in Int /\ clock \in Int /\ added \in Nat
  BY EventsAssumption DEF StoreInv, TypeOK
<1>2. ordered /\ (added = 0 \/ clock <= ts) /\ clock' = ts /\ added' = added + 1
  <2>1. ordered /\ (added = 0 \/ clock <= ts)
    BY Zenon DEF AddEvent
  <2>2. clock' = IF added = 0 THEN ts ELSE Later(clock, ts)
    BY DEF AddEvent
  <2>3. clock' = ts
    BY <1>1, <2>1, <2>2 DEF Later
  <2> QED BY <2>1, <2>3 DEF AddEvent
<1>3. /\ \A l \in Layers : Timely(l) /\ Behind(l)
      /\ NoLater(base.edges, O)
  BY <1>2 DEF SeenInv
<1>4. \A l \in Layers : IsGraph(l) /\ Closed(l)
  BY DEF StoreInv, TypeOK, Layers
<1>5. overlay \in Layers /\ base \in Layers /\ h = WithEvent(g, p, weight, ts)
  BY DEF Layers, AddEvent
<1>6. ASSUME NEW l \in Layers, NEW q \in Arcs(l)
      PROVE  l.edges[q].last \in Int /\ l.edges[q].last <= ts
  <2>1. l.edges[q].last \in Int
    BY <1>4, <1>6, GraphParts DEF IsEdges, Edge, Arcs
  <2>2. added > 0 /\ l.edges[q].last <= clock
    BY <1>3, <1>6 DEF Behind
  <2> QED BY <1>1, <1>2, <2>1, <2>2
<1>7. /\ Ids(h) = Ids(g) \cup {p[1], p[2]}
      /\ Arcs(h) = Arcs(g) \cup {p}
      /\ h.edges = Union(O, X)
  BY <1>1, <1>4, <1>5, EventGraph
<1>8. ASSUME NEW q \in Arcs(h)
      PROVE  h.edges[q].last = IF q = p THEN ts ELSE O[q].last
  <2>1. IsEdges(O) /\ DOMAIN O = Arcs(g)
    BY <1>4, <1>5, GraphParts DEF Arcs
  <2>2. IsEdges(X) /\ DOMAIN X = {p} /\ X[p].last = ts
    BY <1>1 DEF One, IsEdges, NewEdge, Edge
  <2>3. NoLater(O, X)
    BY <1>5, <1>6, <2>1, <2>2 DEF NoLater
  <2>4. DOMAIN Union(O, X) = Arcs(h)
    BY <1>7 DEF Arcs
  <2> HIDE DEF O, X
  <2> QED BY <1>7, <1>8, <2>1, <2>2, <2>3, <2>4, UnionLast
<1>9. ASSUME NEW n \in Ids(h)
      PROVE  h.nodes[n].last = IF n \in {p[1], p[2]} THEN ts ELSE g.nodes[n].last
  <2>1. h.nodes[n].last = IF n \in {p[1], p[2]} THEN Later(ts, NodeIn(g, n, ts).last)
                          ELSE g.nodes[n].last
    BY <1>1, <1>4, <1>5, <1>7, <1>9, EventNodeLast
  <2>2. NodeIn(g, n, ts).last \in Int /\ NodeIn(g, n, ts).last <= ts
    <3>1. CASE n \in Ids(g)
      <4>1. PICK q \in AtEnd(O, n) : O[q].last = g.nodes[n].last
        BY <1>3, <1>5, <3>1 DEF Timely, Latest
      <4>2. q \in Arcs(g)
        BY DEF AtEnd, Arcs
      <4> QED BY <1>5, <1>6, <3>1, <4>1, <4>2 DEF NodeIn
    <3>2. CASE n \notin Ids(g)
      BY <1>1, <3>2 DEF NodeIn, NewNode
    <3> QED BY <3>1, <3>2
  <2>3. Later(ts, NodeIn(g, n, ts).last) = ts
    BY <1>1, <2>2 DEF Later
  <2> QED BY <2>1, <2>3
<1> HIDE DEF O, X, g, h
<1>10. Timely(h)
  <2> SUFFICES ASSUME NEW n \in Ids(h) PROVE Latest(h.edges, n, h.nodes[n].last)
    BY DEF Timely
  <2>0. \A q \in AtEnd(h.edges, n) : q \in Arcs(h)
    BY DEF AtEnd, Arcs
  <2>1. CASE n \in {p[1], p[2]}
    <3>1. h.nodes[n].last = ts
      BY <1>9, <2>1
    <3>2. p \in AtEnd(h.edges, n) /\ h.edges[p].last = ts
      BY <1>7, <1>8, <2>1 DEF AtEnd, Arcs
    <3>3. ASSUME NEW q \in AtEnd(h.edges, n) PROVE h.edges[q].last <= ts
      <4>1. CASE q = p
        BY <1>1, <3>2, <4>1
      <4>2. CASE q # p
        BY <1>5, <1>6, <1>7, <1>8, <2>0, <3>3, <4>2 DEF O, g
      <4> QED BY <4>1, <4>2
    <3> QED BY <3>1, <3>2, <3>3 DEF Latest
  <2>2. CASE n \notin {p[1], p[2]}
    <3>1. h.nodes[n].last = g.nodes[n].last /\ n \in Ids(g)
      BY <1>7, <1>9, <2>2
    <3>2. Latest(O, n, g.nodes[n].last)
      BY <1>3, <1>5, <3>1 DEF Timely, O, g
    <3>3. AtEnd(h.edges, n) = AtEnd(O, n)
      BY <1>7, <2>2 DEF AtEnd, Arcs, O, g
    <3>4. \A q \in AtEnd(O, n) : h.edges[q].last = O[q].last
      BY <1>8, <2>0, <2>2, <3>3 DEF AtEnd
    <3> QED BY <3>1, <3>2, <3>3, <3>4 DEF Latest
  <2> QED BY <2>1, <2>2
<1>11. ASSUME NEW l \in Layers PROVE Behind(l)'
  BY <1>1, <1>2, <1>6, <1>11 DEF Behind
<1>12. \A q \in Arcs(h) : h.edges[q].last <= ts
  <2> SUFFICES ASSUME NEW q \in Arcs(h) PROVE h.edges[q].last <= ts
    OBVIOUS
  <2>1. CASE q = p
    BY <1>1, <1>8, <2>1
  <2>2. CASE q # p
    BY <1>5, <1>6, <1>7, <1>8, <2>2 DEF O, g
  <2> QED BY <2>1, <2>2
<1>13. \A q \in Arcs(h) : added' > 0 /\ h.edges[q].last <= clock'
  BY <1>1, <1>2, <1>12
<1>14. NoLater(base.edges, h.edges)
  <2> SUFFICES ASSUME NEW q \in DOMAIN base.edges, NEW s \in DOMAIN h.edges
               PROVE  base.edges[q].last <= h.edges[s].last
    BY DEF NoLater
  <2>1. q \in Arcs(base) /\ s \in Arcs(h)
    BY DEF Arcs
  <2>2. CASE s = p
    BY <1>5, <1>6, <1>8, <2>1, <2>2
  <2>3. CASE s # p
    BY <1>3, <1>7, <1>8, <2>1, <2>3 DEF NoLater, O, g, Arcs
  <2> QED BY <2>2, <2>3
<1>15. Layers' \subseteq Layers \cup {h} /\ base' = base
  BY DEF AddEvent, Layers, h
<1>16. \A l \in Layers' : Timely(l) /\ Behind(l)'
  BY <1>3, <1>10, <1>11, <1>13, <1>15 DEF Behind
<1> QED BY <1>14, <1>15, <1>16 DEF SeenInv, h

(* The merge of the layers has the last times the view has shown. *)
LEMMA CompactSeen ==
    ASSUME StoreInv, SeenInv, Compact
    PROVE  SeenInv'
<1> SUFFICES ASSUME ordered' PROVE SeenInv'
  BY DEF SeenInv
<1>1. ordered /\ UNCHANGED <<saved, added, clock>>
  BY DEF Compact
<1>2. /\ \A l \in Layers : Timely(l) /\ Behind(l)
      /\ NoLater(base.edges, overlay.edges)
  BY <1>1 DEF SeenInv
<1>3. \A l \in Layers : IsGraph(l) /\ Closed(l)
  BY DEF StoreInv, TypeOK, Layers
<1>4. base \in Layers /\ overlay \in Layers /\ base' = Merged(base, overlay)
  BY DEF Layers, Compact
<1>5. /\ Ids(base') = Ids(base) \cup Ids(overlay)
      /\ Arcs(base') = Arcs(base) \cup Arcs(overlay)
      /\ base'.edges = Union(base.edges, overlay.edges)
  BY <1>3, <1>4, MergedGraph
<1>6. Timely(base')
  <2> SUFFICES ASSUME NEW n \in Ids(base') PROVE Latest(base'.edges, n, base'.nodes[n].last)
    BY DEF Timely
  <2>1. base'.nodes[n].last = IF n \in Ids(overlay) THEN overlay.nodes[n].last
                              ELSE base.nodes[n].last
    BY <1>3, <1>4, <1>5, MergedNodeLast
  <2>2. Latest(Union(base.edges, overlay.edges), n,
               IF n \in Ids(overlay) THEN overlay.nodes[n].last ELSE base.nodes[n].last)
    BY <1>2, <1>3, <1>4, <1>5, UnionTimely
  <2> QED BY <1>5, <2>1, <2>2
<1>7. \A p \in Arcs(base') : added > 0 /\ base'.edges[p].last <= clock
  <2> SUFFICES ASSUME NEW p \in Arcs(base')
               PROVE  added > 0 /\ base'.edges[p].last <= clock
    OBVIOUS
  <2>1. IsEdges(base.edges) /\ IsEdges(overlay.edges)
    BY <1>3, <1>4, GraphParts
  <2>2. p \in DOMAIN Union(base.edges, overlay.edges)
    BY <1>5 DEF Arcs
  <2>3. CASE p \in Arcs(overlay)
    BY <1>2, <1>4, <1>5, <2>1, <2>2, <2>3, UnionLast DEF Behind, Arcs
  <2>4. CASE p \notin Arcs(overlay)
    BY <1>2, <1>4, <1>5, <2>1, <2>2, <2>4, UnionLast DEF Behind, Arcs
  <2> QED BY <2>3, <2>4
<1>8. Layers' \subseteq Layers \cup {base', EmptyGraph} /\ overlay' = EmptyGraph
  BY DEF Compact, Layers
<1>9. \A l \in Layers' : Timely(l) /\ Behind(l)
  BY <1>2, <1>6, <1>7, <1>8, EmptySeen DEF Behind
<1>10. \A l \in Layers' : Timely(l) /\ Behind(l)'
  BY <1>1, <1>9 DEF Behind
<1> QED BY <1>8, <1>10, EmptySeen DEF SeenInv

LEMMA FinishSaveSeen ==
    ASSUME SeenInv, NEW g \in saving, FinishSave(g)
    PROVE  SeenInv'
BY DEF SeenInv, FinishSave, Layers, Behind

(* A restart may lose saves, and keeps the last times of what storage holds. *)
LEMMA RestartSeen ==
    ASSUME StoreInv, SeenInv, Restart
    PROVE  SeenInv'
<1> SUFFICES ASSUME ordered' PROVE SeenInv'
  BY DEF SeenInv
<1>1. ordered /\ UNCHANGED <<saved, added, clock>>
  BY DEF Restart
<1>2. \A l \in Layers : Timely(l) /\ Behind(l)
  BY <1>1 DEF SeenInv
<1>3. IsGraph(saved) /\ saved \in Layers /\ base' = Rebuild(saved)
  BY DEF StoreInv, TypeOK, Layers, Restart
<1>4. base'.edges = saved.edges /\ Ids(base') = Ids(saved) /\ Arcs(base') = Arcs(saved)
  BY <1>3, RebuildGraph
<1>5. Timely(base')
  BY <1>2, <1>3, <1>4, RebuildLast DEF Timely
<1>6. \A p \in Arcs(base') : added > 0 /\ base'.edges[p].last <= clock
  BY <1>2, <1>3, <1>4 DEF Behind
<1>7. Layers' \subseteq Layers \cup {base', EmptyGraph} /\ overlay' = EmptyGraph
  BY DEF Restart, Layers
<1>8. \A l \in Layers' : Timely(l) /\ Behind(l)
  BY <1>2, <1>5, <1>6, <1>7, EmptySeen DEF Behind
<1>9. \A l \in Layers' : Timely(l) /\ Behind(l)'
  BY <1>1, <1>8 DEF Behind
<1> QED BY <1>7, <1>9, EmptySeen DEF SeenInv

LEMMA StepSeen == StoreInv /\ SeenInv /\ [Next]_vars => SeenInv'
<1> SUFFICES ASSUME StoreInv, SeenInv, [Next]_vars PROVE SeenInv'
  OBVIOUS
<1>1. CASE UNCHANGED vars
  BY <1>1 DEF vars, SeenInv, Layers, Behind
<1>2. CASE Next
  BY <1>2, AddEventSeen, CompactSeen, FinishSaveSeen, RestartSeen DEF Next
<1> QED BY <1>1, <1>2

(* While timestamps arrive in order, the view gives every node the last time *)
(* of its latest edge, whichever layers the two are in, and after any number *)
(* of compactions, lost saves and restarts.                                  *)
THEOREM LastSeenAlwaysExact == Spec => []LastSeenExact
<1>1. StoreInv /\ SeenInv => LastSeenExact
  <2> SUFFICES ASSUME StoreInv, SeenInv, ordered, NEW n \in ViewIds
               PROVE  LET times == {ViewEdges[p].last :
                                       p \in {q \in DOMAIN ViewEdges : n \in {q[1], q[2]}}}
                      IN  /\ ViewNode(n).last \in times
                          /\ \A t \in times : t <= ViewNode(n).last
    BY DEF LastSeenExact
  <2>1. /\ Timely(base) /\ Timely(overlay) /\ NoLater(base.edges, overlay.edges)
        /\ IsGraph(base) /\ IsGraph(overlay) /\ Closed(base) /\ Closed(overlay)
    BY DEF StoreInv, SeenInv, TypeOK, Layers
  <2>2. Latest(Union(base.edges, overlay.edges), n,
               IF n \in Ids(overlay) THEN overlay.nodes[n].last ELSE base.nodes[n].last)
    BY <2>1, UnionTimely DEF ViewIds
  <2>3. ViewNode(n).last = IF n \in Ids(overlay) THEN overlay.nodes[n].last
                           ELSE base.nodes[n].last
    BY DEF ViewNode
  <2>4. Latest(ViewEdges, n, ViewNode(n).last)
    BY <2>2, <2>3 DEF ViewEdges
  <2> QED BY <2>4 DEF Latest, AtEnd
<1>2. Spec => []SeenInv
  BY InitSeen, StepSeen, StoreAlways, PTL DEF Spec
<1> QED BY <1>1, <1>2, StoreAlways, PTL
=============================================================================
