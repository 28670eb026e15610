------------------------------ MODULE Measures ------------------------------
(***************************************************************************)
(* What an analysis says of one view beside its tensions: the curvature of *)
(* edges and nodes, the concealment cost of a node, how detectable the     *)
(* anomalies of a set of nodes are, and how well the view is connected.    *)
(*                                                                         *)
(* The view takes in one event after the other, so that every graph of the *)
(* bounds comes up.  As in Tension, masses, tensions and curvatures are    *)
(* integers in units of 1 / Scale; quotients that need not be whole are    *)
(* kept as numerator and denominator.  The number that the Sinkhorn        *)
(* iteration stops at is a parameter: it is neither the least cost nor     *)
(* the same for the measures the other way round, and nothing is assumed   *)
(* of it.  config.curvature, thresholdFunc and the calibrator are not set. *)
(***************************************************************************)
EXTENDS Tension

CONSTANTS
    Lazy,        \* curvatureAlpha: the mass of the walk that stays
    Decay,       \* exp(-lambda * k) for each number k of hops
    Hops,        \* concealmentHops
    Limit2,      \* the square of the Yharim limit
    Threshold,   \* config.threshold
    MaxEvents,   \* bound: events in the view
    Transport(_, _, _)  \* what sinkhorn returns for two measures and the costs

(* Lazy walks are exact for every number of neighbors there can be. *)
ASSUME LazyAssumption ==
    /\ Lazy \in 0 .. Scale
    /\ \A k \in 1 .. Len(Order) : (Scale - Lazy) % k = 0
ASSUME DecayAssumption == Hops \in Nat /\ Decay \in [0 .. Hops -> Nat]
ASSUME MeasuresAssumption == {Limit2, Threshold, MaxEvents} \subseteq Nat

VARIABLES
    view,    \* the graph that is analysed
    events   \* how many events it is made of

vars == <<view, events>>

-----------------------------------------------------------------------------
(* Curvature. *)

(* Distances from a node, as far as depth: each hop adds the neighbors that  *)
(* have no distance yet.                                                     *)
BfsDistances(g, src, depth) ==
    LET dist[k \in 0 .. depth] ==
            IF k = 0 THEN [m \in {src} |-> 0]
            ELSE LET before == dist[k - 1]
                 IN  before @@ [m \in UNION {Neighbors(g, n) : n \in DOMAIN before} |-> k]
    IN  dist[depth]

(* The lazy random walk from a node; a loop adds to the mass that stays. *)
BuildMeasure(g, n) ==
    LET around == Neighbors(g, n)
        share  == (Scale - Lazy) \div Cardinality(around)
    IN  IF around = {} THEN [m \in {n} |-> Scale]
        ELSE [m \in around \cup {n} |-> (IF m = n THEN Lazy ELSE 0)
                                      + (IF m \in around THEN share ELSE 0)]

Mass(mu, m) == IF m \in DOMAIN mu THEN mu[m] ELSE 0

(* Nodes that are not found within four hops count as four hops away. *)
MaxDepth == 4

(* Slip: the search for distances ends one hop too early. *)
SlipBuildCostMatrix(g, support) ==
    [i \in support |->
        LET dist == BfsDistances(g, i, MaxDepth - 2)
        IN  [j \in support |-> IF j \in DOMAIN dist THEN dist[j] ELSE MaxDepth]]

BuildCostMatrix(g, support) ==
    [i \in support |->
        LET dist == BfsDistances(g, i, MaxDepth)
        IN  [j \in support |-> IF j \in DOMAIN dist THEN dist[j] ELSE MaxDepth]]

Support(g, p) == DOMAIN BuildMeasure(g, p[1]) \cup DOMAIN BuildMeasure(g, p[2])

Curvature(g, p) ==
    IF p \notin DOMAIN g THEN 0
    ELSE Scale - Transport(BuildMeasure(g, p[1]), BuildMeasure(g, p[2]),
                           BuildCostMatrix(g, Support(g, p)))

CurvatureAll(g) == [p \in DOMAIN g |-> Curvature(g, p)]

-----------------------------------------------------------------------------
(* Concealment: a walk outwards, one frontier after the other. *)

(* Slip: a node is marked as visited only when its frontier is walked. *)
SlipExpand(g, level) ==
    FoldLeft(LAMBDA next, m :
                LET new == Neighbors(g, m) \ level.visited
                IN  [visited  |-> next.visited \cup new,
                     frontier |-> next.frontier \o SetToSeq(new)],
             [visited |-> level.visited, frontier |-> <<>>], level.frontier)

Expand(g, level) ==
    FoldLeft(LAMBDA next, m :
                LET new == Neighbors(g, m) \ next.visited
                IN  [visited  |-> next.visited \cup new,
                     frontier |-> next.frontier \o SetToSeq(new)],
             [visited |-> level.visited, frontier |-> <<>>], level.frontier)

Concealment(g, n, hops) ==
    LET level[k \in 0 .. hops] ==
            IF k = 0 THEN [visited |-> {n}, frontier |-> <<n>>] ELSE Expand(g, level[k - 1])
        tensions(k) == [i \in DOMAIN level[k].frontier |-> Calculate(g, level[k].frontier[i])]
    IN  IF n \notin Ends(g) THEN 0
        ELSE SumFunction([k \in 0 .. hops |-> Decay[k] * SumFunction(tensions(k))])

-----------------------------------------------------------------------------
(* Connectivity. *)

Degree(g, region, n) == Cardinality(Neighbors(g, n) \cap region)
Volume(g, region, part) == SumFunction([n \in part |-> Degree(g, region, n)])

(* The orders in which a breadth-first search may reach the nodes of a       *)
(* region: a node comes after one of its neighbors, and nodes come in the    *)
(* order of the first neighbor that found them.                              *)
BfsOrders(g, region, start) ==
    LET reached == DOMAIN BfsDistances([p \in DOMAIN g \cap (region \X region) |-> 1],
                                       start, Cardinality(region))
        foundBy(o, j) == Min({i \in DOMAIN o : o[i] \in Neighbors(g, o[j])} \cup {Len(o)})
    IN  {o \in SetToSeqs(reached) :
            /\ o[1] = start
            /\ \A j \in 2 .. Len(o) : foundBy(o, j) < j
            /\ \A j \in 3 .. Len(o) : foundBy(o, j - 1) <= foundBy(o, j)}

NotConnected == [num |-> 0, den |-> 1]

(* Slip: a region the search has not reached all of is cut all the same. *)
SlipCheeger(g, region, order) ==
    LET half  == Max({1, Len(order) \div 2})
        inner == {order[i] : i \in 1 .. half}
        outer == region \ inner
        cut   == SumFunction([n \in inner |-> Cardinality(Neighbors(g, n) \cap outer)])
        vol   == Min({Volume(g, region, inner), Volume(g, region, outer)})
        most  == Max({Degree(g, region, n) : n \in region})
    IN  IF vol = 0 THEN NotConnected
        ELSE [num |-> cut * cut, den |-> 2 * most * vol * vol]

(* h^2 / 2 d for the cut between the first half of the order and the rest. *)
Cheeger(g, region, order) ==
    LET half  == Max({1, Len(order) \div 2})
        inner == {order[i] : i \in 1 .. half}
        outer == region \ inner
        cut   == SumFunction([n \in inner |-> Cardinality(Neighbors(g, n) \cap outer)])
        vol   == Min({Volume(g, region, inner), Volume(g, region, outer)})
        most  == Max({Degree(g, region, n) : n \in region})
    IN  IF Len(order) < Cardinality(region) \/ vol = 0 THEN NotConnected
        ELSE [num |-> cut * cut, den |-> 2 * most * vol * vol]

(* The values FiedlerApprox may return: it starts at a node of the highest   *)
(* degree, and neighbors come in no particular order.                        *)
FiedlerApprox(g, region) ==
    LET most == Max({Degree(g, region, n) : n \in region})
        starts == {n \in region : Degree(g, region, n) = most}
    IN  IF Cardinality(region) < 2 \/ most = 0 THEN {NotConnected}
        ELSE {Cheeger(g, region, order) :
                order \in UNION {BfsOrders(g, region, n) : n \in starts}}

(* How fast anomalies spread, squared, in units of diffusivityAlpha. *)
VelocityOfSilence(lambda, edgeSum, edgeCount) ==
    [num |-> lambda.num * edgeSum * edgeSum, den |-> lambda.den * edgeCount * edgeCount]

Velocities(g) ==
    IF Cardinality(Ends(g)) < 3 THEN {NotConnected}
    ELSE {VelocityOfSilence(lambda, SumFunction(g), Cardinality(DOMAIN g)) :
            lambda \in FiedlerApprox(g, Ends(g))}

-----------------------------------------------------------------------------
(* Detectability of a set of nodes, from their tensions. *)

Sum(tensions) == SumFunction(tensions)
Squares(tensions) == SumFunction([n \in DOMAIN tensions |-> tensions[n] * tensions[n]])

(* Whether SNR, (mean / stddev) * sqrt(n), is above k times the limit. *)
SNRAbove(tensions, k) ==
    LET n      == Cardinality(DOMAIN tensions)
        s      == Sum(tensions)
        spread == n * Squares(tensions) - s * s
    IN  /\ n > 0 /\ s # 0
        /\ spread = 0 \/ s * s * n > k * k * Limit2 * spread

Classify(tensions) ==
    IF SNRAbove(tensions, 2) THEN "strong" ELSE IF SNRAbove(tensions, 1) THEN "weak"
    ELSE "undetectable"

NoScore == [num |-> 0, den |-> 1]

(* The concealment score of a region: the total cost over the mean tension,  *)
(* from which a sigmoid makes a score between 0 and 1; or none.              *)
CPS(tensions, cost) ==
    IF ~ SNRAbove(tensions, 1) \/ cost <= 0 \/ Sum(tensions) <= 0 THEN NoScore
    ELSE [num |-> cost * Cardinality(DOMAIN tensions), den |-> Sum(tensions)]

-----------------------------------------------------------------------------
(* The results of a full analysis, of a node and of a region.  Degree and    *)
(* confidence, which all three read off the stored node, are left out.       *)

Edges(g, n) == {p \in DOMAIN g : n \in {p[1], p[2]}}

(* Analyze: a node's curvature is the mean over the edges that touch it. *)
FullNode(g, tensions, curvatures, n) ==
    [tension     |-> tensions[n],
     curvature   |-> SumFunction([p \in Edges(g, n) |-> curvatures[p]]),
     edges       |-> Cardinality(Edges(g, n)),
     anomaly     |-> tensions[n] > Threshold,
     concealment |-> Concealment(g, n, Hops)]

(* Its statistics, of all tensions at once; a mean is kept as its sum. *)
Full(g) ==
    LET tensions   == CalculateAllParallel(g)
        curvatures == CurvatureAll(g)
        statistics(nodes, values) ==
            [nodes     |-> nodes,
             sum       |-> Sum(values),
             max       |-> Max({0} \cup Range(values)),
             anomalies |-> Cardinality({n \in DOMAIN nodes : nodes[n].anomaly}),
             detected  |-> Classify(values)]
    IN  statistics([n \in Ends(g) |-> FullNode(g, tensions, curvatures, n)], tensions)

(* AnalyzeNode: the mean over the neighbors the node has edges to, and then  *)
(* over those it has edges from.                                             *)
AnalyzeNode(g, n) ==
    LET out == [m \in Outs(g, n) |-> Curvature(g, <<n, m>>)]
        in  == [m \in Ins(g, n) |-> Curvature(g, <<m, n>>)]
        t   == Calculate(g, n)
    IN  [tension     |-> t,
         curvature   |-> SumFunction(out) + SumFunction(in),
         edges       |-> Cardinality(DOMAIN out) + Cardinality(DOMAIN in),
         anomaly     |-> t > Threshold,
         concealment |-> Concealment(g, n, Hops)]

(* Slip: only the edges out of the node are looked at. *)
SlipRegionNode(g, n) ==
    [tension     |-> Calculate(g, n),
     curvature   |-> SumFunction([m \in Outs(g, n) |-> Curvature(g, <<n, m>>)]),
     edges       |-> Cardinality(Outs(g, n)),
     anomaly     |-> Calculate(g, n) > Threshold,
     concealment |-> Concealment(g, n, Hops)]

(* One turn of AnalyzeRegion's loop, which does the same for each node. *)
RegionNode(g, n) ==
    [tension     |-> Calculate(g, n),
     curvature   |-> SumFunction([m \in Outs(g, n) |-> Curvature(g, <<n, m>>)])
                   + SumFunction([m \in Ins(g, n) |-> Curvature(g, <<m, n>>)]),
     edges       |-> Cardinality(Outs(g, n)) + Cardinality(Ins(g, n)),
     anomaly     |-> Calculate(g, n) > Threshold,
     concealment |-> Concealment(g, n, Hops)]

(* AnalyzeRegion gathers the results of the ids the view has, in the order   *)
(* they are named, and has a loop of its own for the largest and the mean.   *)
Region(g, ids) ==
    LET found == SelectSeq(ids, LAMBDA n : n \in Ends(g))
        loop(values) ==
            FoldLeft(LAMBDA so, t : [sum |-> so.sum + t, max |-> IF t > so.max THEN t ELSE so.max],
                     [sum |-> 0, max |-> 0], values)
        gathered(nodes, values) ==
            [nodes     |-> [n \in Range(found) |-> nodes[CHOOSE i \in DOMAIN found : found[i] = n]],
             sum       |-> loop(values).sum,
             max       |-> loop(values).max,
             anomalies |-> Len(SelectSeq(nodes, LAMBDA node : node.anomaly)),
             detected  |-> Classify(values)]
        results == [i \in DOMAIN found |-> RegionNode(g, found[i])]
    IN  gathered(results, [i \in DOMAIN found |-> results[i].tension])

-----------------------------------------------------------------------------
Init == view = NoEdges /\ events = 0

AddEvent(p) ==
    /\ events < MaxEvents
    /\ view' = WithEvent(view, p, 1)
    /\ events' = events + 1

Next == \E p \in NodeIds \X NodeIds : AddEvent(p)

Spec == Init /\ [][Next]_vars

-----------------------------------------------------------------------------
(* Properties. *)

(* The kernel of the compute backend and the calculator agree on every view, *)
(* within the limits of the kernel's buffers.                                *)
KernelAgrees == Agree(view)

(* The costs that the transport between an edge's two walks is given are     *)
(* distances: symmetric, no detour is shorter, and the default for nodes out *)
(* of the search's reach is never used.                                      *)
CostsAreDistances ==
    \A p \in DOMAIN view :
        LET support == Support(view, p)
            cost    == BuildCostMatrix(view, support)
        IN  /\ \A i, j \in support : cost[i][j] < MaxDepth /\ cost[i][j] = cost[j][i]
            /\ \A i, j, k \in support : cost[i][k] <= cost[i][j] + cost[j][k]

(* The walk of the concealment cost counts each node within reach once, at   *)
(* its distance, though many paths lead to it.  And as every node conceals   *)
(* its own tension at least, the regions without a concealment score are     *)
(* just the undetectable ones.                                               *)
ConcealmentExact ==
    /\ \A n \in Ends(view) :
        LET dist == BfsDistances(view, n, Hops)
        IN  Concealment(view, n, Hops)
              = SumFunction([m \in DOMAIN dist |-> Decay[dist[m]] * Calculate(view, m)])
    /\ \A ids \in SUBSET Ends(view) :
        LET tensions == [n \in ids |-> Calculate(view, n)]
            cost     == SumFunction([n \in ids |-> Concealment(view, n, Hops)])
        IN  CPS(tensions, cost) = NoScore <=> Classify(tensions) = "undetectable"

(* In a connected region there is an edge between any part and the rest. *)
Connected(g, region) ==
    \A part \in SUBSET region \ {{}, region} :
        \E n \in part : Neighbors(g, n) \cap (region \ part) # {}

(* Whichever order the search takes, FiedlerApprox is positive exactly for a *)
(* connected region of two nodes or more, and no more than 1 / 2 d; and so   *)
(* anomalies spread in a view of three nodes or more, if it is connected.    *)
FiedlerSeesConnectivity ==
    /\ \A region \in SUBSET Ends(view) \ {{}} :
        \A x \in FiedlerApprox(view, region) :
            /\ x.num > 0 <=> Cardinality(region) >= 2 /\ Connected(view, region)
            /\ x.num > 0 => \A n \in region : 2 * Degree(view, region, n) * x.num <= x.den
    /\ \A v \in Velocities(view) :
        v.num > 0 <=> Cardinality(Ends(view)) >= 3 /\ Connected(view, Ends(view))

(* The three analyses agree, though each has its own copy of the code: the   *)
(* region of all nodes, and of one that the view lacks, gets what the full   *)
(* analysis gets, tensions, anomalies, concealment, aggregates and           *)
(* detectability, and each node what it gets alone; only that a loop counts  *)
(* twice in the mean curvature of a node that is not the full analysis'.     *)
AnalysesAgree ==
    LET loop(n) == IF <<n, n>> \in DOMAIN view THEN 1 ELSE 0
        agree(full, region) ==
            /\ [full EXCEPT !.nodes = {}] = [region EXCEPT !.nodes = {}]
            /\ DOMAIN full.nodes = DOMAIN region.nodes
            /\ \A n \in DOMAIN full.nodes :
                  /\ region.nodes[n] = AnalyzeNode(view, n)
                  /\ region.nodes[n] =
                        [full.nodes[n] EXCEPT !.curvature = @ + loop(n) * Curvature(view, <<n, n>>),
                                              !.edges = @ + loop(n)]
    IN  agree(Full(view), Region(view, Order))
=============================================================================
