------------------------------ MODULE Tension -------------------------------
(***************************************************************************)
(* The tension of nodes, computed in two ways: the calculator walks a view *)
(* of the graph, split among parallel workers; the kernel of the compute   *)
(* backend walks flat arrays the graph was serialized to.                  *)
(*                                                                         *)
(* Only operators: no state.  A graph is the function from its edges,      *)
(* pairs <<from, to>>, to their weights; its nodes are the ends of them,   *)
(* for a node only ever comes into the graph with an edge.  Distributions  *)
(* are integers that add up to Scale, and the divergence between two of    *)
(* them, which the program takes as a parameter, is the sum of the         *)
(* differences: rounding is not modelled.                                  *)
(***************************************************************************)
EXTENDS Integers, Sequences, FiniteSets, SequencesExt

CONSTANTS
    Order,          \* the node ids, in the order of sort.Strings
    Scale,          \* what a distribution adds up to: 1.0
    ParallelFrom,   \* node count from which the calculator runs in parallel
    NumWorkers,     \* the calculator's workers
    MaxNeighbors,   \* the kernel's limit of neighbors of a node
    MaxOutDegree    \* the kernel's limit of edges out of a neighbor

NodeIds == Range(Order)

ASSUME OrderAssumption == Order \in Seq(NodeIds) /\ IsInjective(Order)
ASSUME LimitsAssumption ==
    /\ {Scale, NumWorkers, MaxNeighbors, MaxOutDegree} \subseteq Nat \ {0}
    /\ ParallelFrom \in Nat

-----------------------------------------------------------------------------
(* Graphs and views of two layers. *)

NoEdges == [p \in {} |-> 0]

Ends(g) == UNION {{p[1], p[2]} : p \in DOMAIN g}
Outs(g, n) == {m \in Ends(g) : <<n, m>> \in DOMAIN g}
Ins(g, n) == {m \in Ends(g) : <<m, n>> \in DOMAIN g}
Neighbors(g, n) == Outs(g, n) \cup Ins(g, n)

Weight(g, p) == IF p \in DOMAIN g THEN g[p] ELSE 0

(* The base seen through the overlay, and what compaction makes of both. *)
Merge(b, o) == [p \in DOMAIN b \cup DOMAIN o |-> Weight(b, p) + Weight(o, p)]

WithEvent(g, p, w) == Merge(g, [q \in {p} |-> w])

-----------------------------------------------------------------------------
(* The calculator. *)

Abs(x) == IF x < 0 THEN -x ELSE x

Normalize(dist) ==
    LET total == SumFunction(dist)
    IN  [i \in DOMAIN dist |-> IF total = 0 THEN Scale \div Cardinality(DOMAIN dist)
                                            ELSE (Scale * dist[i]) \div total]

Divergence(p, q) ==
    LET P == Normalize(p)
        Q == Normalize(q)
    IN  SumFunction([i \in DOMAIN p |-> Abs(P[i] - Q[i])])

(* The mean divergence over the neighbors with edges out, when the edges to  *)
(* n lose their weight.                                                      *)
Calculate(g, n) ==
    LET contributing == {m \in Neighbors(g, n) : Outs(g, m) # {}}
        original(m)  == [t \in Outs(g, m) |-> g[<<m, t>>]]
        perturbed(m) == [t \in Outs(g, m) |-> IF t = n THEN 0 ELSE g[<<m, t>>]]
        div == [m \in contributing |-> Divergence(original(m), perturbed(m))]
    IN  IF contributing = {} THEN 0
        ELSE SumFunction(div) \div Cardinality(contributing)

(* The nodes, in no order, are cut into chunks of ceil(n / workers); the      *)
(* last one may be shorter.                                                  *)
partitionNodes(nodes, workers) ==
    LET size == (Len(nodes) + workers - 1) \div workers
        end(k) == IF k * size > Len(nodes) THEN Len(nodes) ELSE k * size
    IN  [k \in 1 .. (Len(nodes) + size - 1) \div size |->
            SubSeq(nodes, (k - 1) * size + 1, end(k))]

CalculateAllParallel(g) ==
    LET nodes  == SetToSeq(Ends(g))
        chunks == partitionNodes(nodes, NumWorkers)
        taken  == IF Len(nodes) < ParallelFrom \/ nodes = <<>> THEN Ends(g)
                  ELSE UNION {Range(chunks[k]) : k \in DOMAIN chunks}
    IN  [n \in taken |-> Calculate(g, n)]

-----------------------------------------------------------------------------
(* Serialization: rows (CSR) and columns (CSC) of the weight matrix.       *)
(* Nodes are numbered from 1 in the order of their ids, and the entries of *)
(* line i are those at ptr[i-1] + 1 .. ptr[i], ascending.                  *)

(* Where each line ends. *)
PrefixSum(counts) ==
    [i \in 0 .. Len(counts) |-> SumFunction([j \in 1 .. i |-> counts[j]])]

(* The members of a set of numbers, ascending. *)
Ascending(numbers) ==
    [k \in 1 .. Cardinality(numbers) |->
        CHOOSE i \in numbers : Cardinality({j \in numbers : j <= i}) = k]

(* The entries of the lines, each line from where the one before it ends. *)
Fill(ptr, lines) ==
    [k \in 1 .. ptr[Len(lines)] |->
        LET i == CHOOSE i \in DOMAIN lines : k \in ptr[i - 1] + 1 .. ptr[i]
        IN  lines[i][k - ptr[i - 1]]]

Place(n) == CHOOSE k \in DOMAIN Order : Order[k] = n

NodeIDs(g) ==
    LET places == Ascending({Place(n) : n \in Ends(g)})
    IN  [i \in DOMAIN places |-> Order[places[i]]]

(* The numbers of a set of nodes, ascending. *)
Numbered(ids, nodes) == Ascending({i \in DOMAIN ids : ids[i] \in nodes})

SerializeCSR(g) ==
    LET ids     == NodeIDs(g)
        ptr     == PrefixSum([i \in DOMAIN ids |-> Cardinality(Outs(g, ids[i]))])
        rows    == [i \in DOMAIN ids |-> Numbered(ids, Outs(g, ids[i]))]
        weights == [i \in DOMAIN ids |->
                      [k \in DOMAIN rows[i] |-> g[<<ids[i], ids[rows[i][k]]>>]]]
    IN  [ids |-> ids, ptr |-> ptr, col |-> Fill(ptr, rows), val |-> Fill(ptr, weights)]

(* Slip: the columns are counted and filled by where their edges come from. *)
SlipSerializeCSC(g) ==
    LET ids == NodeIDs(g)
        ptr == PrefixSum([j \in DOMAIN ids |-> Cardinality(Outs(g, ids[j]))])
    IN  [ptr |-> ptr, row |-> Fill(ptr, [j \in DOMAIN ids |-> Numbered(ids, Outs(g, ids[j]))])]

SerializeCSC(g) ==
    LET ids == NodeIDs(g)
        ptr == PrefixSum([j \in DOMAIN ids |-> Cardinality(Ins(g, ids[j]))])
    IN  [ptr |-> ptr, row |-> Fill(ptr, [j \in DOMAIN ids |-> Numbered(ids, Ins(g, ids[j]))])]

-----------------------------------------------------------------------------
(* The kernel, one invocation per node. *)

Line(ptr, entries, i) == SubSeq(entries, ptr[i - 1] + 1, ptr[i])

(* The neighbors that are met while the buffer has room, each of them once;  *)
(* those that do not fit are dropped.                                        *)
collectNeighbors(csr, csc, i) ==
    LET met == Line(csr.ptr, csr.col, i) \o Line(csc.ptr, csc.row, i)
        before(k) == {met[j] : j \in 1 .. k - 1}
    IN  {met[k] : k \in {k \in DOMAIN met : Cardinality(before(k)) < MaxNeighbors}}

ComputeNodeTension(csr, csc, i) ==
    LET degree(m)    == csr.ptr[m] - csr.ptr[m - 1]
        contributing == {m \in collectNeighbors(csr, csc, i) : degree(m) \in 1 .. MaxOutDegree}
        targets(m)   == Line(csr.ptr, csr.col, m)
        original(m)  == Line(csr.ptr, csr.val, m)
        perturbed(m) == [k \in 1 .. degree(m) |->
                            IF targets(m)[k] = i THEN 0 ELSE original(m)[k]]
        div == [m \in contributing |-> Divergence(original(m), perturbed(m))]
    IN  IF contributing = {} THEN 0
        ELSE SumFunction(div) \div Cardinality(contributing)

ComputeAllTensions(csr, csc) ==
    [n \in Range(csr.ids) |->
        ComputeNodeTension(csr, csc, CHOOSE i \in DOMAIN csr.ids : csr.ids[i] = n)]

(* What the two promise each other: the same tensions, for nodes within the *)
(* kernel's limits.                                                         *)
WithinLimits(g, n) ==
    /\ Cardinality(Neighbors(g, n)) <= MaxNeighbors
    /\ \A m \in Neighbors(g, n) : Cardinality(Outs(g, m)) <= MaxOutDegree

Agree(g) ==
    LET kernel == ComputeAllTensions(SerializeCSR(g), SerializeCSC(g))
    IN  /\ DOMAIN kernel = Ends(g)
        /\ \A n \in Ends(g) : WithinLimits(g, n) => kernel[n] = Calculate(g, n)
=============================================================================
