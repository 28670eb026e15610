----------------------------- MODULE MCMeasures -----------------------------
(* Small instances of Measures: four nodes, so that the ends of a path are   *)
(* as far apart as an edge's walks can reach.                                *)
EXTENDS Measures

CONSTANTS a, b, c, d

IdsInOrder == <<a, b, c, d>>

(* A number that tells the two measures apart: the cost of moving each mass  *)
(* of the first to the farthest node of the second.                          *)
Farthest(mu, nu, cost) ==
    SumFunction([i \in DOMAIN mu |-> mu[i] * Max({cost[i][j] : j \in DOMAIN nu})])

(* One half for each hop. *)
Halves == [k \in 0 .. Hops |-> 2 ^ (Hops - k)]
=============================================================================
