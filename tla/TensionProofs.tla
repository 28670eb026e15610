---------------------------- MODULE TensionProofs ----------------------------
(* The operators of Tension, for any graph of any nodes: tensions are        *)
(* natural numbers, the calculator's parallel workers leave no node out, and *)
(* the kernel of the compute backend, on what the graph is serialized to,    *)
(* computes what the calculator does.                                        *)
EXTENDS Tension, FiniteSetTheorems, SequenceTheorems, WellFoundedInduction, TLAPS

-----------------------------------------------------------------------------
(* Finite sets. *)

(* A set of naturals has a least one. *)
LEMMA Least ==
    ASSUME NEW T, T \subseteq Nat, T # {}
    PROVE  \E k \in T : \A j \in T : k <= j
<1>1. PICK k \in T : \A j \in T : ~ <<j, k>> \in OpToRel(<, Nat)
  BY NatLessThanWellFounded, WFMin, Zenon
<1>2. ASSUME NEW j \in T PROVE k <= j
  <2>1. j \in Nat /\ k \in Nat
    OBVIOUS
  <2>2. <<j, k>> \in Nat \X Nat /\ <<j, k>>[1] = j /\ <<j, k>>[2] = k
    BY <2>1
  <2>3. ~(j < k)
    BY <1>1, <2>1, <2>2 DEF OpToRel
  <2> QED BY <2>1, <2>3
<1> QED BY <1>2

(* A family of subsets of a finite set has a minimal one: what induction on  *)
(* finite sets comes to.                                                     *)
LEMMA Minimal ==
    ASSUME NEW S, IsFiniteSet(S), NEW Z, Z \subseteq SUBSET S, Z # {}
    PROVE  \E T \in Z : /\ IsFiniteSet(T)
                        /\ \A U \in SUBSET T : U # T => U \notin Z
<1> DEFINE Counts == {Cardinality(T) : T \in Z}
<1>1. \A T \in Z : IsFiniteSet(T) /\ Cardinality(T) \in Nat
  BY FS_Subset, FS_CardinalityType
<1>2. Counts \subseteq Nat /\ Counts # {}
  BY <1>1
<1>3. PICK k \in Counts : \A j \in Counts : k <= j
  <2> HIDE DEF Counts
  <2> QED BY <1>2, Least
<1>4. PICK T \in Z : Cardinality(T) = k
  OBVIOUS
<1>5. ASSUME NEW U \in SUBSET T, U # T PROVE U \notin Z
  <2>1. IsFiniteSet(T) /\ k \in Nat
    BY <1>1, <1>4
  <2>2. Cardinality(U) <= k /\ Cardinality(U) # k /\ Cardinality(U) \in Nat
    BY <1>4, <1>5, <2>1, FS_Subset, FS_CardinalityType
  <2>3. ~(k <= Cardinality(U))
    BY <2>1, <2>2
  <2> QED BY <1>3, <2>3
<1> QED BY <1>1, <1>5

(* A finite set of numbers has a greatest one, which Max finds. *)
LEMMA Maximum ==
    ASSUME NEW S, IsFiniteSet(S), S \subseteq Int, S # {}
    PROVE  \E x \in S : \A y \in S : x >= y
<1> DEFINE Top(T) == \E x \in T : \A y \in T : x >= y
           Z == {T \in SUBSET S : T # {} /\ ~Top(T)}
<1> SUFFICES ASSUME ~Top(S) PROVE FALSE
  OBVIOUS
<1>1. PICK T \in Z : \A U \in SUBSET T : U # T => U \notin Z
  <2>1. Z \subseteq SUBSET S /\ Z # {}
    OBVIOUS
  <2> HIDE DEF Z
  <2> QED BY <2>1, Minimal
<1>2. T \in SUBSET S /\ T # {} /\ ~Top(T)
  OBVIOUS
<1>3. PICK x \in T : TRUE
  BY <1>2
<1> DEFINE U == T \ {x}
<1>4. U \in SUBSET S /\ (U = {} \/ Top(U))
  BY <1>1, <1>2, <1>3
<1> HIDE DEF Z
<1>5. CASE U = {}
  <2>1. \A y \in T : y = x
    BY <1>5
  <2>2. x \in Int
    BY <1>2, <1>3
  <2>3. \A y \in T : x >= y
    BY <2>1, <2>2
  <2> QED BY <1>2, <1>3, <2>3
<1>6. CASE Top(U)
  <2>1. PICK m \in U : \A y \in U : m >= y
    BY <1>6
  <2>2. m \in Int /\ x \in Int /\ m \in T /\ \A y \in T : y \in Int /\ (y = x \/ m >= y)
    BY <1>2, <1>3, <2>1
  <2>3. CASE m >= x
    <3>1. \A y \in T : m >= y
      BY <2>2, <2>3
    <3> QED BY <1>2, <2>2, <3>1
  <2>4. CASE x >= m
    <3>1. \A y \in T : x >= y
      BY <2>2, <2>4
    <3> QED BY <1>2, <1>3, <3>1
  <2> QED BY <2>2, <2>3, <2>4
<1> QED BY <1>4, <1>5, <1>6

LEMMA MaxBounds ==
    ASSUME NEW S, IsFiniteSet(S), S \subseteq Int, NEW x \in S
    PROVE  Max(S) \in S /\ Max(S) >= x
<1>1. \E m \in S : \A y \in S : m >= y
  BY Maximum
<1> QED BY <1>1 DEF Max

LEMMA Bijections ==
    ASSUME NEW S, NEW T, NEW f
    PROVE  f \in Bijection(S, T) <=> /\ f \in [S -> T]
                                     /\ \A i, j \in S : f[i] = f[j] => i = j
                                     /\ \A y \in T : \E i \in S : f[i] = y
BY DEF Bijection, Injection, Surjection, IsInjective

LEMMA SameSize ==
    ASSUME NEW S, NEW T, NEW f \in Bijection(S, T), IsFiniteSet(S)
    PROVE  IsFiniteSet(T) /\ Cardinality(T) = Cardinality(S)
BY FS_Bijection DEF ExistsBijection

-----------------------------------------------------------------------------
(* Sums: the fold of the library is defined, for a finite set, and takes one *)
(* element after the other.                                                  *)

PickOf(t) == CHOOSE x \in t : TRUE

IsSum(f, s, g) ==
    g = [t \in SUBSET s |-> IF t = {} THEN 0 ELSE f[PickOf(t)] + g[t \ {PickOf(t)}]]

SumBy(f, s) == CHOOSE g : IsSum(f, s, g)

LEMMA SumIsFold ==
    ASSUME NEW f, NEW s
    PROVE  SumFunctionOnSet(f, s) = SumBy(f, s)[s]
BY DEF SumFunctionOnSet, FoldFunctionOnSet, MapThenFoldSet, SumBy, IsSum, PickOf

LEMMA SumUnfolds ==
    ASSUME NEW f, NEW s, NEW g, IsSum(f, s, g), NEW t \in SUBSET s
    PROVE  /\ t = {} => g[t] = 0
           /\ t # {} => /\ PickOf(t) \in t /\ t \ {PickOf(t)} \in SUBSET s
                        /\ t \ {PickOf(t)} # t
                        /\ g[t] = f[PickOf(t)] + g[t \ {PickOf(t)}]
<1>1. g[t] = IF t = {} THEN 0 ELSE f[PickOf(t)] + g[t \ {PickOf(t)}]
  BY DEF IsSum
<1>2. t # {} => PickOf(t) \in t
  BY DEF PickOf
<1> QED BY <1>1, <1>2

(* There is one such function at most, and one. *)
LEMMA SumUnique ==
    ASSUME NEW f, NEW s, NEW u, NEW g, NEW h, IsSum(f, s, g), IsSum(f, u, h),
           IsFiniteSet(s), NEW v \in SUBSET s, v \in SUBSET u
    PROVE  g[v] = h[v]
<1> DEFINE Z == {t \in SUBSET s : t \in SUBSET u /\ g[t] # h[t]}
<1> SUFFICES ASSUME Z # {} PROVE FALSE
  OBVIOUS
<1>1. PICK t \in Z : \A w \in SUBSET t : w # t => w \notin Z
  <2>1. Z \subseteq SUBSET s
    OBVIOUS
  <2> HIDE DEF Z
  <2> QED BY <2>1, Minimal
<1>2. t \in SUBSET s /\ t \in SUBSET u /\ g[t] # h[t]
  OBVIOUS
<1>3. t # {}
  <2>1. g[t] = IF t = {} THEN 0 ELSE f[PickOf(t)] + g[t \ {PickOf(t)}]
    BY <1>2 DEF IsSum
  <2>2. h[t] = IF t = {} THEN 0 ELSE f[PickOf(t)] + h[t \ {PickOf(t)}]
    BY <1>2 DEF IsSum
  <2> QED BY <1>2, <2>1, <2>2
<1> DEFINE w == t \ {PickOf(t)}
<1>4. /\ w \in SUBSET t /\ w # t
      /\ g[t] = f[PickOf(t)] + g[w] /\ h[t] = f[PickOf(t)] + h[w]
  BY <1>2, <1>3, SumUnfolds
<1>5. g[w] = h[w]
  BY <1>1, <1>2, <1>4
<1> QED BY <1>2, <1>4, <1>5

LEMMA SumExists ==
    ASSUME NEW f, NEW s, IsFiniteSet(s)
    PROVE  IsSum(f, s, SumBy(f, s))
<1> SUFFICES \E g : IsSum(f, s, g)
  BY DEF SumBy
<1> DEFINE Z == {t \in SUBSET s : ~ \E g : IsSum(f, t, g)}
<1> SUFFICES ASSUME Z # {} PROVE FALSE
  OBVIOUS
<1>1. PICK t \in Z : IsFiniteSet(t) /\ \A w \in SUBSET t : w # t => w \notin Z
  <2>1. Z \subseteq SUBSET s
    OBVIOUS
  <2> HIDE DEF Z
  <2> QED BY <2>1, Minimal
<1>2. \A w \in SUBSET t : w # t => IsSum(f, w, SumBy(f, w)) /\ IsFiniteSet(w)
  BY <1>1, FS_Subset DEF SumBy
<1> DEFINE part(w) == SumBy(f, w)[w]
           rest(w) == w \ {PickOf(w)}
           h == [w \in SUBSET t |-> IF w = {} THEN 0 ELSE f[PickOf(w)] + part(rest(w))]
<1>3. ASSUME NEW w \in SUBSET t, w # t PROVE h[w] = part(w)
  <2>1. IsSum(f, w, SumBy(f, w)) /\ IsFiniteSet(w)
    BY <1>2, <1>3
  <2>2. CASE w = {}
    BY <2>1, <2>2, SumUnfolds
  <2>3. CASE w # {}
    <3>1. /\ rest(w) \in SUBSET w /\ rest(w) # w /\ rest(w) \in SUBSET t /\ rest(w) # t
          /\ part(w) = f[PickOf(w)] + SumBy(f, w)[rest(w)]
      BY <2>1, <2>3, SumUnfolds
    <3>2. IsSum(f, rest(w), SumBy(f, rest(w))) /\ IsFiniteSet(rest(w))
      BY <1>2, <3>1
    <3>3. SumBy(f, w)[rest(w)] = part(rest(w))
      <4> DEFINE r == rest(w)
      <4>1. r \in SUBSET w /\ r \in SUBSET r /\ IsSum(f, r, SumBy(f, r))
        BY <3>1, <3>2
      <4> HIDE DEF r
      <4>2. SumBy(f, w)[r] = SumBy(f, r)[r]
        BY <2>1, <4>1, SumUnique
      <4> QED BY <4>2 DEF r
    <3>4. h[w] = f[PickOf(w)] + part(rest(w))
      BY <2>3
    <3> QED BY <3>1, <3>3, <3>4
  <2> QED BY <2>2, <2>3
<1>4. \A w \in SUBSET t : w # {} => rest(w) \in SUBSET t /\ rest(w) # t
  BY DEF PickOf
<1> HIDE DEF part, rest
<1>5. h = [w \in SUBSET t |-> IF w = {} THEN 0 ELSE f[PickOf(w)] + h[rest(w)]]
  <2>1. \A w \in SUBSET t : w # {} => h[rest(w)] = part(rest(w))
    <3> HIDE DEF h
    <3> QED BY <1>3, <1>4
  <2> QED BY <2>1
<1>6. IsSum(f, t, h)
  <2> HIDE DEF h
  <2> QED BY <1>5 DEF IsSum, rest
<1> QED BY <1>6

(* The sum over a finite set, one element at a time. *)
LEMMA SumSteps ==
    ASSUME NEW f, NEW s, IsFiniteSet(s)
    PROVE  /\ s = {} => SumFunctionOnSet(f, s) = 0
           /\ s # {} => \E x \in s : SumFunctionOnSet(f, s) = f[x] + SumFunctionOnSet(f, s \ {x})
<1>1. IsSum(f, s, SumBy(f, s)) /\ s \in SUBSET s
  BY SumExists
<1>2. CASE s = {}
  BY <1>1, <1>2, SumUnfolds, SumIsFold
<1>3. CASE s # {}
  <2> DEFINE x == PickOf(s)
             u == s \ {x}
  <2>1. x \in s /\ u \in SUBSET s /\ SumBy(f, s)[s] = f[x] + SumBy(f, s)[u]
    BY <1>1, <1>3, SumUnfolds
  <2>2. IsSum(f, u, SumBy(f, u)) /\ u \in SUBSET u
    BY <2>1, FS_Subset, SumExists
  <2> HIDE DEF u
  <2>3. SumBy(f, s)[u] = SumBy(f, u)[u]
    BY <1>1, <2>1, <2>2, SumUnique
  <2>4. SumFunctionOnSet(f, s) = f[x] + SumFunctionOnSet(f, u)
    BY <2>1, <2>3, SumIsFold
  <2> QED BY <1>3, <2>1, <2>4 DEF u
<1> QED BY <1>2, <1>3

LEMMA SumOfNaturals ==
    ASSUME NEW f, IsFiniteSet(DOMAIN f), \A i \in DOMAIN f : f[i] \in Nat
    PROVE  SumFunction(f) \in Nat
<1> DEFINE Z == {t \in SUBSET DOMAIN f : SumFunctionOnSet(f, t) \notin Nat}
<1>1. ASSUME Z # {} PROVE FALSE
  <2>1. PICK t \in Z : IsFiniteSet(t) /\ \A w \in SUBSET t : w # t => w \notin Z
    <3>1. Z \subseteq SUBSET DOMAIN f
      OBVIOUS
    <3> HIDE DEF Z
    <3> QED BY <1>1, <3>1, Minimal
  <2>2. t \in SUBSET DOMAIN f /\ SumFunctionOnSet(f, t) \notin Nat
    OBVIOUS
  <2>3. PICK x \in t : SumFunctionOnSet(f, t) = f[x] + SumFunctionOnSet(f, t \ {x})
    BY <2>1, <2>2, SumSteps
  <2>4. t \ {x} \in SUBSET t /\ t \ {x} # t
    OBVIOUS
  <2>5. SumFunctionOnSet(f, t \ {x}) \in Nat
    BY <2>1, <2>2, <2>4
  <2> QED BY <2>2, <2>3, <2>5
<1> QED BY <1>1 DEF SumFunction

(* The order does not matter: any element may be taken out. *)
LEMMA SumIntegers ==
    ASSUME NEW f, NEW s, IsFiniteSet(s), \A i \in s : f[i] \in Int
    PROVE  SumFunctionOnSet(f, s) \in Int
<1> DEFINE Z == {t \in SUBSET s : SumFunctionOnSet(f, t) \notin Int}
<1> SUFFICES ASSUME Z # {} PROVE FALSE
  OBVIOUS
<1>1. PICK t \in Z : IsFiniteSet(t) /\ \A w \in SUBSET t : w # t => w \notin Z
  <2>1. Z \subseteq SUBSET s
    OBVIOUS
  <2> HIDE DEF Z
  <2> QED BY <2>1, Minimal
<1>2. t \in SUBSET s /\ SumFunctionOnSet(f, t) \notin Int
  OBVIOUS
<1>3. PICK x \in t : SumFunctionOnSet(f, t) = f[x] + SumFunctionOnSet(f, t \ {x})
  BY <1>1, <1>2, SumSteps
<1>4. t \ {x} \in SUBSET t /\ t \ {x} # t
  OBVIOUS
<1>5. SumFunctionOnSet(f, t \ {x}) \in Int
  BY <1>1, <1>2, <1>4
<1> QED BY <1>2, <1>3, <1>5

LEMMA SumTakes ==
    ASSUME NEW f, NEW s, IsFiniteSet(s), \A i \in s : f[i] \in Int, NEW y \in s
    PROVE  SumFunctionOnSet(f, s) = f[y] + SumFunctionOnSet(f, s \ {y})
<1> DEFINE S(t) == SumFunctionOnSet(f, t)
           Odd(t) == \E z \in t : S(t) # f[z] + S(t \ {z})
           Z == {t \in SUBSET s : Odd(t)}
<1> SUFFICES ASSUME Z # {} PROVE FALSE
  OBVIOUS
<1>1. PICK t \in Z : IsFiniteSet(t) /\ \A w \in SUBSET t : w # t => w \notin Z
  <2>1. Z \subseteq SUBSET s
    OBVIOUS
  <2> HIDE DEF Z
  <2> QED BY <2>1, Minimal
<1>2. t \in SUBSET s /\ Odd(t)
  OBVIOUS
<1>3. PICK z \in t : S(t) # f[z] + S(t \ {z})
  BY <1>2
<1>4. PICK x \in t : S(t) = f[x] + S(t \ {x})
  BY <1>1, <1>2, SumSteps
<1>5. \A w \in SUBSET t : w # t => \A v \in w : S(w) = f[v] + S(w \ {v})
  BY <1>1, <1>2
<1> HIDE DEF Z, S, Odd
<1>6. x # z
  BY <1>3, <1>4
<1>7. S(t \ {x}) = f[z] + S((t \ {x}) \ {z})
  BY <1>5, <1>6
<1>8. S(t \ {z}) = f[x] + S((t \ {z}) \ {x})
  BY <1>5, <1>6
<1>9. (t \ {x}) \ {z} = (t \ {z}) \ {x}
  OBVIOUS
<1> DEFINE rest == (t \ {z}) \ {x}
<1>10. f[x] \in Int /\ f[z] \in Int /\ S(rest) \in Int
  <2>1. IsFiniteSet(rest) /\ \A i \in rest : f[i] \in Int
    BY <1>1, <1>2, FS_Subset
  <2> HIDE DEF rest
  <2>2. S(rest) \in Int
    BY <2>1, SumIntegers DEF S
  <2> QED BY <1>2, <2>2
<1> HIDE DEF rest
<1>11. S(t \ {x}) = f[z] + S(rest) /\ S(t \ {z}) = f[x] + S(rest)
  BY <1>7, <1>8, <1>9 DEF rest
<1> QED BY <1>3, <1>4, <1>10, <1>11

(* A sum is the same under other names. *)
LEMMA SumRenamed ==
    ASSUME NEW S, IsFiniteSet(S), NEW T, NEW b \in Bijection(S, T), NEW f, NEW h,
           \A i \in S : h[i] = f[b[i]] /\ h[i] \in Int
    PROVE  SumFunctionOnSet(h, S) = SumFunctionOnSet(f, T)
<1> DEFINE Image(t) == {b[i] : i \in t}
           Z == {t \in SUBSET S : SumFunctionOnSet(h, t) # SumFunctionOnSet(f, Image(t))}
<1>1. b \in [S -> T] /\ (\A i, j \in S : b[i] = b[j] => i = j) /\ \A y \in T : \E i \in S : b[i] = y
  BY DEF Bijection, Injection, Surjection, IsInjective
<1>2. Image(S) = T
  BY <1>1
<1> SUFFICES ASSUME Z # {} PROVE FALSE
  BY <1>2
<1>3. PICK t \in Z : IsFiniteSet(t) /\ \A w \in SUBSET t : w # t => w \notin Z
  <2>1. Z \subseteq SUBSET S
    OBVIOUS
  <2> HIDE DEF Z
  <2> QED BY <2>1, Minimal
<1>4. t \in SUBSET S /\ SumFunctionOnSet(h, t) # SumFunctionOnSet(f, Image(t))
  OBVIOUS
<1>5. \A w \in SUBSET t : w # t => SumFunctionOnSet(h, w) = SumFunctionOnSet(f, Image(w))
  BY <1>3, <1>4
<1>6. IsFiniteSet(Image(t)) /\ \A y \in Image(t) : f[y] \in Int
  <2> DEFINE c == [i \in t |-> b[i]]
  <2>1. c \in Surjection(t, Image(t))
    BY DEF Surjection
  <2>2. IsFiniteSet(Image(t))
    BY <1>3, <2>1, FS_Surjection
  <2> QED BY <1>4, <2>2
<1>7. t # {}
  <2>1. SumFunctionOnSet(h, {}) = 0 /\ SumFunctionOnSet(f, {}) = 0
    BY FS_EmptySet, SumSteps
  <2>2. t = {} => Image(t) = {}
    OBVIOUS
  <2> HIDE DEF Image
  <2> QED BY <1>4, <2>1, <2>2
<1>8. PICK x \in t : TRUE
  BY <1>7
<1>9. SumFunctionOnSet(h, t) = h[x] + SumFunctionOnSet(h, t \ {x})
  BY <1>3, <1>4, SumTakes
<1>10. SumFunctionOnSet(f, Image(t)) = f[b[x]] + SumFunctionOnSet(f, Image(t) \ {b[x]})
  <2>1. b[x] \in Image(t)
    OBVIOUS
  <2> HIDE DEF Image
  <2> QED BY <1>6, <2>1, SumTakes
<1>11. Image(t) \ {b[x]} = Image(t \ {x})
  BY <1>1, <1>4
<1>12. SumFunctionOnSet(h, t \ {x}) = SumFunctionOnSet(f, Image(t \ {x}))
  BY <1>5, <1>8
<1>13. h[x] = f[b[x]]
  BY <1>4
<1> HIDE DEF Image, Z
<1> QED BY <1>4, <1>9, <1>10, <1>11, <1>12, <1>13

-----------------------------------------------------------------------------
(* Graphs. *)

(* Every graph of the nodes. *)
AllGraphs == UNION {[D -> Nat] : D \in SUBSET (NodeIds \X NodeIds)}

LEMMA AllNodes == IsFiniteSet(NodeIds)
<1>1. Order \in Seq(NodeIds)
  BY OrderAssumption
<1>2. IsFiniteSet(1 .. Len(Order))
  <2>1. Len(Order) \in Nat
    BY <1>1
  <2> QED BY <2>1, FS_Interval
<1>3. Order \in Surjection(1 .. Len(Order), NodeIds)
  <2>1. Order \in [1 .. Len(Order) -> NodeIds] /\ DOMAIN Order = 1 .. Len(Order)
    BY <1>1
  <2> QED BY <2>1 DEF Surjection, NodeIds, Range
<1> QED BY <1>2, <1>3, FS_Surjection

LEMMA AnyGraph ==
    ASSUME NEW g \in AllGraphs
    PROVE  /\ DOMAIN g \subseteq NodeIds \X NodeIds /\ \A p \in DOMAIN g : g[p] \in Nat
           /\ Ends(g) \subseteq NodeIds
           /\ IsFiniteSet(Ends(g)) /\ Cardinality(Ends(g)) \in Nat
<1>1. PICK D \in SUBSET (NodeIds \X NodeIds) : g \in [D -> Nat]
  BY DEF AllGraphs
<1>2. DOMAIN g \subseteq NodeIds \X NodeIds /\ \A p \in DOMAIN g : g[p] \in Nat
  BY <1>1
<1>3. Ends(g) \subseteq NodeIds
  BY <1>2 DEF Ends
<1> QED BY <1>2, <1>3, AllNodes, FS_Subset, FS_CardinalityType

(* The nodes around a node. *)
LEMMA Around ==
    ASSUME NEW g \in AllGraphs, NEW n
    PROVE  /\ Outs(g, n) \subseteq Ends(g) /\ IsFiniteSet(Outs(g, n))
           /\ Ins(g, n) \subseteq Ends(g) /\ IsFiniteSet(Ins(g, n))
           /\ \A t \in Outs(g, n) : g[<<n, t>>] \in Nat
<1>1. Outs(g, n) \subseteq Ends(g) /\ Ins(g, n) \subseteq Ends(g)
  BY DEF Outs, Ins
<1> QED BY <1>1, AnyGraph, FS_Subset DEF Outs

-----------------------------------------------------------------------------
(* Tensions are numbers. *)

LEMMA Quotient ==
    ASSUME NEW x \in Nat, NEW y \in Nat \ {0}
    PROVE  x \div y \in Nat
OBVIOUS

LEMMA Product ==
    ASSUME NEW x \in Nat, NEW y \in Nat
    PROVE  x * y \in Nat
OBVIOUS

LEMMA NormalizedNaturals ==
    ASSUME NEW d, IsFiniteSet(DOMAIN d), \A i \in DOMAIN d : d[i] \in Nat
    PROVE  \A i \in DOMAIN d : Normalize(d)[i] \in Nat
<1> SUFFICES ASSUME NEW i \in DOMAIN d PROVE Normalize(d)[i] \in Nat
  OBVIOUS
<1> DEFINE total == SumFunction(d)
           size == Cardinality(DOMAIN d)
<1>1. Normalize(d)[i] = IF total = 0 THEN Scale \div size ELSE (Scale * d[i]) \div total
  BY DEF Normalize
<1>2. total \in Nat
  BY SumOfNaturals
<1>3. size \in Nat /\ size # 0
  BY FS_CardinalityType, FS_EmptySet
<1>4. Scale \in Nat /\ d[i] \in Nat
  BY LimitsAssumption
<1> HIDE DEF total, size
<1>5. Scale \div size \in Nat
  BY <1>3, <1>4, Quotient
<1>6. Scale * d[i] \in Nat
  BY <1>4, Product
<1>7. total # 0 => (Scale * d[i]) \div total \in Nat
  <2> DEFINE x == Scale * d[i]
  <2>1. x \in Nat
    BY <1>6
  <2> HIDE DEF x
  <2>2. total # 0 => x \div total \in Nat
    BY <1>2, <2>1, Quotient
  <2> QED BY <2>2 DEF x
<1> QED BY <1>1, <1>5, <1>7

LEMMA DivergenceNatural ==
    ASSUME NEW p, NEW q, IsFiniteSet(DOMAIN p), DOMAIN q = DOMAIN p,
           \A i \in DOMAIN p : p[i] \in Nat /\ q[i] \in Nat
    PROVE  Divergence(p, q) \in Nat
<1> DEFINE f == [i \in DOMAIN p |-> Abs(Normalize(p)[i] - Normalize(q)[i])]
<1>1. \A i \in DOMAIN p : Normalize(p)[i] \in Nat /\ Normalize(q)[i] \in Nat
  BY NormalizedNaturals
<1>2. \A i \in DOMAIN f : f[i] \in Nat
  BY <1>1 DEF Abs
<1>3. IsFiniteSet(DOMAIN f)
  OBVIOUS
<1> HIDE DEF f
<1>4. SumFunction(f) \in Nat
  BY <1>2, <1>3, SumOfNaturals
<1> QED BY <1>4 DEF Divergence, f

(* A divergence is the same under other names. *)
LEMMA NormalizedRenamed ==
    ASSUME NEW d, NEW e, IsFiniteSet(DOMAIN e), NEW b \in Bijection(DOMAIN e, DOMAIN d),
           \A i \in DOMAIN e : e[i] = d[b[i]] /\ e[i] \in Nat, NEW i \in DOMAIN e
    PROVE  Normalize(e)[i] = Normalize(d)[b[i]]
<1>1. SumFunction(e) = SumFunction(d)
  <2>1. \A j \in DOMAIN e : e[j] = d[b[j]] /\ e[j] \in Int
    OBVIOUS
  <2> QED BY <2>1, SumRenamed DEF SumFunction
<1>2. Cardinality(DOMAIN d) = Cardinality(DOMAIN e)
  BY FS_Bijection DEF ExistsBijection
<1>3. b[i] \in DOMAIN d
  BY DEF Bijection, Injection
<1> QED BY <1>1, <1>2, <1>3 DEF Normalize

LEMMA DivergenceRenamed ==
    ASSUME NEW p, NEW q, NEW s, NEW t, IsFiniteSet(DOMAIN s), DOMAIN t = DOMAIN s,
           DOMAIN q = DOMAIN p, NEW b \in Bijection(DOMAIN s, DOMAIN p),
           \A i \in DOMAIN s : s[i] = p[b[i]] /\ t[i] = q[b[i]] /\ s[i] \in Nat /\ t[i] \in Nat
    PROVE  Divergence(s, t) = Divergence(p, q)
<1> DEFINE f == [i \in DOMAIN p |-> Abs(Normalize(p)[i] - Normalize(q)[i])]
           h == [i \in DOMAIN s |-> Abs(Normalize(s)[i] - Normalize(t)[i])]
<1>1. ASSUME NEW i \in DOMAIN s
      PROVE  /\ b[i] \in DOMAIN p
             /\ Normalize(s)[i] = Normalize(p)[b[i]] /\ Normalize(t)[i] = Normalize(q)[b[i]]
             /\ Normalize(s)[i] \in Nat /\ Normalize(t)[i] \in Nat
  <2>1. b[i] \in DOMAIN p
    BY DEF Bijection, Injection
  <2>2. Normalize(s)[i] = Normalize(p)[b[i]]
    BY NormalizedRenamed
  <2>3. Normalize(t)[i] = Normalize(q)[b[i]]
    BY NormalizedRenamed
  <2> QED BY <2>1, <2>2, <2>3, NormalizedNaturals
<1>2. \A i \in DOMAIN s : h[i] = f[b[i]] /\ h[i] \in Int
  BY <1>1 DEF Abs
<1>3. DOMAIN h = DOMAIN s /\ DOMAIN f = DOMAIN p
  OBVIOUS
<1> HIDE DEF f, h
<1>4. SumFunction(h) = SumFunction(f)
  BY <1>2, <1>3, SumRenamed DEF SumFunction
<1> QED BY <1>4 DEF Divergence, f, h

(* The tension of a node in a graph of events. *)
LEMMA TensionNatural ==
    ASSUME NEW g \in AllGraphs, NEW n
    PROVE  Calculate(g, n) \in Nat
<1> DEFINE contributing == {m \in Neighbors(g, n) : Outs(g, m) # {}}
           original(m)  == [t \in Outs(g, m) |-> g[<<m, t>>]]
           perturbed(m) == [t \in Outs(g, m) |-> IF t = n THEN 0 ELSE g[<<m, t>>]]
           div == [m \in contributing |-> Divergence(original(m), perturbed(m))]
<1>1. IsFiniteSet(Ends(g))
  BY AnyGraph
<1>2. IsFiniteSet(contributing) /\ Cardinality(contributing) \in Nat
  <2>1. contributing \in SUBSET Ends(g)
    BY DEF Neighbors, Outs, Ins
  <2> HIDE DEF contributing
  <2> QED BY <1>1, <2>1, FS_Subset, FS_CardinalityType
<1>3. ASSUME NEW m PROVE Divergence(original(m), perturbed(m)) \in Nat
  <2>1. IsFiniteSet(Outs(g, m))
    <3>1. Outs(g, m) \in SUBSET Ends(g)
      BY DEF Outs
    <3> QED BY <1>1, <3>1, FS_Subset
  <2>2. \A t \in Outs(g, m) : g[<<m, t>>] \in Nat
    BY AnyGraph DEF Outs
  <2> DEFINE p == original(m)
             q == perturbed(m)
  <2>3. DOMAIN p = Outs(g, m) /\ DOMAIN q = Outs(g, m)
    OBVIOUS
  <2>4. \A t \in Outs(g, m) : p[t] \in Nat /\ q[t] \in Nat
    BY <2>2
  <2> HIDE DEF p, q
  <2>5. Divergence(p, q) \in Nat
    BY <2>1, <2>3, <2>4, DivergenceNatural
  <2> QED BY <2>5 DEF p, q
<1>4. SumFunction(div) \in Nat
  <2>1. DOMAIN div = contributing /\ \A m \in contributing : div[m] \in Nat
    BY <1>3
  <2> HIDE DEF div, contributing
  <2> QED BY <1>2, <2>1, SumOfNaturals
<1>5. Calculate(g, n) = IF contributing = {} THEN 0
                        ELSE SumFunction(div) \div Cardinality(contributing)
  BY DEF Calculate
<1> HIDE DEF div, contributing
<1>6. contributing # {} => Cardinality(contributing) # 0
  BY <1>2, FS_EmptySet
<1>7. contributing # {} => SumFunction(div) \div Cardinality(contributing) \in Nat
  BY <1>2, <1>4, <1>6, Quotient
<1> QED BY <1>5, <1>7

-----------------------------------------------------------------------------
(* Enumerations. *)

(* An enumeration of a finite set has all of its members. *)
LEMMA EnumerationRange ==
    ASSUME NEW S, IsFiniteSet(S), NEW f \in [1 .. Cardinality(S) -> S], IsInjective(f)
    PROVE  Range(f) = S
<1>1. Cardinality(S) \in Nat
  BY FS_CardinalityType
<1>2. IsFiniteSet(1 .. Cardinality(S)) /\ Cardinality(1 .. Cardinality(S)) = Cardinality(S)
  BY <1>1, FS_Interval
<1>3. f \in Injection(1 .. Cardinality(S), S)
  BY DEF Injection, IsInjective
<1>4. f \in Surjection(1 .. Cardinality(S), S)
  BY <1>2, <1>3, FS_Injection
<1> QED BY <1>4 DEF Surjection, Range

LEMMA AnyEnumeration ==
    ASSUME NEW S, IsFiniteSet(S)
    PROVE  /\ SetToSeq(S) \in [1 .. Cardinality(S) -> S] /\ Range(SetToSeq(S)) = S
           /\ \A f \in SetToSeqs(S) : Range(f) = S
<1>1. ExistsBijection(1 .. Cardinality(S), S)
  BY FS_CardinalityType
<1>2. \E f \in [1 .. Cardinality(S) -> S] : IsInjective(f)
  BY <1>1 DEF ExistsBijection, Bijection, Injection, IsInjective
<1>3. SetToSeq(S) \in [1 .. Cardinality(S) -> S] /\ IsInjective(SetToSeq(S))
  BY <1>2 DEF SetToSeq
<1>4. ASSUME NEW f \in SetToSeqs(S) PROVE Range(f) = S
  <2>1. f \in [1 .. Cardinality(S) -> S] /\ IsInjective(f)
    BY DEF SetToSeqs, IsInjective
  <2> QED BY <2>1, EnumerationRange
<1> QED BY <1>3, <1>4, EnumerationRange

-----------------------------------------------------------------------------
(* The calculator's chunks have every node. *)

LEMMA Divided ==
    ASSUME NEW x \in Nat, NEW d \in Nat \ {0}
    PROVE  x \div d \in Nat /\ (x \div d) * d <= x /\ x < (x \div d) * d + d
OBVIOUS

LEMMA SameMultiples ==
    ASSUME NEW x \in Nat, NEW y \in Nat, NEW d \in Nat \ {0}, x * d < y * d
    PROVE  x < y
OBVIOUS

LEMMA ChunksCover ==
    ASSUME NEW S, NEW nodes \in Seq(S), nodes # <<>>
    PROVE  LET chunks == partitionNodes(nodes, NumWorkers)
           IN  UNION {Range(chunks[k]) : k \in DOMAIN chunks} = Range(nodes)
<1> DEFINE L == Len(nodes)
           size == (L + NumWorkers - 1) \div NumWorkers
           last == (L + size - 1) \div size
           end(k) == IF k * size > L THEN L ELSE k * size
           chunk(k) == SubSeq(nodes, (k - 1) * size + 1, end(k))
           chunks == partitionNodes(nodes, NumWorkers)
<1>1. L \in Nat /\ L > 0 /\ NumWorkers \in Nat \ {0}
  BY LimitsAssumption
<1>2. size \in Nat \ {0}
  <2>1. size \in Nat /\ L + NumWorkers - 1 < size * NumWorkers + NumWorkers
    BY <1>1, Divided
  <2> HIDE DEF size
  <2>2. size # 0
    BY <1>1, <2>1
  <2> QED BY <2>1, <2>2
<1>3. DOMAIN chunks = 1 .. last /\ \A k \in 1 .. last : chunks[k] = chunk(k)
  BY DEF partitionNodes
<1> HIDE DEF size, L, chunks
<1>4. last \in Nat /\ last * size >= L
  <2>1. L + size - 1 \in Nat
    BY <1>1, <1>2
  <2>2. last \in Nat /\ L + size - 1 < last * size + size
    BY <1>2, <2>1, Divided
  <2> HIDE DEF last
  <2>3. last * size \in Nat
    BY <1>2, <2>2
  <2> QED BY <1>1, <1>2, <2>2, <2>3
<1> HIDE DEF last
<1>5. ASSUME NEW k \in 1 .. last
      PROVE  /\ (k - 1) * size \in Nat /\ end(k) \in 0 .. L
             /\ Range(chunk(k)) = {nodes[i] : i \in (k - 1) * size + 1 .. end(k)}
  <2>1. (k - 1) * size \in Nat /\ k * size \in Nat
    BY <1>2, <1>4
  <2>2. end(k) \in 0 .. L
    BY <1>1, <2>1
  <2> DEFINE m == (k - 1) * size + 1
             n == end(k)
  <2>3. m \in Nat /\ m >= 1 /\ n \in 0 .. L
    BY <2>1, <2>2
  <2> HIDE DEF m, n
  <2>4. \A i \in m .. n : nodes[i] \in S
    BY <1>1, <2>3 DEF L
  <2>5. /\ SubSeq(nodes, m, n) \in Seq(S)
        /\ Len(SubSeq(nodes, m, n)) = IF m <= n THEN n - m + 1 ELSE 0
        /\ \A i \in 1 .. n - m + 1 : SubSeq(nodes, m, n)[i] = nodes[m + i - 1]
    BY <1>1, <2>3, <2>4, SubSeqProperties
  <2>6. DOMAIN SubSeq(nodes, m, n) = 1 .. n - m + 1
    BY <1>1, <2>3, <2>5
  <2>7. ASSUME NEW i \in m .. n
        PROVE  i - m + 1 \in 1 .. n - m + 1 /\ SubSeq(nodes, m, n)[i - m + 1] = nodes[i]
    BY <1>1, <2>3, <2>5
  <2>8. ASSUME NEW j \in 1 .. n - m + 1
        PROVE  m + j - 1 \in m .. n /\ SubSeq(nodes, m, n)[j] = nodes[m + j - 1]
    BY <1>1, <2>3, <2>5
  <2>9. Range(SubSeq(nodes, m, n)) = {nodes[i] : i \in m .. n}
    <3> DEFINE sub == SubSeq(nodes, m, n)
    <3> HIDE DEF sub
    <3>1. Range(sub) = {sub[j] : j \in 1 .. n - m + 1}
      BY <2>6 DEF Range, sub
    <3>2. \A j \in 1 .. n - m + 1 : sub[j] \in {nodes[i] : i \in m .. n}
      BY <2>8 DEF sub
    <3>3. \A i \in m .. n : nodes[i] \in {sub[j] : j \in 1 .. n - m + 1}
      BY <2>7 DEF sub
    <3> QED BY <3>1, <3>2, <3>3 DEF sub
  <2> QED BY <2>1, <2>2, <2>9 DEF m, n
<1>6. ASSUME NEW i \in 1 .. L
      PROVE  \E k \in 1 .. last : i \in (k - 1) * size + 1 .. end(k)
  <2> DEFINE q == (i - 1) \div size
  <2>1. i - 1 \in Nat
    BY <1>1
  <2>2. q \in Nat /\ q * size <= i - 1 /\ i - 1 < q * size + size
    BY <1>2, <2>1, Divided
  <2> HIDE DEF q
  <2>3. q * size \in Nat /\ last * size \in Nat
    BY <1>2, <1>4, <2>2
  <2>4. q * size < last * size
    BY <1>1, <1>4, <2>2, <2>3
  <2>5. q < last
    BY <1>2, <1>4, <2>2, <2>4, SameMultiples
  <2>6. (q + 1) * size = q * size + size /\ (q + 1) - 1 = q
    BY <1>2, <2>2
  <2>7. i \in ((q + 1) - 1) * size + 1 .. end(q + 1)
    BY <1>1, <1>2, <2>2, <2>3, <2>6
  <2> QED BY <1>4, <2>2, <2>5, <2>7
<1> HIDE DEF chunk, end
<1>7. Range(nodes) = {nodes[i] : i \in 1 .. L}
  BY DEF Range, L
<1>8. UNION {Range(chunks[k]) : k \in DOMAIN chunks} \subseteq Range(nodes)
  <2> SUFFICES ASSUME NEW k \in 1 .. last, NEW x \in Range(chunk(k))
               PROVE  x \in Range(nodes)
    BY <1>3
  <2>1. PICK i \in (k - 1) * size + 1 .. end(k) : x = nodes[i]
    BY <1>5
  <2>2. (k - 1) * size \in Nat /\ end(k) \in 0 .. L
    BY <1>5
  <2>3. i \in 1 .. L
    BY <1>1, <2>2
  <2> QED BY <1>7, <2>1, <2>3
<1>9. Range(nodes) \subseteq UNION {Range(chunks[k]) : k \in DOMAIN chunks}
  BY <1>3, <1>5, <1>6, <1>7
<1> QED BY <1>8, <1>9 DEF chunks

(* The parallel calculator gives every node the tension that Calculate does. *)
LEMMA CalculateAll ==
    ASSUME NEW g \in AllGraphs
    PROVE  CalculateAllParallel(g) = [n \in Ends(g) |-> Calculate(g, n)]
<1> DEFINE nodes == SetToSeq(Ends(g))
           chunks == partitionNodes(nodes, NumWorkers)
           taken == IF Len(nodes) < ParallelFrom \/ nodes = <<>> THEN Ends(g)
                    ELSE UNION {Range(chunks[k]) : k \in DOMAIN chunks}
<1>1. IsFiniteSet(Ends(g))
  BY AnyGraph
<1>2. nodes \in [1 .. Cardinality(Ends(g)) -> Ends(g)] /\ Range(nodes) = Ends(g)
  BY <1>1, AnyEnumeration
<1>3. nodes \in Seq(Ends(g))
  BY <1>1, <1>2, FS_CardinalityType
<1> HIDE DEF nodes
<1>4. taken = Ends(g)
  <2>1. CASE nodes # <<>>
    BY <1>2, <1>3, <2>1, ChunksCover
  <2> QED BY <2>1
<1>5. CalculateAllParallel(g) = [n \in taken |-> Calculate(g, n)]
  BY DEF CalculateAllParallel, nodes
<1> QED BY <1>4, <1>5

-----------------------------------------------------------------------------
(* Lines in flat arrays. *)

(* The ascending members of a set are its members. *)
LEMMA AscendingMembers ==
    ASSUME NEW S, IsFiniteSet(S), S \subseteq Nat
    PROVE  Ascending(S) \in Bijection(1 .. Cardinality(S), S)
<1> DEFINE C == Cardinality(S)
           Upto(n) == {m \in S : m <= n}
           f == [n \in S |-> Cardinality(Upto(n))]
           A == Ascending(S)
<1>1. C \in Nat
  BY FS_CardinalityType
<1>2. ASSUME NEW n \in S PROVE f[n] \in 1 .. C
  <2>1. Upto(n) \in SUBSET S /\ n \in Upto(n)
    OBVIOUS
  <2>2. IsFiniteSet(Upto(n)) /\ Cardinality(Upto(n)) <= C
    BY <2>1, FS_Subset
  <2>3. Cardinality(Upto(n)) \in Nat
    BY <2>2, FS_CardinalityType
  <2>4. Cardinality(Upto(n)) # 0
    BY <2>1, <2>2, FS_EmptySet
  <2>5. f[n] = Cardinality(Upto(n))
    OBVIOUS
  <2> HIDE DEF Upto, C, f
  <2> QED BY <1>1, <2>2, <2>3, <2>4, <2>5
<1>3. ASSUME NEW m \in S, NEW n \in S, m < n PROVE f[m] # f[n]
  <2>1. Upto(m) \in SUBSET Upto(n) /\ Upto(m) # Upto(n)
    <3>1. n \in Upto(n) /\ n \notin Upto(m)
      BY <1>3
    <3>2. \A k \in S : k <= m => k <= n
      BY <1>3
    <3> QED BY <3>1, <3>2
  <2>2. IsFiniteSet(Upto(n))
    BY FS_Subset
  <2>3. Cardinality(Upto(m)) # Cardinality(Upto(n))
    BY <2>1, <2>2, FS_Subset
  <2> QED BY <2>3
<1>4. \A m, n \in S : f[m] = f[n] => m = n
  <2> HIDE DEF f
  <2>1. \A m, n \in S : ~(m < n) /\ ~(n < m) => m = n
    OBVIOUS
  <2> QED BY <1>3, <2>1
<1>5. f \in Injection(S, 1 .. C)
  <2>1. f \in [S -> 1 .. C]
    BY <1>2
  <2> HIDE DEF f
  <2> QED BY <1>4, <2>1 DEF Injection, IsInjective
<1>6. IsFiniteSet(1 .. C) /\ Cardinality(1 .. C) = C
  BY <1>1, FS_Interval
<1>7. \A k \in 1 .. C : \E n \in S : f[n] = k
  <2>1. f \in Surjection(S, 1 .. C)
    BY <1>1, <1>5, <1>6, FS_Injection
  <2> HIDE DEF f, C
  <2> QED BY <2>1 DEF Surjection
<1>8. \A k \in 1 .. C : A[k] \in S /\ f[A[k]] = k
  <2> SUFFICES ASSUME NEW k \in 1 .. C PROVE A[k] \in S /\ f[A[k]] = k
    OBVIOUS
  <2>1. A[k] = CHOOSE n \in S : Cardinality(Upto(n)) = k
    BY DEF Ascending
  <2>2. \E n \in S : Cardinality(Upto(n)) = k
    BY <1>7
  <2>3. A[k] \in S /\ Cardinality(Upto(A[k])) = k
    <3> HIDE DEF Upto, A
    <3> QED BY <2>1, <2>2
  <2> QED BY <2>3
<1>9. DOMAIN A = 1 .. C /\ A = [k \in 1 .. C |-> A[k]]
  <2> DEFINE e(k) == CHOOSE n \in S : Cardinality(Upto(n)) = k
  <2>1. A = [k \in 1 .. C |-> e(k)]
    BY DEF Ascending
  <2> HIDE DEF A, C, e
  <2> QED BY <2>1
<1> HIDE DEF A, f, C
<1>10. A \in Injection(1 .. C, S)
  <2>1. A \in [1 .. C -> S]
    BY <1>8, <1>9
  <2>2. \A j, k \in 1 .. C : A[j] = A[k] => j = k
    BY <1>8
  <2> QED BY <2>1, <2>2 DEF Injection, IsInjective
<1>11. A \in Surjection(1 .. C, S)
  <2>1. \A n \in S : f[n] \in 1 .. C /\ A[f[n]] = n
    BY <1>2, <1>4, <1>8
  <2>2. A \in [1 .. C -> S]
    BY <1>8, <1>9
  <2> QED BY <2>1, <2>2 DEF Surjection
<1> QED BY <1>10, <1>11 DEF Bijection, A, C

(* The sum of the first i of some integers. *)
LEMMA SumOfPrefix ==
    ASSUME NEW f, NEW i \in Nat \ {0}, \A j \in 1 .. i : f[j] \in Int
    PROVE  SumFunctionOnSet(f, 1 .. i) = f[i] + SumFunctionOnSet(f, 1 .. i - 1)
<1>1. PICK s : s = 1 .. i
  OBVIOUS
<1>2. IsFiniteSet(s)
  BY <1>1, FS_Interval
<1>3. i \in s /\ (\A j \in s : f[j] \in Int) /\ s \ {i} = 1 .. i - 1
  BY <1>1
<1>4. SumFunctionOnSet(f, s) = f[i] + SumFunctionOnSet(f, s \ {i})
  BY ONLY <1>2, <1>3, SumTakes
<1> QED BY <1>1, <1>3, <1>4, Zenon

(* Where lines end: each where the one before it does, and its length more.  *)
LEMMA PrefixSums ==
    ASSUME NEW counts \in Seq(Nat)
    PROVE  LET ptr == PrefixSum(counts)
           IN  /\ \A i \in 0 .. Len(counts) : ptr[i] \in Nat
               /\ ptr[0] = 0
               /\ \A i \in 1 .. Len(counts) : ptr[i] = ptr[i - 1] + counts[i]
               /\ \A i, j \in 0 .. Len(counts) : i <= j => ptr[i] <= ptr[j]
<1> DEFINE ptr == PrefixSum(counts)
           n == Len(counts)
           upto(i) == [j \in 1 .. i |-> counts[j]]
<1>1. n \in Nat /\ \A i \in 1 .. n : counts[i] \in Nat
  OBVIOUS
<1>2. \A i \in 0 .. n : ptr[i] = SumFunctionOnSet(upto(i), 1 .. i)
  <2>1. \A i \in 0 .. n : DOMAIN upto(i) = 1 .. i
    OBVIOUS
  <2>2. \A i \in 0 .. n : ptr[i] = SumFunction(upto(i))
    BY DEF PrefixSum
  <2> HIDE DEF ptr, upto
  <2> QED BY <2>1, <2>2 DEF SumFunction
<1>3. \A i \in 0 .. n : ptr[i] \in Nat
  <2> SUFFICES ASSUME NEW i \in 0 .. n PROVE ptr[i] \in Nat
    OBVIOUS
  <2> DEFINE f == upto(i)
  <2>1. DOMAIN f = 1 .. i /\ IsFiniteSet(1 .. i) /\ \A j \in 1 .. i : f[j] \in Nat
    BY <1>1, FS_Interval
  <2>2. ptr[i] = SumFunction(f)
    BY DEF PrefixSum
  <2> HIDE DEF f
  <2> QED BY <2>1, <2>2, SumOfNaturals
<1>4. ptr[0] = 0
  <2>1. 1 .. 0 = {}
    OBVIOUS
  <2>2. \A f : SumFunctionOnSet(f, {}) = 0
    BY FS_EmptySet, SumSteps
  <2>3. 0 \in 0 .. n
    BY <1>1
  <2> HIDE DEF ptr, upto
  <2>4. ptr[0] = SumFunctionOnSet(upto(0), 1 .. 0)
    BY <1>2, <2>3
  <2> QED BY <2>1, <2>2, <2>4
<1>5. ASSUME NEW i \in 1 .. n PROVE ptr[i] = ptr[i - 1] + counts[i]
  <2> DEFINE f == upto(i)
             h == upto(i - 1)
             S == 1 .. i - 1
             b == [j \in S |-> j]
  <2>1. i - 1 \in 0 .. n /\ i \in 0 .. n /\ i \in 1 .. i /\ (1 .. i) \ {i} = S
    BY <1>1
  <2>2. IsFiniteSet(1 .. i) /\ IsFiniteSet(S)
    BY <2>1, FS_Interval
  <2>3. \A j \in 1 .. i : f[j] = counts[j] /\ f[j] \in Int
    BY <1>1
  <2>4. \A j \in S : b[j] = j /\ h[j] = f[b[j]] /\ h[j] \in Int
    BY <1>1
  <2>5. b \in Bijection(S, S)
    BY DEF Bijection, Injection, Surjection, IsInjective
  <2> HIDE DEF f, h, S, b
  <2>6. SumFunctionOnSet(f, 1 .. i) = f[i] + SumFunctionOnSet(f, S)
    <3>1. i \in Nat \ {0} /\ \A j \in 1 .. i : f[j] \in Int
      BY <1>1, <2>3
    <3> QED BY <3>1, SumOfPrefix DEF S
  <2>7. SumFunctionOnSet(h, S) = SumFunctionOnSet(f, S)
    BY <2>2, <2>4, <2>5, SumRenamed
  <2>8. ptr[i] = SumFunctionOnSet(f, 1 .. i) /\ ptr[i - 1] = SumFunctionOnSet(h, S)
    BY <1>2, <2>1 DEF f, h, S
  <2>9. ptr[i] \in Nat /\ ptr[i - 1] \in Nat /\ counts[i] \in Nat /\ f[i] = counts[i]
    BY <1>1, <1>3, <2>1, <2>3
  <2> HIDE DEF ptr
  <2> QED BY <2>1, <2>6, <2>7, <2>8, <2>9
<1> HIDE DEF ptr
<1>6. ASSUME NEW i \in 0 .. n, NEW j \in 0 .. n, i <= j PROVE ptr[i] <= ptr[j]
  <2> DEFINE Z == {k \in Nat : k <= n /\ i <= k /\ ~(ptr[i] <= ptr[k])}
  <2> SUFFICES ASSUME Z # {} PROVE FALSE
    BY <1>1, <1>6
  <2>1. PICK k \in Z : \A m \in Z : k <= m
    <3>1. Z \subseteq Nat
      OBVIOUS
    <3> HIDE DEF Z
    <3> QED BY <3>1, Least
  <2>2. k \in 0 .. n /\ i <= k /\ ~(ptr[i] <= ptr[k]) /\ ptr[i] \in Nat /\ ptr[k] \in Nat
    BY <1>1, <1>3
  <2>3. i # k
    BY <2>2
  <2>4. k \in 1 .. n /\ k - 1 \in 0 .. n /\ i <= k - 1
    BY <1>1, <2>2, <2>3
  <2>5. k - 1 \notin Z
    BY <2>1, <2>4
  <2>6. ptr[i] <= ptr[k - 1]
    BY <2>4, <2>5
  <2>7. ptr[k] = ptr[k - 1] + counts[k] /\ counts[k] \in Nat /\ ptr[k - 1] \in Nat
    BY <1>1, <1>3, <1>5, <2>4
  <2>8. \A a, x, y, z \in Nat : a <= x /\ y = x + z => a <= y
    OBVIOUS
  <2> QED BY <2>2, <2>6, <2>7, <2>8, Zenon
<1> QED BY <1>3, <1>4, <1>5, <1>6 DEF ptr

(* Lines of as many values as counts says. *)
Counted(lines, counts, V) ==
    /\ counts \in Seq(Nat)
    /\ DOMAIN lines = 1 .. Len(counts) /\ Len(lines) = Len(counts)
    /\ \A i \in 1 .. Len(counts) : lines[i] \in [1 .. counts[i] -> V]

(* A line that was filled in is read back. *)
LEMMA FilledLines ==
    ASSUME NEW V, NEW lines, NEW counts, Counted(lines, counts, V)
    PROVE  LET ptr == PrefixSum(counts)
           IN  \A i \in 1 .. Len(counts) :
                  /\ Line(ptr, Fill(ptr, lines), i) \in [1 .. counts[i] -> V]
                  /\ \A k \in 1 .. counts[i] : Line(ptr, Fill(ptr, lines), i)[k] = lines[i][k]
<1> DEFINE ptr == PrefixSum(counts)
           n == Len(counts)
           all == Fill(ptr, lines)
<1>1. /\ counts \in Seq(Nat) /\ n \in Nat /\ \A i \in 1 .. n : counts[i] \in Nat
      /\ DOMAIN lines = 1 .. n /\ Len(lines) = n
      /\ \A i \in 1 .. n : lines[i] \in [1 .. counts[i] -> V]
  BY DEF Counted
<1>2. /\ \A i \in 0 .. n : ptr[i] \in Nat
      /\ \A i \in 1 .. n : ptr[i] = ptr[i - 1] + counts[i]
      /\ \A i, j \in 0 .. n : i <= j => ptr[i] <= ptr[j]
  BY <1>1, PrefixSums
<1>3. /\ DOMAIN all = 1 .. ptr[n]
      /\ \A k \in 1 .. ptr[n] :
            \E i : /\ i = CHOOSE j \in 1 .. n : k \in ptr[j - 1] + 1 .. ptr[j]
                   /\ all[k] = lines[i][k - ptr[i - 1]]
  BY <1>1 DEF Fill
<1> HIDE DEF ptr, all
<1>4. ASSUME NEW i \in 1 .. n, NEW k \in ptr[i - 1] + 1 .. ptr[i]
      PROVE  /\ k - ptr[i - 1] \in 1 .. counts[i]
             /\ all[k] = lines[i][k - ptr[i - 1]] /\ all[k] \in V
  <2>1. i - 1 \in 0 .. n /\ i \in 0 .. n /\ n \in 0 .. n
    BY <1>1
  <2>2. ptr[i] = ptr[i - 1] + counts[i] /\ ptr[i - 1] \in Nat /\ ptr[i] \in Nat /\ ptr[n] \in Nat
        /\ ptr[i] <= ptr[n] /\ counts[i] \in Nat
    BY <1>1, <1>2, <2>1
  <2>3. k - ptr[i - 1] \in 1 .. counts[i] /\ k \in 1 .. ptr[n]
    <3>1. \A a, b, c, d \in Nat : b = a + c /\ b <= d =>
            \A x \in a + 1 .. b : x - a \in 1 .. c /\ x \in 1 .. d
      OBVIOUS
    <3> QED BY <2>2, <3>1, Zenon
  <2>4. ASSUME NEW j \in 1 .. n, k \in ptr[j - 1] + 1 .. ptr[j] PROVE j = i
    <3>1. j - 1 \in 0 .. n /\ j \in 0 .. n /\ ptr[j - 1] \in Nat /\ ptr[j] \in Nat
      BY <1>1, <1>2
    <3> DEFINE a == ptr[i - 1]
               b == ptr[i]
               c == ptr[j - 1]
               d == ptr[j]
    <3>2. a < k /\ k <= b /\ c < k /\ k <= d /\ k \in Int
      <4>1. a \in Nat /\ b \in Nat /\ c \in Nat /\ d \in Nat
        BY <2>2, <3>1
      <4>2. k \in a + 1 .. b /\ k \in c + 1 .. d
        BY <2>4
      <4> HIDE DEF a, b, c, d
      <4> QED BY <4>1, <4>2
    <3>3. ~(j <= i - 1)
      <4>1. j <= i - 1 => ptr[j] <= ptr[i - 1]
        BY <1>2, <2>1, <3>1
      <4> QED BY <2>2, <3>1, <3>2, <4>1
    <3>4. ~(i <= j - 1)
      <4>1. i <= j - 1 => ptr[i] <= ptr[j - 1]
        BY <1>2, <2>1, <3>1
      <4> QED BY <2>2, <3>1, <3>2, <4>1
    <3> QED BY <3>3, <3>4
  <2>5. (CHOOSE j \in 1 .. n : k \in ptr[j - 1] + 1 .. ptr[j]) = i
    BY <2>4
  <2>6. all[k] = lines[i][k - ptr[i - 1]]
    BY <1>3, <2>3, <2>5
  <2> QED BY <1>1, <2>3, <2>6
<1>5. ASSUME NEW i \in 1 .. n
      PROVE  /\ Line(ptr, all, i) \in [1 .. counts[i] -> V]
             /\ \A k \in 1 .. counts[i] : Line(ptr, all, i)[k] = lines[i][k]
  <2> DEFINE lo == ptr[i - 1] + 1
             hi == ptr[i]
             line == SubSeq(all, lo, hi)
  <2>1. i - 1 \in 0 .. n /\ i \in 0 .. n
    BY <1>1
  <2>2. ptr[i] = ptr[i - 1] + counts[i] /\ ptr[i - 1] \in Nat /\ ptr[i] \in Nat /\ counts[i] \in Nat
    BY <1>1, <1>2, <2>1
  <2>3. lo \in Int /\ hi \in Int /\ hi - lo + 1 = counts[i] /\ (~(lo <= hi) => counts[i] = 0)
    BY <2>2
  <2>4. \A k \in lo .. hi : all[k] \in V
    BY <1>4
  <2>5. /\ line \in Seq(V) /\ Len(line) = counts[i]
        /\ \A k \in 1 .. counts[i] : line[k] = all[lo + k - 1]
    <3> HIDE DEF lo, hi
    <3>1. /\ line \in Seq(V) /\ Len(line) = IF lo <= hi THEN hi - lo + 1 ELSE 0
          /\ \A k \in 1 .. hi - lo + 1 : line[k] = all[lo + k - 1]
      BY <2>3, <2>4, SubSeqProperties
    <3> QED BY <2>2, <2>3, <3>1
  <2>6. ASSUME NEW k \in 1 .. counts[i] PROVE line[k] = lines[i][k]
    <3>1. /\ lo + k - 1 \in ptr[i - 1] + 1 .. ptr[i]
          /\ (lo + k - 1) - ptr[i - 1] = k
      BY <2>2
    <3>2. all[lo + k - 1] = lines[i][k]
      BY <1>4, <3>1
    <3> QED BY <2>5, <3>2
  <2>7. Line(ptr, all, i) = line
    BY DEF Line
  <2> HIDE DEF line
  <2>8. line \in [1 .. counts[i] -> V]
    BY <2>5
  <2> QED BY <2>6, <2>7, <2>8
<1> QED BY <1>5 DEF ptr, all

-----------------------------------------------------------------------------
(* What a graph is serialized to. *)

LEMMA Places ==
    ASSUME NEW n \in NodeIds
    PROVE  Place(n) \in Nat /\ Order[Place(n)] = n
<1>1. \E i \in DOMAIN Order : Order[i] = n
  BY DEF NodeIds, Range
<1>2. Place(n) \in DOMAIN Order /\ Order[Place(n)] = n
  BY <1>1 DEF Place
<1> QED BY <1>2, OrderAssumption

(* Every node has one number. *)
LEMMA NodesNumbered ==
    ASSUME NEW g \in AllGraphs
    PROVE  NodeIDs(g) \in Bijection(1 .. Cardinality(Ends(g)), Ends(g))
<1> DEFINE E == Ends(g)
           places == {Place(n) : n \in E}
           p == [n \in E |-> Place(n)]
           A == Ascending(places)
           C == Cardinality(E)
<1>1. E \subseteq NodeIds /\ IsFiniteSet(E)
  BY AnyGraph
<1>2. \A n \in E : Place(n) \in Nat /\ Order[Place(n)] = n
  BY <1>1, Places
<1>3. p \in Bijection(E, places)
  <2>1. p \in [E -> places] /\ \A y \in places : \E n \in E : p[n] = y
    OBVIOUS
  <2>2. \A m, n \in E : p[m] = p[n] => m = n
    BY <1>2
  <2> HIDE DEF p, places
  <2> QED BY <2>1, <2>2, Bijections
<1>4. IsFiniteSet(places) /\ Cardinality(places) = C /\ places \subseteq Nat
  <2>1. places \subseteq Nat
    BY <1>2
  <2> HIDE DEF p, places
  <2> QED BY <1>1, <1>3, <2>1, SameSize
<1>5. A \in Bijection(1 .. C, places)
  <2> HIDE DEF places
  <2> QED BY <1>4, AscendingMembers
<1>6. /\ A \in [1 .. C -> places] /\ \A i, j \in 1 .. C : A[i] = A[j] => i = j
      /\ \A y \in places : \E i \in 1 .. C : A[i] = y
  <2>1. C \in Nat
    BY <1>1, FS_CardinalityType
  <2> HIDE DEF A, places, C
  <2> QED BY <1>5, <2>1, Bijections
<1>7. NodeIDs(g) = [i \in 1 .. C |-> Order[A[i]]]
  <2>1. NodeIDs(g) = [i \in DOMAIN A |-> Order[A[i]]]
    BY DEF NodeIDs
  <2> HIDE DEF A, places
  <2> QED BY <1>6, <2>1
<1> DEFINE ids == [i \in 1 .. C |-> Order[A[i]]]
<1> HIDE DEF A, C
<1>8. \A n \in E : \A i \in 1 .. C : A[i] = Place(n) => ids[i] = n
  BY <1>2
<1>9. \A i \in 1 .. C : \E n \in E : A[i] = Place(n) /\ ids[i] = n
  BY <1>6, <1>8
<1>10. ids \in [1 .. C -> E]
  BY <1>9
<1>11. \A i, j \in 1 .. C : ids[i] = ids[j] => i = j
  <2> HIDE DEF ids
  <2> QED BY <1>6, <1>9
<1>12. \A n \in E : \E i \in 1 .. C : ids[i] = n
  <2>1. \A n \in E : Place(n) \in places
    OBVIOUS
  <2> HIDE DEF ids, places
  <2> QED BY <1>6, <1>8, <2>1
<1> HIDE DEF ids
<1>13. ids \in Bijection(1 .. C, E)
  BY <1>10, <1>11, <1>12, Bijections
<1> QED BY <1>7, <1>13 DEF ids, C

(* A line that has the numbers of some nodes, each once. *)
Lists(ids, line, nodes) ==
    /\ line \in [1 .. Cardinality(nodes) -> DOMAIN ids]
    /\ [k \in 1 .. Cardinality(nodes) |-> ids[line[k]]] \in Bijection(1 .. Cardinality(nodes), nodes)

LEMMA NumberedLists ==
    ASSUME NEW C \in Nat, NEW E, NEW ids \in Bijection(1 .. C, E), NEW nodes, nodes \subseteq E
    PROVE  Lists(ids, Numbered(ids, nodes), nodes)
<1> DEFINE numbers == {i \in DOMAIN ids : ids[i] \in nodes}
           f == [i \in numbers |-> ids[i]]
           A == Numbered(ids, nodes)
           D == Cardinality(nodes)
           h == [k \in 1 .. D |-> ids[A[k]]]
<1>1. /\ ids \in [1 .. C -> E] /\ \A i, j \in 1 .. C : ids[i] = ids[j] => i = j
      /\ \A y \in E : \E i \in 1 .. C : ids[i] = y
  BY Bijections
<1>2. numbers \subseteq 1 .. C /\ numbers \subseteq Nat /\ DOMAIN ids = 1 .. C
  BY <1>1
<1>3. IsFiniteSet(numbers)
  <2>1. IsFiniteSet(1 .. C)
    BY FS_Interval
  <2> HIDE DEF numbers
  <2> QED BY <1>2, <2>1, FS_Subset
<1>4. f \in Bijection(numbers, nodes)
  <2>1. f \in [numbers -> nodes]
    OBVIOUS
  <2>2. \A i, j \in numbers : f[i] = f[j] => i = j
    BY <1>1
  <2>3. \A y \in nodes : \E i \in numbers : f[i] = y
    BY <1>1
  <2> HIDE DEF f, numbers
  <2> QED BY <2>1, <2>2, <2>3, Bijections
<1>5. Cardinality(numbers) = D
  <2> HIDE DEF f, numbers
  <2> QED BY <1>3, <1>4, SameSize
<1>6. A \in Bijection(1 .. D, numbers)
  <2>1. A = Ascending(numbers)
    BY DEF Numbered
  <2> HIDE DEF A, numbers, D
  <2> QED BY <1>2, <1>3, <1>5, <2>1, AscendingMembers
<1> HIDE DEF A, D
<1>7. /\ A \in [1 .. D -> numbers] /\ \A i, j \in 1 .. D : A[i] = A[j] => i = j
      /\ \A y \in numbers : \E i \in 1 .. D : A[i] = y
  <2>1. D \in Nat
    BY <1>3, <1>5, FS_CardinalityType
  <2> HIDE DEF numbers
  <2> QED BY <1>6, <2>1, Bijections
<1>8. h \in Bijection(1 .. D, nodes)
  <2>1. \A k \in 1 .. D : A[k] \in numbers /\ h[k] = f[A[k]]
    BY <1>7
  <2>2. /\ f \in [numbers -> nodes] /\ \A i, j \in numbers : f[i] = f[j] => i = j
        /\ \A y \in nodes : \E i \in numbers : f[i] = y
    <3> HIDE DEF f, numbers
    <3> QED BY <1>4, Bijections
  <2> HIDE DEF f, numbers
  <2>3. h \in [1 .. D -> nodes]
    <3>1. \A k \in 1 .. D : h[k] \in nodes
      BY <2>1, <2>2
    <3> QED BY <3>1
  <2> HIDE DEF h
  <2>4. \A i, j \in 1 .. D : h[i] = h[j] => i = j
    BY <1>7, <2>1, <2>2
  <2>5. \A y \in nodes : \E i \in 1 .. D : h[i] = y
    BY <1>7, <2>1, <2>2
  <2> QED BY <2>3, <2>4, <2>5, Bijections
<1>9. A \in [1 .. D -> DOMAIN ids]
  BY <1>2, <1>7
<1> QED BY <1>8, <1>9 DEF Lists, A, D

(* The lines with the numbers of the nodes near each node. *)
Counts(near) == [j \in DOMAIN near |-> Cardinality(near[j])]
Lines(ids, near) == [j \in DOMAIN near |-> Numbered(ids, near[j])]

LEMMA NumberedLines ==
    ASSUME NEW C \in Nat, NEW E, IsFiniteSet(E), NEW ids \in Bijection(1 .. C, E),
           NEW near \in [1 .. C -> SUBSET E]
    PROVE  LET counts == Counts(near)
               ptr == PrefixSum(counts)
               lines == Lines(ids, near)
           IN  /\ counts \in Seq(Nat) /\ Len(counts) = C
               /\ \A i \in 1 .. C : /\ Lists(ids, lines[i], near[i])
                                     /\ lines[i] \in [1 .. counts[i] -> 1 .. C]
                                     /\ Line(ptr, Fill(ptr, lines), i) = lines[i]
                                     /\ ptr[i] - ptr[i - 1] = counts[i]
<1> DEFINE counts == Counts(near)
           ptr == PrefixSum(counts)
           lines == Lines(ids, near)
           V == 1 .. C
<1>1. DOMAIN ids = 1 .. C
  BY Bijections
<1>2. ASSUME NEW j \in 1 .. C
      PROVE  counts[j] \in Nat /\ Lists(ids, lines[j], near[j]) /\ lines[j] \in [1 .. counts[j] -> V]
  <2>1. near[j] \in SUBSET E /\ lines[j] = Numbered(ids, near[j]) /\ counts[j] = Cardinality(near[j])
    BY DEF Counts, Lines
  <2>2. Lists(ids, lines[j], near[j])
    BY <2>1, NumberedLists
  <2>3. counts[j] \in Nat
    BY <2>1, FS_Subset, FS_CardinalityType
  <2> HIDE DEF lines, counts
  <2> QED BY <1>1, <2>1, <2>2, <2>3 DEF Lists
<1>3. counts \in Seq(Nat) /\ Len(counts) = C
  BY <1>2 DEF Counts
<1>4. DOMAIN lines = 1 .. Len(counts) /\ Len(lines) = Len(counts)
  BY <1>3 DEF Lines
<1> HIDE DEF counts, lines, ptr, V
<1>5. Counted(lines, counts, V)
  BY <1>2, <1>3, <1>4 DEF Counted
<1>6. \A i \in 1 .. Len(counts) :
         /\ Line(ptr, Fill(ptr, lines), i) \in [1 .. counts[i] -> V]
         /\ \A k \in 1 .. counts[i] : Line(ptr, Fill(ptr, lines), i)[k] = lines[i][k]
  BY <1>5, FilledLines DEF ptr
<1>7. ASSUME NEW i \in 1 .. C
      PROVE  Line(ptr, Fill(ptr, lines), i) = lines[i] /\ ptr[i] - ptr[i - 1] = counts[i]
  <2> DEFINE line == Line(ptr, Fill(ptr, lines), i)
             D == 1 .. counts[i]
  <2>1. line \in [D -> V] /\ lines[i] \in [D -> V] /\ \A k \in D : line[k] = lines[i][k]
    BY <1>2, <1>3, <1>6
  <2>2. ptr[i] = ptr[i - 1] + counts[i] /\ ptr[i - 1] \in Nat /\ counts[i] \in Nat
    <3>1. i - 1 \in 0 .. C /\ i \in 1 .. Len(counts)
      BY <1>3
    <3> QED BY <1>2, <1>3, <3>1, PrefixSums DEF ptr
  <2> HIDE DEF line, D
  <2>3. line = lines[i]
    BY <2>1
  <2> QED BY <2>2, <2>3 DEF line
<1> QED BY <1>2, <1>3, <1>7 DEF counts, lines, ptr, V

(* The row of a node has those it has edges to, and their weights. *)
LEMMA Rows ==
    ASSUME NEW g \in AllGraphs, NEW i \in 1 .. Cardinality(Ends(g))
    PROVE  LET csr == SerializeCSR(g)
               ids == NodeIDs(g)
               out == Outs(g, ids[i])
               row == Line(csr.ptr, csr.col, i)
               val == Line(csr.ptr, csr.val, i)
           IN  /\ csr.ids = ids
               /\ csr.ptr[i] - csr.ptr[i - 1] = Cardinality(out)
               /\ Lists(ids, row, out)
               /\ val \in [1 .. Cardinality(out) -> Nat]
               /\ \A k \in 1 .. Cardinality(out) : val[k] = g[<<ids[i], ids[row[k]]>>]
<1> DEFINE C == Cardinality(Ends(g))
           ids == NodeIDs(g)
           out == [j \in 1 .. C |-> Outs(g, ids[j])]
           counts == Counts(out)
           ptr == PrefixSum(counts)
           rows == Lines(ids, out)
           weights == [j \in 1 .. C |-> [k \in DOMAIN rows[j] |-> g[<<ids[j], ids[rows[j][k]]>>]]]
           csr == SerializeCSR(g)
           row == Line(csr.ptr, csr.col, i)
           val == Line(csr.ptr, csr.val, i)
<1>1. C \in Nat /\ ids \in Bijection(1 .. C, Ends(g)) /\ IsFiniteSet(Ends(g))
  BY AnyGraph, NodesNumbered
<1>2. DOMAIN ids = 1 .. C
  <2> HIDE DEF ids, C
  <2> QED BY <1>1, Bijections
<1>3. csr = [ids |-> ids, ptr |-> ptr, col |-> Fill(ptr, rows), val |-> Fill(ptr, weights)]
  BY <1>2 DEF SerializeCSR, Counts, Lines
<1>4. /\ csr.ids = ids /\ csr.ptr = ptr
      /\ csr.col = Fill(ptr, rows) /\ csr.val = Fill(ptr, weights)
  <2> HIDE DEF csr, ids, ptr, rows, weights
  <2> QED BY <1>3
<1>5. \A j \in 1 .. C : out[j] = Outs(g, ids[j]) /\ counts[j] = Cardinality(out[j])
  BY DEF Counts
<1>6. out \in [1 .. C -> SUBSET Ends(g)]
  BY Around
<1>7. i \in 1 .. C
  OBVIOUS
<1>8. \A j \in 1 .. C : weights[j] = [k \in DOMAIN rows[j] |-> g[<<ids[j], ids[rows[j][k]]>>]]
  OBVIOUS
<1>9. DOMAIN weights = 1 .. C /\ Len(weights) = C
  BY <1>1
<1> HIDE DEF csr, ids, C, out, weights
<1>10. /\ counts \in Seq(Nat) /\ Len(counts) = C
       /\ \A j \in 1 .. C : /\ Lists(ids, rows[j], out[j])
                             /\ rows[j] \in [1 .. counts[j] -> 1 .. C]
                             /\ Line(ptr, Fill(ptr, rows), j) = rows[j]
                             /\ ptr[j] - ptr[j - 1] = counts[j]
  BY <1>1, <1>6, NumberedLines
<1> HIDE DEF counts, rows, ptr
<1>11. ASSUME NEW j \in 1 .. C PROVE weights[j] \in [1 .. counts[j] -> Nat]
  <2> DEFINE line == rows[j]
             h == [k \in 1 .. counts[j] |-> ids[line[k]]]
  <2>1. line \in [1 .. counts[j] -> 1 .. C] /\ h \in Bijection(1 .. counts[j], out[j])
    BY <1>5, <1>10 DEF Lists
  <2>2. counts[j] \in Nat
    BY <1>10
  <2>3. h \in [1 .. counts[j] -> out[j]]
    <3> HIDE DEF h
    <3> QED BY <2>1, <2>2, Bijections
  <2>4. \A k \in 1 .. counts[j] : h[k] = ids[line[k]] /\ h[k] \in out[j]
    BY <2>3
  <2>5. \A k \in 1 .. counts[j] : g[<<ids[j], ids[line[k]]>>] \in Nat
    BY <1>5, <2>4, Around
  <2>6. weights[j] = [k \in DOMAIN line |-> g[<<ids[j], ids[line[k]]>>]] /\ DOMAIN line = 1 .. counts[j]
    BY <1>8, <2>1
  <2> QED BY <2>5, <2>6
<1>12. Counted(weights, counts, Nat)
  BY <1>9, <1>10, <1>11 DEF Counted
<1>13. \A j \in 1 .. Len(counts) :
          /\ Line(ptr, Fill(ptr, weights), j) \in [1 .. counts[j] -> Nat]
          /\ \A k \in 1 .. counts[j] : Line(ptr, Fill(ptr, weights), j)[k] = weights[j][k]
  BY <1>12, FilledLines DEF ptr
<1>14. row = rows[i]
  BY <1>4, <1>7, <1>10
<1>15. /\ val \in [1 .. counts[i] -> Nat]
       /\ \A k \in 1 .. counts[i] : val[k] = weights[i][k]
  BY <1>4, <1>7, <1>10, <1>13
<1>16. \A k \in 1 .. counts[i] : weights[i][k] = g[<<ids[i], ids[rows[i][k]]>>]
  <2>1. weights[i] = [k \in DOMAIN rows[i] |-> g[<<ids[i], ids[rows[i][k]]>>]]
    BY <1>7, <1>8
  <2>2. DOMAIN rows[i] = 1 .. counts[i]
    BY <1>7, <1>10
  <2> QED BY <2>1, <2>2
<1>17. counts[i] = Cardinality(Outs(g, ids[i])) /\ out[i] = Outs(g, ids[i])
  BY <1>5, <1>7
<1>18. csr.ptr[i] - csr.ptr[i - 1] = counts[i] /\ Lists(ids, row, out[i])
  BY <1>4, <1>7, <1>10, <1>14
<1> HIDE DEF row, val
<1>19. /\ csr.ids = ids /\ csr.ptr[i] - csr.ptr[i - 1] = Cardinality(Outs(g, ids[i]))
       /\ Lists(ids, row, Outs(g, ids[i])) /\ val \in [1 .. Cardinality(Outs(g, ids[i])) -> Nat]
       /\ \A k \in 1 .. Cardinality(Outs(g, ids[i])) : val[k] = g[<<ids[i], ids[row[k]]>>]
  BY <1>4, <1>14, <1>15, <1>16, <1>17, <1>18
<1> QED BY <1>19 DEF row, val, csr, ids

(* The column of a node has those it has edges from. *)
LEMMA Columns ==
    ASSUME NEW g \in AllGraphs, NEW i \in 1 .. Cardinality(Ends(g))
    PROVE  LET csc == SerializeCSC(g)
               ids == NodeIDs(g)
           IN  Lists(ids, Line(csc.ptr, csc.row, i), Ins(g, ids[i]))
<1> DEFINE C == Cardinality(Ends(g))
           ids == NodeIDs(g)
           from == [j \in 1 .. C |-> Ins(g, ids[j])]
           counts == Counts(from)
           ptr == PrefixSum(counts)
           columns == Lines(ids, from)
           csc == SerializeCSC(g)
<1>1. C \in Nat /\ ids \in Bijection(1 .. C, Ends(g)) /\ IsFiniteSet(Ends(g))
  BY AnyGraph, NodesNumbered
<1>2. DOMAIN ids = 1 .. C
  <2> HIDE DEF ids, C
  <2> QED BY <1>1, Bijections
<1>3. csc = [ptr |-> ptr, row |-> Fill(ptr, columns)]
  BY <1>2 DEF SerializeCSC, Counts, Lines
<1>4. csc.ptr = ptr /\ csc.row = Fill(ptr, columns)
  <2> HIDE DEF csc, ids, ptr, columns
  <2> QED BY <1>3
<1>5. from \in [1 .. C -> SUBSET Ends(g)]
  BY Around
<1>6. i \in 1 .. C /\ from[i] = Ins(g, ids[i])
  OBVIOUS
<1> HIDE DEF csc, ids, C, from
<1>7. /\ counts \in Seq(Nat) /\ Len(counts) = C
      /\ \A j \in 1 .. C : /\ Lists(ids, columns[j], from[j])
                            /\ columns[j] \in [1 .. counts[j] -> 1 .. C]
                            /\ Line(ptr, Fill(ptr, columns), j) = columns[j]
                            /\ ptr[j] - ptr[j - 1] = counts[j]
  BY <1>1, <1>5, NumberedLines
<1> HIDE DEF counts, columns, ptr
<1>8. Lists(ids, Line(csc.ptr, csc.row, i), Ins(g, ids[i]))
  BY <1>4, <1>6, <1>7
<1> QED BY <1>8 DEF csc, ids

-----------------------------------------------------------------------------
(* The kernel computes what the calculator does. *)

(* The numbers in a line are those of its nodes. *)
LEMMA Listing ==
    ASSUME NEW C \in Nat, NEW E, NEW ids \in Bijection(1 .. C, E), NEW line, NEW nodes,
           IsFiniteSet(nodes), nodes \subseteq E, Lists(ids, line, nodes)
    PROVE  /\ line \in Seq(1 .. C) /\ Len(line) = Cardinality(nodes)
           /\ \A k \in 1 .. Len(line) : line[k] \in 1 .. C /\ ids[line[k]] \in nodes
           /\ \A m \in 1 .. C : ids[m] \in nodes => \E k \in 1 .. Len(line) : line[k] = m
<1> DEFINE D == Cardinality(nodes)
           h == [k \in 1 .. D |-> ids[line[k]]]
<1>1. D \in Nat
  BY FS_CardinalityType
<1>2. ids \in [1 .. C -> E] /\ \A i, j \in 1 .. C : ids[i] = ids[j] => i = j
  BY Bijections
<1>3. line \in [1 .. D -> 1 .. C] /\ h \in Bijection(1 .. D, nodes)
  BY <1>2 DEF Lists
<1> HIDE DEF D
<1>4. line \in Seq(1 .. C) /\ Len(line) = D
  BY <1>1, <1>3
<1>5. h \in [1 .. D -> nodes] /\ \A y \in nodes : \E k \in 1 .. D : h[k] = y
  <2> HIDE DEF h
  <2>1. h \in Bijection(1 .. D, nodes)
    BY <1>3
  <2> QED BY <2>1 DEF Bijection, Injection, Surjection, IsInjective
<1>6. \A k \in 1 .. D : line[k] \in 1 .. C /\ h[k] = ids[line[k]] /\ h[k] \in nodes
  BY <1>3, <1>5
<1> HIDE DEF h
<1>7. \A k \in 1 .. D : line[k] \in 1 .. C /\ ids[line[k]] \in nodes
  BY <1>6
<1>8. ASSUME NEW m \in 1 .. C, ids[m] \in nodes PROVE \E k \in 1 .. D : line[k] = m
  <2>1. PICK k \in 1 .. D : h[k] = ids[m]
    BY <1>5, <1>8
  <2> QED BY <1>2, <1>6, <2>1
<1> QED BY <1>4, <1>7, <1>8 DEF D

(* The kernel meets the neighbors; it drops none of them when the buffer has *)
(* room for all.                                                             *)
LEMMA Collected ==
    ASSUME NEW g \in AllGraphs, NEW i \in 1 .. Cardinality(Ends(g))
    PROVE  LET ids == NodeIDs(g)
               near == {m \in 1 .. Cardinality(Ends(g)) : ids[m] \in Neighbors(g, ids[i])}
               collected == collectNeighbors(SerializeCSR(g), SerializeCSC(g), i)
           IN  /\ collected \subseteq near
               /\ Cardinality(Neighbors(g, ids[i])) <= MaxNeighbors => collected = near
<1> DEFINE C == Cardinality(Ends(g))
           ids == NodeIDs(g)
           n == ids[i]
           near == {m \in 1 .. C : ids[m] \in Neighbors(g, n)}
           csr == SerializeCSR(g)
           csc == SerializeCSC(g)
           row == Line(csr.ptr, csr.col, i)
           column == Line(csc.ptr, csc.row, i)
           met == row \o column
           before(k) == {met[j] : j \in 1 .. k - 1}
           collected == {met[k] : k \in {k \in DOMAIN met : Cardinality(before(k)) < MaxNeighbors}}
<1>1. C \in Nat /\ IsFiniteSet(Ends(g)) /\ ids \in Bijection(1 .. C, Ends(g))
  BY AnyGraph, NodesNumbered
<1>2. /\ Outs(g, n) \subseteq Ends(g) /\ IsFiniteSet(Outs(g, n))
      /\ Ins(g, n) \subseteq Ends(g) /\ IsFiniteSet(Ins(g, n))
      /\ Neighbors(g, n) = Outs(g, n) \cup Ins(g, n)
  BY Around DEF Neighbors
<1>3. Lists(ids, row, Outs(g, n)) /\ Lists(ids, column, Ins(g, n))
  BY Rows, Columns
<1>4. collectNeighbors(csr, csc, i) = collected
  BY DEF collectNeighbors
<1> HIDE DEF C, ids, n, csr, csc, row, column
<1>5. /\ row \in Seq(1 .. C)
      /\ \A k \in 1 .. Len(row) : row[k] \in 1 .. C /\ ids[row[k]] \in Outs(g, n)
      /\ \A m \in 1 .. C : ids[m] \in Outs(g, n) => \E k \in 1 .. Len(row) : row[k] = m
  BY <1>1, <1>2, <1>3, Listing
<1>6. /\ column \in Seq(1 .. C)
      /\ \A k \in 1 .. Len(column) : column[k] \in 1 .. C /\ ids[column[k]] \in Ins(g, n)
      /\ \A m \in 1 .. C : ids[m] \in Ins(g, n) => \E k \in 1 .. Len(column) : column[k] = m
  BY <1>1, <1>2, <1>3, Listing
<1>7. /\ met \in Seq(1 .. C) /\ Len(met) = Len(row) + Len(column)
      /\ \A k \in 1 .. Len(row) + Len(column) :
            met[k] = IF k <= Len(row) THEN row[k] ELSE column[k - Len(row)]
  BY <1>5, <1>6, ConcatProperties
<1> HIDE DEF met
<1>8. Len(row) \in Nat /\ Len(column) \in Nat /\ Len(met) \in Nat /\ DOMAIN met = 1 .. Len(met)
  BY <1>5, <1>6, <1>7
<1>9. ASSUME NEW k \in 1 .. Len(met) PROVE met[k] \in near
  <2>1. CASE k <= Len(row)
    <3>1. k \in 1 .. Len(row) /\ met[k] = row[k]
      BY <1>7, <1>8, <2>1
    <3> QED BY <1>2, <1>5, <3>1
  <2>2. CASE ~(k <= Len(row))
    <3>1. k - Len(row) \in 1 .. Len(column) /\ met[k] = column[k - Len(row)]
      BY <1>7, <1>8, <2>2
    <3> QED BY <1>2, <1>6, <3>1
  <2> QED BY <2>1, <2>2
<1>10. ASSUME NEW m \in near PROVE \E k \in 1 .. Len(met) : met[k] = m
  <2>1. CASE ids[m] \in Outs(g, n)
    <3>1. PICK k \in 1 .. Len(row) : row[k] = m
      BY <1>5, <2>1
    <3>2. k \in 1 .. Len(met) /\ met[k] = row[k]
      BY <1>7, <1>8
    <3> QED BY <3>1, <3>2
  <2>2. CASE ids[m] \in Ins(g, n)
    <3>1. PICK k \in 1 .. Len(column) : column[k] = m
      BY <1>6, <2>2
    <3>2. /\ Len(row) + k \in 1 .. Len(met) /\ ~(Len(row) + k <= Len(row))
          /\ (Len(row) + k) - Len(row) = k
      BY <1>7, <1>8
    <3>3. met[Len(row) + k] = column[k]
      BY <1>7, <3>2
    <3> QED BY <3>1, <3>2, <3>3
  <2> QED BY <1>2, <2>1, <2>2
<1>11. collected \subseteq near
  BY <1>8, <1>9
<1>12. ASSUME Cardinality(Neighbors(g, n)) <= MaxNeighbors, NEW m \in near
       PROVE  m \in collected
  <2>1. PICK k \in 1 .. Len(met) : met[k] = m /\ \A j \in 1 .. Len(met) : met[j] = m => k <= j
    <3> DEFINE Z == {j \in 1 .. Len(met) : met[j] = m}
    <3>1. Z \subseteq Nat /\ Z # {}
      BY <1>8, <1>10
    <3> HIDE DEF Z
    <3>2. PICK k \in Z : \A j \in Z : k <= j
      BY <3>1, Least
    <3> QED BY <3>2 DEF Z
  <2>2. before(k) \subseteq near \ {m}
    <3> SUFFICES ASSUME NEW j \in 1 .. k - 1 PROVE met[j] \in near \ {m}
      OBVIOUS
    <3>1. j \in 1 .. Len(met) /\ ~(k <= j)
      BY <1>8
    <3> QED BY <1>9, <2>1, <3>1
  <2>3. IsFiniteSet(near) /\ Cardinality(near) = Cardinality(Neighbors(g, n))
    <3> DEFINE f == [j \in near |-> ids[j]]
    <3>1. /\ ids \in [1 .. C -> Ends(g)] /\ \A j, k2 \in 1 .. C : ids[j] = ids[k2] => j = k2
          /\ \A y \in Ends(g) : \E j \in 1 .. C : ids[j] = y
      BY <1>1, Bijections
    <3>2. f \in [near -> Neighbors(g, n)] /\ \A j, k2 \in near : f[j] = f[k2] => j = k2
      BY <3>1
    <3>3. \A y \in Neighbors(g, n) : \E j \in near : f[j] = y
      BY <1>2, <3>1
    <3>4. near \in SUBSET (1 .. C) /\ IsFiniteSet(1 .. C)
      BY <1>1, FS_Interval
    <3> HIDE DEF f, near
    <3>5. f \in Bijection(near, Neighbors(g, n)) /\ IsFiniteSet(near)
      BY <3>2, <3>3, <3>4, Bijections, FS_Subset
    <3> QED BY <3>5, SameSize
  <2> HIDE DEF near, before
  <2>4. IsFiniteSet(near \ {m}) /\ Cardinality(near \ {m}) = Cardinality(near) - 1
    BY <1>12, <2>3, FS_RemoveElement
  <2>5. IsFiniteSet(before(k)) /\ Cardinality(before(k)) <= Cardinality(near \ {m})
    BY <2>2, <2>4, FS_Subset
  <2>6. Cardinality(before(k)) \in Nat /\ Cardinality(near) \in Nat /\ MaxNeighbors \in Nat
    BY <2>3, <2>5, FS_CardinalityType, LimitsAssumption
  <2>7. Cardinality(before(k)) < MaxNeighbors
    BY <1>12, <2>3, <2>4, <2>5, <2>6
  <2> QED BY <1>8, <2>1, <2>7 DEF before
<1> HIDE DEF near, collected
<1>13. /\ collectNeighbors(csr, csc, i) \subseteq near
       /\ Cardinality(Neighbors(g, n)) <= MaxNeighbors => collectNeighbors(csr, csc, i) = near
  BY <1>4, <1>11, <1>12
<1> QED BY <1>13 DEF csr, csc, near, n, ids, C

(* The divergence of a neighbor, in the flat arrays and in the graph. *)
LEMMA KernelDivergence ==
    ASSUME NEW g \in AllGraphs, NEW i \in 1 .. Cardinality(Ends(g)),
           NEW m \in 1 .. Cardinality(Ends(g))
    PROVE  LET csr == SerializeCSR(g)
               ids == NodeIDs(g)
               degree == csr.ptr[m] - csr.ptr[m - 1]
               original == Line(csr.ptr, csr.val, m)
               perturbed == [k \in 1 .. degree |->
                               IF Line(csr.ptr, csr.col, m)[k] = i THEN 0 ELSE original[k]]
               out == Outs(g, ids[m])
           IN  /\ degree = Cardinality(out)
               /\ Divergence(original, perturbed) \in Nat
               /\ Divergence(original, perturbed)
                    = Divergence([t \in out |-> g[<<ids[m], t>>]],
                                 [t \in out |-> IF t = ids[i] THEN 0 ELSE g[<<ids[m], t>>]])
<1> DEFINE C == Cardinality(Ends(g))
           ids == NodeIDs(g)
           csr == SerializeCSR(g)
           out == Outs(g, ids[m])
           D == Cardinality(out)
           degree == csr.ptr[m] - csr.ptr[m - 1]
           targets == Line(csr.ptr, csr.col, m)
           s == Line(csr.ptr, csr.val, m)
           t == [k \in 1 .. degree |-> IF targets[k] = i THEN 0 ELSE s[k]]
           p == [u \in out |-> g[<<ids[m], u>>]]
           q == [u \in out |-> IF u = ids[i] THEN 0 ELSE g[<<ids[m], u>>]]
           b == [k \in 1 .. D |-> ids[targets[k]]]
<1>1. C \in Nat /\ ids \in Bijection(1 .. C, Ends(g)) /\ IsFiniteSet(out) /\ D \in Nat
  BY AnyGraph, NodesNumbered, Around, FS_CardinalityType
<1>2. /\ degree = D /\ Lists(ids, targets, out) /\ s \in [1 .. D -> Nat]
      /\ \A k \in 1 .. D : s[k] = g[<<ids[m], ids[targets[k]]>>]
  BY Rows
<1>3. i \in 1 .. C /\ m \in 1 .. C
  OBVIOUS
<1> HIDE DEF ids, C, csr, out, D, degree, targets, s
<1>4. \A j, k \in 1 .. C : ids[j] = ids[k] => j = k
  BY <1>1, Bijections
<1>5. DOMAIN ids = 1 .. C
  BY <1>1, Bijections
<1>6. targets \in [1 .. D -> 1 .. C] /\ b \in Bijection(1 .. D, out)
  BY <1>2, <1>5 DEF Lists, D
<1>7. b \in [1 .. D -> out]
  <2> HIDE DEF b
  <2> QED BY <1>1, <1>6, Bijections
<1>8. t = [k \in 1 .. D |-> IF targets[k] = i THEN 0 ELSE s[k]]
  BY <1>2
<1>9. ASSUME NEW k \in 1 .. D
      PROVE  s[k] = p[b[k]] /\ t[k] = q[b[k]] /\ s[k] \in Nat /\ t[k] \in Nat
  <2>1. b[k] = ids[targets[k]] /\ b[k] \in out /\ targets[k] \in 1 .. C
    BY <1>6, <1>7
  <2>2. s[k] = g[<<ids[m], b[k]>>] /\ s[k] \in Nat
    BY <1>2, <2>1
  <2>3. targets[k] = i <=> b[k] = ids[i]
    BY <1>3, <1>4, <2>1
  <2>4. t[k] = IF targets[k] = i THEN 0 ELSE s[k]
    BY <1>8
  <2>5. p[b[k]] = g[<<ids[m], b[k]>>] /\ q[b[k]] = IF b[k] = ids[i] THEN 0 ELSE g[<<ids[m], b[k]>>]
    BY <2>1
  <2> HIDE DEF b, p, q, t
  <2> QED BY <2>2, <2>3, <2>4, <2>5
<1>10. DOMAIN s = 1 .. D /\ DOMAIN t = 1 .. D /\ DOMAIN p = out /\ DOMAIN q = out
  BY <1>2, <1>8
<1>11. IsFiniteSet(1 .. D)
  BY <1>1, FS_Interval
<1> HIDE DEF b, p, q, t
<1>12. Divergence(s, t) = Divergence(p, q)
  <2>1. IsFiniteSet(DOMAIN s) /\ DOMAIN t = DOMAIN s /\ DOMAIN q = DOMAIN p
    BY <1>10, <1>11
  <2>2. b \in Bijection(DOMAIN s, DOMAIN p)
    BY <1>6, <1>10
  <2>3. \A k \in DOMAIN s : s[k] = p[b[k]] /\ t[k] = q[b[k]] /\ s[k] \in Nat /\ t[k] \in Nat
    BY <1>9, <1>10
  <2> QED BY <2>1, <2>2, <2>3, DivergenceRenamed
<1>13. Divergence(s, t) \in Nat
  BY <1>9, <1>10, <1>11, DivergenceNatural
<1> QED BY <1>2, <1>12, <1>13 DEF b, p, q, t, ids, csr, out, D, degree, targets, s

(* The kernel's tension of a node is a number, and the calculator's when the *)
(* node is within the kernel's limits.                                       *)
LEMMA KernelTension ==
    ASSUME NEW g \in AllGraphs, NEW i \in 1 .. Cardinality(Ends(g))
    PROVE  LET tension == ComputeNodeTension(SerializeCSR(g), SerializeCSC(g), i)
               n == NodeIDs(g)[i]
           IN  /\ tension \in Nat
               /\ WithinLimits(g, n) => tension = Calculate(g, n)
<1> DEFINE C == Cardinality(Ends(g))
           ids == NodeIDs(g)
           n == ids[i]
           csr == SerializeCSR(g)
           csc == SerializeCSC(g)
           near == {m \in 1 .. C : ids[m] \in Neighbors(g, n)}
           collected == collectNeighbors(csr, csc, i)
           degree(m) == csr.ptr[m] - csr.ptr[m - 1]
           K == {m \in collected : degree(m) \in 1 .. MaxOutDegree}
           original(m) == Line(csr.ptr, csr.val, m)
           perturbed(m) == [k \in 1 .. degree(m) |->
                              IF Line(csr.ptr, csr.col, m)[k] = i THEN 0 ELSE original(m)[k]]
           div == [m \in K |-> Divergence(original(m), perturbed(m))]
           M == {u \in Neighbors(g, n) : Outs(g, u) # {}}
           mean(u) == Divergence([t \in Outs(g, u) |-> g[<<u, t>>]],
                                 [t \in Outs(g, u) |-> IF t = n THEN 0 ELSE g[<<u, t>>]])
           all == [u \in M |-> mean(u)]
           b == [m \in K |-> ids[m]]
<1>1. C \in Nat /\ ids \in Bijection(1 .. C, Ends(g))
  BY AnyGraph, NodesNumbered
<1>2. collected \subseteq near /\ (Cardinality(Neighbors(g, n)) <= MaxNeighbors => collected = near)
  BY Collected
<1>3. \A m \in 1 .. C : /\ degree(m) = Cardinality(Outs(g, ids[m]))
                         /\ Divergence(original(m), perturbed(m)) \in Nat
                         /\ Divergence(original(m), perturbed(m)) = mean(ids[m])
  BY KernelDivergence
<1>4. ComputeNodeTension(csr, csc, i) = IF K = {} THEN 0 ELSE SumFunction(div) \div Cardinality(K)
  BY DEF ComputeNodeTension
<1>5. Calculate(g, n) = IF M = {} THEN 0 ELSE SumFunction(all) \div Cardinality(M)
  BY DEF Calculate
<1>6. \A m \in K : div[m] = Divergence(original(m), perturbed(m))
  OBVIOUS
<1>7. \A u \in M : all[u] = mean(u)
  OBVIOUS
<1>8. DOMAIN div = K /\ DOMAIN all = M
  OBVIOUS
<1>9. ids \in [1 .. C -> Ends(g)] /\ (\A j, k \in 1 .. C : ids[j] = ids[k] => j = k)
      /\ \A y \in Ends(g) : \E j \in 1 .. C : ids[j] = y
  <2> HIDE DEF ids, C
  <2> QED BY <1>1, Bijections
<1> HIDE DEF C, ids, n, csr, csc, collected, degree, original, perturbed, div, mean, all
<1>10. K \subseteq 1 .. C /\ IsFiniteSet(K) /\ Cardinality(K) \in Nat
  <2>1. K \subseteq collected /\ near \subseteq 1 .. C
    OBVIOUS
  <2>2. IsFiniteSet(1 .. C)
    BY <1>1, FS_Interval
  <2> HIDE DEF K, near
  <2>3. K \in SUBSET (1 .. C)
    BY <1>2, <2>1
  <2> QED BY <2>2, <2>3, FS_Subset, FS_CardinalityType
<1>11. \A m \in K : div[m] \in Nat /\ div[m] = mean(ids[m])
  BY <1>3, <1>6, <1>10
<1>12. ComputeNodeTension(csr, csc, i) \in Nat
  <2> HIDE DEF K
  <2>1. SumFunction(div) \in Nat
    BY <1>8, <1>10, <1>11, SumOfNaturals
  <2>2. K # {} => Cardinality(K) # 0
    BY <1>10, FS_EmptySet
  <2>3. K # {} => SumFunction(div) \div Cardinality(K) \in Nat
    BY <1>10, <2>1, <2>2, Quotient
  <2> QED BY <1>4, <2>3
<1>13. ASSUME WithinLimits(g, n) PROVE ComputeNodeTension(csr, csc, i) = Calculate(g, n)
  <2>1. collected = near
    BY <1>2, <1>13 DEF WithinLimits
  <2>2. Neighbors(g, n) \subseteq Ends(g)
    BY Around DEF Neighbors
  <2>3. \A u \in Neighbors(g, n) :
          Cardinality(Outs(g, u)) \in 1 .. MaxOutDegree <=> Outs(g, u) # {}
    <3> SUFFICES ASSUME NEW u \in Neighbors(g, n)
                 PROVE  Cardinality(Outs(g, u)) \in 1 .. MaxOutDegree <=> Outs(g, u) # {}
      OBVIOUS
    <3>1. IsFiniteSet(Outs(g, u))
      BY Around
    <3>2. Cardinality(Outs(g, u)) \in Nat /\ (Cardinality(Outs(g, u)) = 0 <=> Outs(g, u) = {})
      BY <3>1, FS_CardinalityType, FS_EmptySet
    <3>3. Cardinality(Outs(g, u)) <= MaxOutDegree /\ MaxOutDegree \in Nat
      BY <1>13, LimitsAssumption DEF WithinLimits
    <3> QED BY <3>2, <3>3
  <2>4. \A m \in 1 .. C : m \in K <=> ids[m] \in M
    BY <1>3, <2>1, <2>3
  <2>5. b \in [K -> M] /\ \A j, k \in K : b[j] = b[k] => j = k
    BY <1>9, <1>10, <2>4
  <2>6. \A y \in M : \E j \in K : b[j] = y
    BY <1>9, <2>2, <2>4
  <2>7. \A m \in K : b[m] = ids[m] /\ ids[m] \in M
    BY <1>10, <2>4
  <2> HIDE DEF b, K, M
  <2>8. b \in Bijection(K, M)
    BY <2>5, <2>6, Bijections
  <2>9. Cardinality(M) = Cardinality(K) /\ (K = {} <=> M = {})
    BY <1>10, <2>5, <2>6, <2>8, SameSize
  <2>10. \A m \in K : div[m] = all[b[m]] /\ div[m] \in Int
    BY <1>7, <1>11, <2>7
  <2>11. SumFunction(div) = SumFunction(all)
    <3>1. IsFiniteSet(K)
      BY <1>10
    <3>2. b \in Bijection(K, M)
      BY <2>8
    <3>3. \A m \in K : div[m] = all[b[m]] /\ div[m] \in Int
      BY <2>10
    <3>4. SumFunctionOnSet(div, K) = SumFunctionOnSet(all, M)
      BY <3>1, <3>2, <3>3, SumRenamed
    <3> QED BY <1>8, <3>4 DEF SumFunction
  <2> QED BY <1>4, <1>5, <2>9, <2>11
<1> QED BY <1>12, <1>13 DEF csr, csc, n, ids

(* The kernel has a tension of every node that was serialized. *)
LEMMA KernelTensions ==
    ASSUME NEW g \in AllGraphs
    PROVE  LET tensions == ComputeAllTensions(SerializeCSR(g), SerializeCSC(g))
           IN  /\ tensions \in [Ends(g) -> Nat]
               /\ \A n \in Ends(g) : WithinLimits(g, n) => tensions[n] = Calculate(g, n)
<1> DEFINE C == Cardinality(Ends(g))
           ids == NodeIDs(g)
           csr == SerializeCSR(g)
           csc == SerializeCSC(g)
           number(n) == CHOOSE i \in DOMAIN csr.ids : csr.ids[i] = n
<1>1. C \in Nat /\ ids \in Bijection(1 .. C, Ends(g))
  BY AnyGraph, NodesNumbered
<1>2. csr.ids = ids
  BY DEF SerializeCSR
<1>3. ids \in [1 .. C -> Ends(g)] /\ \A y \in Ends(g) : \E j \in 1 .. C : ids[j] = y
  <2> HIDE DEF ids, C
  <2> QED BY <1>1, Bijections
<1>4. ASSUME NEW n \in Ends(g) PROVE number(n) \in 1 .. C /\ ids[number(n)] = n
  <2> HIDE DEF ids, C, csr
  <2> QED BY <1>2, <1>3
<1>5. Range(csr.ids) = Ends(g)
  <2> HIDE DEF ids, C, csr
  <2> QED BY <1>2, <1>3 DEF Range
<1>6. ComputeAllTensions(csr, csc) = [n \in Ends(g) |-> ComputeNodeTension(csr, csc, number(n))]
  <2> HIDE DEF csr, csc
  <2> QED BY <1>5 DEF ComputeAllTensions
<1>7. ASSUME NEW n \in Ends(g)
      PROVE  LET tension == ComputeNodeTension(csr, csc, number(n))
             IN  tension \in Nat /\ (WithinLimits(g, n) => tension = Calculate(g, n))
  BY <1>4, KernelTension
<1> HIDE DEF csr, csc, number
<1> QED BY <1>6, <1>7 DEF csr, csc

(* The kernel of the compute backend and the calculator agree on every graph *)
(* of every set of nodes, within the limits of the kernel's buffers:         *)
(* ComputeAllTensionsF32 on SerializeCSR and SerializeCSC against            *)
(* CalculateAllParallel.                                                     *)
THEOREM KernelAgreement ==
    ASSUME NEW g \in AllGraphs
    PROVE  Agree(g) /\ CalculateAllParallel(g) = [n \in Ends(g) |-> Calculate(g, n)]
BY KernelTensions, CalculateAll DEF Agree
=============================================================================
