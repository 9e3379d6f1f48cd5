----------------------- MODULE DivergencePassesProofs -----------------------
(***************************************************************************)
(* DivergencePasses, for functions with any number of blocks and any calls *)
(* in them.  The first half is about graphs: what Reach computes, that the *)
(* blocks that post-dominate a block form a chain, so that the tree exists *)
(* and its paths are these chains.  The second half is the passes: the     *)
(* walk up the tree stops before the root, what it collects is control     *)
(* dependence by paths, and so the kernels that are rejected and the calls *)
(* that are replaced are the right ones.                                   *)
(*                                                                         *)
(* Induction is over sets: a set of naturals has a least element, and a    *)
(* family of subsets of a finite set has a minimal one.                    *)
(***************************************************************************)
EXTENDS DivergencePasses, FiniteSetTheorems, SequenceTheorems, WellFoundedInduction, TLAPS

-----------------------------------------------------------------------------
(* Induction and iteration.                                                *)

\* A set of naturals that is not empty has a least element.
LEMMA LeastNat ==
  ASSUME NEW S \in SUBSET Nat, S # {}
  PROVE  \E x \in S : \A y \in S : x <= y
<1>1. \E x \in S : \A y \in S : ~(<<y, x>> \in OpToRel(<, Nat))
  BY NatLessThanWellFounded, WFMin
<1>2. PICK x \in S : \A y \in S : ~(<<y, x>> \in OpToRel(<, Nat))
  BY <1>1
<1>3. \A y \in S : ~(y < x)
  BY <1>2 DEF OpToRel
<1> QED BY <1>3

\* A set of naturals with 0 and the successors of its elements has all naturals.
LEMMA NatSet ==
  ASSUME NEW S \in SUBSET Nat, 0 \in S, \A n \in S : n + 1 \in S
  PROVE  S = Nat
<1> SUFFICES ASSUME Nat \ S # {} PROVE FALSE
  OBVIOUS
<1>1. PICK x \in Nat \ S : \A y \in Nat \ S : x <= y
  BY LeastNat
<1>2. x - 1 \in Nat
  OBVIOUS
<1> QED BY <1>1, <1>2

\* A family of subsets of a finite set has a minimal member.
LEMMA MinimalSet ==
  ASSUME NEW S, IsFiniteSet(S), NEW X \in SUBSET SUBSET S, X # {}
  PROVE  \E x \in X : \A y \in X : y \subseteq x => y = x
<1>1. X \subseteq FiniteSubsetsOf(S)
  BY FS_FiniteSubsetsOfFinite
<1>2. \E x \in X : \A y \in X : ~(<<y, x>> \in StrictSubsetOrdering(S))
  BY <1>1, FS_StrictSubsetOrderingWellFounded, WFMin
<1> QED BY <1>2 DEF StrictSubsetOrdering

\* A function can be iterated.
LEMMA Iterate ==
  ASSUME NEW D, NEW b \in D, NEW f \in [D -> D]
  PROVE  \E r \in [Nat -> D] : r[0] = b /\ \A n \in Nat : r[n + 1] = f[r[n]]
<1> DEFINE G(m) == {g \in [0 .. m -> D] : /\ g[0] = b
                                          /\ \A i \in 0 .. m : i < m => g[i + 1] = f[g[i]]}
<1>1. \A m \in Nat : G(m) # {}
  <2> DEFINE S == {m \in Nat : G(m) # {}}
  <2>1. 0 \in S
    <3>1. [i \in 0 .. 0 |-> b] \in G(0)
      OBVIOUS
    <3> QED BY <3>1
  <2>2. ASSUME NEW m \in S PROVE m + 1 \in S
    <3>1. PICK g : g \in G(m)
      OBVIOUS
    <3> DEFINE h == [i \in 0 .. (m + 1) |-> IF i = m + 1 THEN f[g[m]] ELSE g[i]]
    <3>2. \A i \in 0 .. (m + 1) : h[i] \in D
      BY <3>1
    <3>3. h[0] = b /\ \A i \in 0 .. (m + 1) : i < m + 1 => h[i + 1] = f[h[i]]
      BY <3>1
    <3>4. h \in G(m + 1)
      BY <3>2, <3>3
    <3> QED BY <3>4
  <2> HIDE DEF S
  <2>3. S = Nat
    <3>1. S \in SUBSET Nat
      BY DEF S
    <3> QED BY <2>1, <2>2, <3>1, NatSet
  <2> QED BY <2>3 DEF S
<1>2. ASSUME NEW m \in Nat, NEW k \in Nat, NEW g \in G(m), NEW h \in G(k)
      PROVE  \A i \in Nat : i <= m /\ i <= k => g[i] = h[i]
  <2> DEFINE S == {i \in Nat : i <= m /\ i <= k => g[i] = h[i]}
  <2>1. 0 \in S
    OBVIOUS
  <2>2. ASSUME NEW i \in S PROVE i + 1 \in S
    <3> SUFFICES ASSUME i + 1 <= m, i + 1 <= k PROVE g[i + 1] = h[i + 1]
      OBVIOUS
    <3>1. g[i + 1] = f[g[i]] /\ h[i + 1] = f[h[i]]
      OBVIOUS
    <3> QED BY <3>1
  <2> HIDE DEF S
  <2>3. S = Nat
    <3>1. S \in SUBSET Nat
      BY DEF S
    <3> QED BY <2>1, <2>2, <3>1, NatSet
  <2> QED BY <2>3 DEF S
<1> DEFINE c(n) == CHOOSE g : g \in G(n)
           r == [n \in Nat |-> c(n)[n]]
<1>3. \A n \in Nat : c(n) \in G(n)
  BY <1>1
<1> HIDE DEF c
<1>4. \A n \in Nat : r[n] \in D
  BY <1>3
<1>5. r[0] = b
  BY <1>3
<1>6. ASSUME NEW n \in Nat PROVE r[n + 1] = f[r[n]]
  <2>1. c(n + 1)[n + 1] = f[c(n + 1)[n]]
    BY <1>3
  <2>2. c(n + 1)[n] = c(n)[n]
    <3>1. c(n + 1) \in G(n + 1) /\ c(n) \in G(n) /\ n + 1 \in Nat
      BY <1>3
    <3>2. n <= n + 1 /\ n <= n
      OBVIOUS
    <3> HIDE DEF G
    <3> QED BY <1>2, <3>1, <3>2
  <2> QED BY <2>1, <2>2
<1>7. r \in [Nat -> D]
  BY <1>4
<1> HIDE DEF r
<1> QED BY <1>5, <1>6, <1>7

-----------------------------------------------------------------------------
(* What Reach computes.                                                    *)

\* The nodes are finitely many.
LEMMA NodesFinite == IsFiniteSet(Node) /\ Cardinality(Node) = NBlock + 1 /\ Node = 0 .. NBlock
<1>1. Node = 0 .. NBlock
  BY NBlockAssumption DEF Node, Block, Root
<1> QED BY <1>1, FS_Interval, NBlockAssumption

Graphs == [Node -> SUBSET Node]

\* T holds the nodes of S, and what it can go to without a node of avoid.
Closed(T, S, next, avoid) == /\ S \ avoid \subseteq T
                             /\ \A x \in T : next[x] \ avoid \subseteq T

\* r counts rounds, in each of which the nodes go one edge further.
Rounds(r, S, next, avoid) ==
    /\ r[0] = S \ avoid
    /\ \A n \in Nat : r[n + 1] = r[n] \cup ((UNION {next[x] : x \in r[n]}) \ avoid)

\* Reach does so.
LEMMA ReachRounds ==
  ASSUME NEW next \in Graphs, NEW S \in SUBSET Node, NEW avoid
  PROVE  \E r \in [Nat -> SUBSET Node] :
            Rounds(r, S, next, avoid) /\ Reach(S, next, avoid) = r[NBlock + 1]
<1> DEFINE b == S \ avoid
           F(X) == X \cup ((UNION {next[x] : x \in X}) \ avoid)
           f == [X \in SUBSET Node |-> F(X)]
           R(q) == [n \in Nat |-> IF n = 0 THEN b ELSE F(q[n - 1])]
           r == CHOOSE q : q = R(q)
<1>1. f \in [SUBSET Node -> SUBSET Node]
  BY DEF Graphs
<1>2. PICK q \in [Nat -> SUBSET Node] : q[0] = b /\ \A n \in Nat : q[n + 1] = f[q[n]]
  <2>1. b \in SUBSET Node
    OBVIOUS
  <2> HIDE DEF b, f
  <2> QED BY <1>1, <2>1, Iterate
<1>3. \A n \in Nat : q[n + 1] = F(q[n])
  BY <1>2
<1>4. q = R(q)
  <2> HIDE DEF F, b
  <2>1. \A n \in Nat : q[n] = IF n = 0 THEN b ELSE F(q[n - 1])
    <3> TAKE n \in Nat
    <3>1. CASE n # 0
      <4>1. n - 1 \in Nat /\ (n - 1) + 1 = n
        BY <3>1
      <4> QED BY <1>3, <3>1, <4>1
    <3> QED BY <1>2, <3>1
  <2> QED BY <1>2, <2>1
<1>5. r = R(r)
  <2> HIDE DEF R
  <2> QED BY <1>4
<1>6. \A n \in Nat : r[n] = IF n = 0 THEN b ELSE F(r[n - 1])
  <2> HIDE DEF r
  <2> QED BY <1>5
<1>7. Reach(S, next, avoid) = r[NBlock + 1]
  BY DEF Reach
<1> HIDE DEF r, F, b
<1>8. r[0] = b
  BY <1>6
<1>9. ASSUME NEW n \in Nat PROVE r[n + 1] = F(r[n])
  <2>1. n + 1 \in Nat /\ n + 1 # 0 /\ (n + 1) - 1 = n
    OBVIOUS
  <2> QED BY <1>6, <2>1
<1>10. r = q
  <2> DEFINE E == {n \in Nat : r[n] = q[n]}
  <2>1. 0 \in E
    BY <1>2, <1>8
  <2>2. \A n \in E : n + 1 \in E
    BY <1>3, <1>9
  <2>3. E = Nat
    <3> HIDE DEF E
    <3>1. E \in SUBSET Nat
      BY DEF E
    <3> QED BY <2>1, <2>2, <3>1, NatSet
  <2>4. r = [n \in Nat |-> r[n]]
    BY <1>5, Zenon
  <2> QED BY <1>2, <2>3, <2>4
<1> QED BY <1>2, <1>3, <1>7, <1>10 DEF F, b, Rounds

\* Reach is the least set that is closed: after as many rounds as there are nodes
\* nothing is added.
LEMMA ReachLeast ==
  ASSUME NEW next \in Graphs, NEW S \in SUBSET Node, NEW avoid
  PROVE  /\ Reach(S, next, avoid) \subseteq Node \ avoid
         /\ Closed(Reach(S, next, avoid), S, next, avoid)
         /\ \A T : Closed(T, S, next, avoid) => Reach(S, next, avoid) \subseteq T
<1>1. PICK r \in [Nat -> SUBSET Node] :
               Rounds(r, S, next, avoid) /\ Reach(S, next, avoid) = r[NBlock + 1]
  BY ReachRounds
<1>1a. /\ r[0] = S \ avoid /\ r[0] \subseteq Node
       /\ \A n \in Nat : /\ r[n] \subseteq r[n + 1] /\ r[n + 1] \subseteq Node
                         /\ \A y : y \in r[n + 1] <=>
                               (y \in r[n] \/ (y \notin avoid /\ \E x \in r[n] : y \in next[x]))
  <2>1. \A n \in Nat : n + 1 \in Nat /\ r[n + 1] \subseteq Node
    OBVIOUS
  <2>2. r[0] = S \ avoid
    BY <1>1 DEF Rounds
  <2>3. ASSUME NEW n \in Nat, NEW y
        PROVE  y \in r[n + 1] <=>
                  (y \in r[n] \/ (y \notin avoid /\ \E x \in r[n] : y \in next[x]))
    <3>1. r[n + 1] = r[n] \cup ((UNION {next[x] : x \in r[n]}) \ avoid)
      BY <1>1 DEF Rounds
    <3> QED BY <3>1
  <2>4. \A n \in Nat : r[n] \subseteq r[n + 1]
    BY <2>3
  <2> QED BY <2>1, <2>2, <2>3, <2>4
<1>1b. \A n, k \in Nat : r[n] = r[k] => r[n + 1] = r[k + 1]
  BY <1>1 DEF Rounds
<1> DEFINE N == NBlock + 1
<1>2. N \in Nat
  BY NBlockAssumption
<1>3. \A n \in Nat : r[n] \subseteq Node \ avoid
  <2> DEFINE E == {n \in Nat : r[n] \subseteq Node \ avoid}
  <2>1. 0 \in E
    BY <1>1a
  <2>2. \A n \in E : n + 1 \in E
    BY <1>1a
  <2> HIDE DEF E
  <2>3. E = Nat
    <3>1. E \in SUBSET Nat
      BY DEF E
    <3> QED BY <2>1, <2>2, <3>1, NatSet
  <2> QED BY <2>3 DEF E
<1>4. ASSUME NEW T, Closed(T, S, next, avoid) PROVE \A n \in Nat : r[n] \subseteq T
  <2> DEFINE E == {n \in Nat : r[n] \subseteq T}
  <2>1. 0 \in E
    BY <1>1a, <1>4 DEF Closed
  <2>2. \A n \in E : n + 1 \in E
    BY <1>1a, <1>4 DEF Closed
  <2> HIDE DEF E
  <2>3. E = Nat
    <3>1. E \in SUBSET Nat
      BY DEF E
    <3> QED BY <2>1, <2>2, <3>1, NatSet
  <2> QED BY <2>3 DEF E
<1>5. \A n \in Nat : S \ avoid \subseteq r[n]
  <2> DEFINE E == {n \in Nat : S \ avoid \subseteq r[n]}
  <2>1. 0 \in E
    BY <1>1a
  <2>2. \A n \in E : n + 1 \in E
    BY <1>1a
  <2> HIDE DEF E
  <2>3. E = Nat
    <3>1. E \in SUBSET Nat
      BY DEF E
    <3> QED BY <2>1, <2>2, <3>1, NatSet
  <2> QED BY <2>3 DEF E
<1>6. \A n \in Nat : IsFiniteSet(r[n]) /\ Cardinality(r[n]) \in Nat /\ Cardinality(r[n]) <= N
  <2> TAKE n \in Nat
  <2>1. r[n] \in SUBSET Node
    BY <1>1
  <2>2. IsFiniteSet(r[n]) /\ Cardinality(r[n]) <= Cardinality(Node)
    BY <2>1, NodesFinite, FS_Subset
  <2>3. Cardinality(r[n]) \in Nat
    BY <2>2, FS_CardinalityType
  <2> QED BY <2>2, <2>3, NodesFinite
<1>7. ASSUME \A n \in Nat : n <= N => r[n + 1] # r[n] PROVE FALSE
  <2> DEFINE E == {n \in Nat : n <= N + 1 => n <= Cardinality(r[n])}
  <2>1. 0 \in E
    BY <1>6
  <2>2. ASSUME NEW n \in E PROVE n + 1 \in E
    <3> SUFFICES ASSUME n + 1 <= N + 1 PROVE n + 1 <= Cardinality(r[n + 1])
      OBVIOUS
    <3>1. n <= Cardinality(r[n])
      BY <1>2
    <3>2. r[n] \subseteq r[n + 1] /\ r[n] # r[n + 1]
      BY <1>1a, <1>2, <1>7
    <3>3. /\ Cardinality(r[n]) <= Cardinality(r[n + 1])
          /\ Cardinality(r[n + 1]) # Cardinality(r[n])
      BY <1>6, <3>2, FS_Subset
    <3> QED BY <1>6, <3>1, <3>3
  <2> HIDE DEF E
  <2>3. E = Nat
    <3>1. E \in SUBSET Nat
      BY DEF E
    <3> QED BY <2>1, <2>2, <3>1, NatSet
  <2>4. N + 1 <= Cardinality(r[N + 1])
    BY <1>2, <2>3 DEF E
  <2> QED BY <1>2, <1>6, <2>4
<1>8. PICK m \in Nat : m <= N /\ r[m + 1] = r[m]
  BY <1>7
<1>9. r[N] = r[m]
  <2> DEFINE E == {n \in Nat : n >= m => r[n] = r[m]}
  <2>1. 0 \in E
    BY <1>8
  <2>2. ASSUME NEW n \in E PROVE n + 1 \in E
    <3>1. CASE n >= m
      <4>1. r[n] = r[m]
        BY <3>1
      <4>2. r[n + 1] = r[m + 1]
        BY <1>8, <1>1b, <4>1
      <4> QED BY <1>8, <4>2
    <3>2. CASE n < m
      <4>1. n + 1 >= m => n + 1 = m
        BY <3>2
      <4> QED BY <4>1
    <3> QED BY <3>1, <3>2
  <2> HIDE DEF E
  <2>3. E = Nat
    <3>1. E \in SUBSET Nat
      BY DEF E
    <3> QED BY <2>1, <2>2, <3>1, NatSet
  <2> QED BY <1>2, <1>8, <2>3 DEF E
<1>10. \A x \in r[N] : next[x] \ avoid \subseteq r[N]
  BY <1>8, <1>9, <1>1a
<1>11. Reach(S, next, avoid) = r[N]
  BY <1>1
<1> HIDE DEF N
<1> QED BY <1>2, <1>3, <1>4, <1>5, <1>10, <1>11 DEF Closed

-----------------------------------------------------------------------------
(* Post-dominators.                                                        *)

\* From x the exit is reached without y.
Leaves(s, x, y) == Root \in Reach({x}, Next1(s), {y})

\* What follows a block.
LEMMA NextNodes ==
  ASSUME NEW s \in Functions
  PROVE  /\ Next1(s) \in Graphs /\ Next1(s)[Root] = {}
         /\ \A x \in Block : /\ s[x] \subseteq Block \ {1} /\ Next1(s)[x] # {}
                             /\ s[x] = {} => Next1(s)[x] = {Root}
                             /\ s[x] # {} => Next1(s)[x] = s[x]
<1>1. \A x \in Block : s[x] \subseteq Block \ {1}
  BY DEF Functions
<1>2. Root \notin Block
  BY DEF Root, Block
<1>3. \A x \in Node : Next1(s)[x] \in SUBSET Node
  BY <1>1 DEF Next1, Node
<1>4. Next1(s) \in Graphs
  BY <1>3, Zenon DEF Next1, Graphs
<1> QED BY <1>1, <1>2, <1>4 DEF Next1, Node

\* A node cannot be left without itself; the root is the exit.
LEMMA LeavesEnds ==
  ASSUME NEW s \in Functions, NEW y \in Node
  PROVE  ~Leaves(s, y, y) /\ (Leaves(s, Root, y) <=> y # Root)
<1>1. Next1(s) \in Graphs /\ Root \in Node
  BY NextNodes DEF Node
<1>2. Closed({}, {y}, Next1(s), {y})
  BY DEF Closed
<1>3. Reach({y}, Next1(s), {y}) \subseteq {}
  BY <1>1, <1>2, ReachLeast
<1>4. /\ Reach({Root}, Next1(s), {y}) \subseteq Node \ {y}
      /\ Closed(Reach({Root}, Next1(s), {y}), {Root}, Next1(s), {y})
  <2>1. {Root} \in SUBSET Node
    BY <1>1
  <2> QED BY <1>1, <2>1, ReachLeast
<1> QED BY <1>3, <1>4 DEF Leaves, Closed

\* A block is left by one of its successors.
LEMMA LeavesStep ==
  ASSUME NEW s \in Functions, NEW x \in Block, NEW y \in Node
  PROVE  Leaves(s, x, y) <=> x # y /\ \E z \in Next1(s)[x] : Leaves(s, z, y)
<1> DEFINE N == Next1(s)
           R(z) == Reach({z}, N, {y})
<1>1. N \in Graphs /\ x \in Node /\ x # Root /\ N[x] \subseteq Node
  BY NextNodes DEF Node, Graphs, Block, Root
<1>2. \A z \in Node : /\ R(z) \subseteq Node \ {y} /\ Closed(R(z), {z}, N, {y})
                      /\ \A T : Closed(T, {z}, N, {y}) => R(z) \subseteq T
  <2> TAKE z \in Node
  <2>1. {z} \in SUBSET Node
    OBVIOUS
  <2> HIDE DEF N
  <2> QED BY <1>1, <2>1, ReachLeast
<1>3. \A z \in Node : Leaves(s, z, y) <=> Root \in R(z)
  BY DEF Leaves
<1> HIDE DEF N, R
<1>4. ASSUME Root \in R(x) PROVE x # y /\ \E z \in N[x] : Root \in R(z)
  <2> DEFINE T == {x} \cup UNION {R(z) : z \in N[x]}
  <2>1. x # y
    <3>1. ~Leaves(s, y, y)
      BY LeavesEnds
    <3> QED BY <1>1, <1>3, <1>4, <3>1
  <2>2. \A w \in T : N[w] \ {y} \subseteq T
    <3> SUFFICES ASSUME NEW w \in T, NEW v \in N[w], v # y PROVE v \in T
      OBVIOUS
    <3>1. CASE w = x
      BY <1>1, <1>2, <3>1 DEF Closed
    <3>2. ASSUME NEW z \in N[x], w \in R(z) PROVE v \in T
      <4>1. v \in R(z)
        BY <1>1, <1>2, <3>2 DEF Closed
      <4> QED BY <4>1
    <3> QED BY <3>1, <3>2
  <2>3. Closed(T, {x}, N, {y})
    BY <2>2 DEF Closed
  <2>4. Root \in T
    BY <1>1, <1>2, <1>4, <2>3
  <2> QED BY <1>1, <2>1, <2>4
<1>5. ASSUME x # y, NEW z \in N[x], Root \in R(z) PROVE Root \in R(x)
  <2>1. z # y
    <3>1. ~Leaves(s, y, y)
      BY LeavesEnds
    <3> QED BY <1>1, <1>3, <1>5, <3>1
  <2>2. Closed(R(x), {z}, N, {y})
    BY <1>1, <1>2, <1>5, <2>1 DEF Closed
  <2> QED BY <1>1, <1>2, <1>5, <2>2
<1> QED BY <1>1, <1>3, <1>4, <1>5 DEF N

\* Induction along the ways that leave x without y, from their ends.
LEMMA LeavesLeast ==
  ASSUME NEW s \in Functions, NEW y \in Node, NEW T \in SUBSET Node,
         y # Root => Root \in T,
         \A x \in Block, z \in Node :
            z \in Next1(s)[x] /\ x # y /\ z \in T /\ Leaves(s, z, y) => x \in T
  PROVE  \A x \in Node : Leaves(s, x, y) => x \in T
<1> DEFINE N == Next1(s)
<1> SUFFICES ASSUME NEW x \in Node, Leaves(s, x, y), x \notin T PROVE FALSE
  OBVIOUS
<1> DEFINE U == {w \in Node : w # y /\ ~(w \in T /\ Leaves(s, w, y))}
<1>1. x # y
  BY LeavesEnds
<1>2. \A w \in U : N[w] \ {y} \subseteq U
  <2> SUFFICES ASSUME NEW w \in U, NEW v \in N[w], v # y, v \in T, Leaves(s, v, y)
               PROVE  FALSE
    BY NextNodes DEF Graphs
  <2>1. w \in Block
    BY NextNodes DEF Node
  <2>2. v \in Node
    BY NextNodes DEF Graphs
  <2>3. w \in T
    BY <2>1, <2>2
  <2>4. Leaves(s, w, y)
    BY <2>1, LeavesStep
  <2> QED BY <2>3, <2>4
<1>3. Closed(U, {x}, N, {y})
  BY <1>1, <1>2 DEF Closed
<1>4. Reach({x}, N, {y}) \subseteq U
  BY <1>3, NextNodes, ReachLeast
<1>5. Root \in U
  BY <1>4 DEF Leaves
<1>6. Leaves(s, Root, y)
  BY <1>5, LeavesEnds
<1> QED BY <1>5, <1>6

\* Every node leaves, and so it has what the root has and a node gets from any of
\* its successors.
LEMMA AllLeave ==
  ASSUME NEW s \in Functions, NEW T \in SUBSET Node, Root \in T,
         \A x \in Block, z \in Node : z \in Next1(s)[x] /\ z \in T => x \in T
  PROVE  T = Node
<1> DEFINE N == Next1(s)
<1> SUFFICES ASSUME NEW x \in Node, x \notin T PROVE FALSE
  OBVIOUS
<1>1. x \in Block
  BY DEF Node
<1>2. Root \in Reach({x}, N, {})
  BY <1>1 DEF Functions
<1>3. \A w \in Node \ T : N[w] \subseteq Node \ T
  BY NextNodes DEF Graphs, Node
<1>4. Closed(Node \ T, {x}, N, {})
  BY <1>3 DEF Closed
<1>5. Reach({x}, N, {}) \subseteq Node \ T
  BY <1>4, NextNodes, ReachLeast
<1> QED BY <1>2, <1>5

\* The nodes that post-dominate x, x included.
Doms(s, x) == {y \in Node : PostDominates(s, y, x)}

\* They are those that no way to the exit avoids, from x and from what follows it.
LEMMA DomsEnds ==
  ASSUME NEW s \in Functions, NEW x \in Node
  PROVE  /\ \A y \in Node : y \in Doms(s, x) <=> ~Leaves(s, x, y)
         /\ x \in Doms(s, x) /\ Root \in Doms(s, x) /\ Doms(s, Root) = {Root}
         /\ Strictly(s, x) = Doms(s, x) \ {x}
         /\ x \in Block => \A z \in Next1(s)[x] : Strictly(s, x) \subseteq Doms(s, z)
<1>1. \A w, y \in Node : y \in Doms(s, w) <=> ~Leaves(s, w, y)
  BY LeavesEnds DEF Doms, PostDominates, Leaves
<1>2. Root \in Node
  BY DEF Node
<1>3. ~Leaves(s, x, Root)
  <2>1. {x} \in SUBSET Node
    OBVIOUS
  <2> QED BY <2>1, NextNodes, ReachLeast DEF Leaves
<1>4. Doms(s, Root) = {Root}
  BY <1>1, <1>2, LeavesEnds DEF Doms
<1>5. Strictly(s, x) = Doms(s, x) \ {x}
  BY DEF Strictly, Doms
<1>6. ASSUME x \in Block, NEW z \in Next1(s)[x], NEW y \in Node, ~Leaves(s, x, y), y # x
      PROVE  ~Leaves(s, z, y)
  BY <1>6, LeavesStep
<1>7. x \in Block => \A z \in Next1(s)[x] : z \in Node
  BY NextNodes DEF Graphs
<1>8. Doms(s, x) \subseteq Node
  BY DEF Doms
<1> QED BY <1>1, <1>2, <1>3, <1>4, <1>5, <1>6, <1>7, <1>8, LeavesEnds

\* Who avoids w but cannot avoid it from y avoids y.
LEMMA AvoidsBefore ==
  ASSUME NEW s \in Functions, NEW x \in Node, NEW y \in Node, NEW w \in Node,
         Leaves(s, x, w), ~Leaves(s, y, w)
  PROVE  Leaves(s, x, y)
<1> DEFINE T == {v \in Node : Leaves(s, v, y)}
<1>1. w # Root => Root \in T
  BY LeavesEnds DEF Node
<1>2. ASSUME NEW v \in Block, NEW z \in Node,
             z \in Next1(s)[v], v # w, z \in T, Leaves(s, z, w)
      PROVE  v \in T
  <2>1. Leaves(s, v, w)
    BY <1>2, LeavesStep
  <2>2. v # y
    BY <2>1
  <2>3. Leaves(s, v, y)
    BY <1>2, <2>2, LeavesStep
  <2> QED BY <2>3 DEF Node
<1>3. T \in SUBSET Node
  OBVIOUS
<1> HIDE DEF T
<1>4. \A v \in Block, z \in Node :
         z \in Next1(s)[v] /\ v # w /\ z \in T /\ Leaves(s, z, w) => v \in T
  BY <1>2
<1>5. \A v \in Node : Leaves(s, v, w) => v \in T
  BY <1>1, <1>3, <1>4, LeavesLeast
<1> QED BY <1>5 DEF T

\* Post-dominance is an order.
LEMMA DomsTransitive ==
  ASSUME NEW s \in Functions, NEW x \in Node, NEW y \in Doms(s, x)
  PROVE  Doms(s, y) \subseteq Doms(s, x)
<1> SUFFICES ASSUME NEW w \in Doms(s, y) PROVE w \in Doms(s, x)
  OBVIOUS
<1>1. y \in Node /\ w \in Node
  BY DEF Doms
<1> QED BY <1>1, DomsEnds, AvoidsBefore

\* And no two nodes post-dominate each other.
LEMMA DomsAntisymmetric ==
  ASSUME NEW s \in Functions, NEW x \in Node, NEW y \in Doms(s, x), x \in Doms(s, y)
  PROVE  x = y
<1> SUFFICES ASSUME x # y PROVE FALSE
  OBVIOUS
<1>1. y \in Node /\ ~Leaves(s, x, y) /\ ~Leaves(s, y, x)
  BY DomsEnds DEF Doms
<1> DEFINE T == {v \in Node : Leaves(s, v, x)}
<1>2. \A v \in Node : Leaves(s, v, x) <=> Leaves(s, v, y)
  BY <1>1, AvoidsBefore
<1>3. Root \in T
  BY <1>1, <1>2, LeavesEnds DEF Node
<1>4. ASSUME NEW v \in Block, NEW z \in Node, z \in Next1(s)[v], z \in T PROVE v \in T
  <2>1. v # x => Leaves(s, v, x)
    BY <1>4, LeavesStep
  <2>2. v # y => Leaves(s, v, y)
    BY <1>1, <1>2, <1>4, LeavesStep
  <2> QED BY <1>2, <2>1, <2>2 DEF Node
<1>5. T = Node
  <2> HIDE DEF T
  <2>1. T \in SUBSET Node
    BY DEF T
  <2> QED BY <1>3, <1>4, <2>1, AllLeave
<1> QED BY <1>5, LeavesEnds

\* The nodes that post-dominate one node post-dominate each other in turn.
LEMMA DomsChain ==
  ASSUME NEW s \in Functions, NEW x \in Node, NEW y \in Doms(s, x), NEW w \in Doms(s, x)
  PROVE  y \in Doms(s, w) \/ w \in Doms(s, y)
<1> SUFFICES ASSUME y \notin Doms(s, w), w \notin Doms(s, y) PROVE FALSE
  OBVIOUS
<1>1. y \in Node /\ w \in Node
  BY DEF Doms
<1>2. /\ Leaves(s, w, y) /\ Leaves(s, y, w)
      /\ ~Leaves(s, x, y) /\ ~Leaves(s, x, w)
  BY <1>1, DomsEnds
<1> DEFINE T == {v \in Node : Leaves(s, v, y) \/ Leaves(s, v, w)}
<1>3. Root \in T
  <2>1. y # w
    BY <1>1, <1>2, LeavesEnds
  <2> QED BY <1>1, <2>1, LeavesEnds DEF Node
<1>4. ASSUME NEW v \in Block, NEW z \in Node, z \in Next1(s)[v], z \in T PROVE v \in T
  <2>1. CASE Leaves(s, z, y)
    <3>1. v # y => Leaves(s, v, y)
      BY <1>1, <1>4, <2>1, LeavesStep
    <3> QED BY <1>2, <3>1 DEF Node
  <2>2. CASE Leaves(s, z, w)
    <3>1. v # w => Leaves(s, v, w)
      BY <1>1, <1>4, <2>2, LeavesStep
    <3> QED BY <1>2, <3>1 DEF Node
  <2> QED BY <1>4, <2>1, <2>2
<1>5. T = Node
  <2> HIDE DEF T
  <2>1. T \in SUBSET Node
    BY DEF T
  <2> QED BY <1>3, <1>4, <2>1, AllLeave
<1> QED BY <1>2, <1>5

-----------------------------------------------------------------------------
(* The tree.                                                               *)

\* Every block has an immediate post-dominator; what post-dominates that one is
\* what strictly post-dominates the block.
LEMMA ParentIs ==
  ASSUME NEW s \in Functions, NEW x \in Block
  PROVE  Parent(s, x) \in Node \ {x} /\ Doms(s, Parent(s, x)) = Strictly(s, x)
<1> DEFINE D == Strictly(s, x)
           X == {Node \ Doms(s, y) : y \in D}
<1>0. x \in Node /\ x # Root
  BY DEF Node, Block, Root
<1>1. Root \in D /\ D \subseteq Node \ {x}
  BY <1>0, DomsEnds DEF Strictly
<1>2. D = Doms(s, x) \ {x}
  BY <1>0, DomsEnds
<1> HIDE DEF D
<1>3. X \in SUBSET SUBSET Node /\ X # {}
  BY <1>1
<1>4. PICK m \in X : \A n \in X : n \subseteq m => n = m
  <2> HIDE DEF X
  <2>1. IsFiniteSet(Node)
    BY NodesFinite
  <2> QED BY <1>3, <2>1, MinimalSet
<1>5. PICK y \in D : m = Node \ Doms(s, y)
  OBVIOUS
<1>6. ASSUME NEW w \in D PROVE w \in Doms(s, y)
  <2> SUFFICES ASSUME w \notin Doms(s, y) PROVE FALSE
    OBVIOUS
  <2>1. w \in Node /\ y \in Node /\ w \in Doms(s, x) /\ y \in Doms(s, x)
    BY <1>1, <1>2
  <2>2. y \in Doms(s, w)
    BY <1>0, <2>1, DomsChain
  <2>3. Doms(s, y) \subseteq Doms(s, w)
    BY <2>1, <2>2, DomsTransitive
  <2>4. Node \ Doms(s, w) = Node \ Doms(s, y)
    <3>1. Node \ Doms(s, w) \in X
      OBVIOUS
    <3>2. Node \ Doms(s, w) \subseteq m
      BY <1>5, <2>3
    <3> HIDE DEF X
    <3> QED BY <1>4, <1>5, <3>1, <3>2
  <2>5. w \in Doms(s, w)
    BY <2>1, DomsEnds
  <2> QED BY <2>1, <2>4, <2>5
<1>7. D = Doms(s, y)
  <2>1. y \in Node /\ y \in Doms(s, x) /\ y # x
    BY <1>1, <1>2
  <2>2. Doms(s, y) \subseteq Doms(s, x)
    BY <1>0, <2>1, DomsTransitive
  <2>3. x \notin Doms(s, y)
    BY <1>0, <2>1, DomsAntisymmetric
  <2> QED BY <1>2, <1>6, <2>2, <2>3
<1>8. \A u \in D : D = {u} \cup Strictly(s, u) => D = Doms(s, u)
  BY <1>1, DomsEnds
<1>9. D = {y} \cup Strictly(s, y)
  BY <1>1, <1>7, DomsEnds
<1>10. Parent(s, x) \in D /\ D = {Parent(s, x)} \cup Strictly(s, Parent(s, x))
  BY <1>9 DEF Parent, D
<1> QED BY <1>1, <1>8, <1>10 DEF D

\* The tree that a pass is given.
Tree == succ \in Functions /\ idom = [x \in Block |-> Parent(succ, x)]

\* Its edges.
LEMMA TreeIs ==
  ASSUME Tree
  PROVE  /\ idom \in [Block -> Node]
         /\ \A x \in Block : idom[x] # x /\ Doms(succ, idom[x]) = Strictly(succ, x)
<1>1. \A x \in Block : /\ idom[x] \in Node /\ idom[x] # x
                       /\ Doms(succ, idom[x]) = Strictly(succ, x)
  BY ParentIs DEF Tree
<1>2. idom = [x \in Block |-> idom[x]]
  BY DEF Tree
<1> QED BY <1>1, <1>2

\* Its paths: dominates, asked of the tree, is post-dominance by paths.
LEMMA AncestorsAre ==
  ASSUME Tree, NEW x \in Node
  PROVE  Ancestors(x) = Doms(succ, x)
<1> DEFINE P == [y \in Node |-> IF y = Root THEN {} ELSE {idom[y]}]
           A == Ancestors(x)
           D(y) == Doms(succ, y)
<1>0. succ \in Functions
  BY DEF Tree
<1>1. P \in Graphs
  <2>1. \A y \in Node : P[y] \in SUBSET Node
    BY TreeIs DEF Node
  <2> QED BY <2>1, Zenon DEF Graphs
<1>2. /\ A \subseteq Node \ {} /\ Closed(A, {x}, P, {})
      /\ \A T : Closed(T, {x}, P, {}) => A \subseteq T
  <2>1. {x} \in SUBSET Node
    OBVIOUS
  <2>2. A = Reach({x}, P, {})
    BY DEF Ancestors
  <2> HIDE DEF P, A
  <2> QED BY <1>1, <2>1, <2>2, ReachLeast
<1>3. x \in A /\ A \subseteq Node /\ \A y \in A : y # Root => idom[y] \in A
  BY <1>2 DEF Closed
<1>4. Closed(D(x), {x}, P, {})
  <2>1. x \in D(x)
    BY <1>0, DomsEnds
  <2>2. ASSUME NEW y \in D(x), y # Root PROVE idom[y] \in D(x)
    <3>1. y \in Block /\ y \in Node
      BY <2>2 DEF Doms, Node
    <3>2. D(idom[y]) = Strictly(succ, y) /\ idom[y] \in Node
      BY <3>1, TreeIs
    <3>3. idom[y] \in D(idom[y])
      BY <1>0, <3>2, DomsEnds
    <3>4. Strictly(succ, y) \subseteq D(y)
      BY <1>0, <3>1, DomsEnds
    <3>5. D(y) \subseteq D(x)
      BY <1>0, <2>2, DomsTransitive
    <3> QED BY <3>2, <3>3, <3>4, <3>5
  <2>3. D(x) \subseteq Node
    BY DEF Doms
  <2> QED BY <2>1, <2>2, <2>3 DEF Closed
<1>5. A \subseteq D(x)
  BY <1>2, <1>4
<1>6. ASSUME NEW y \in D(x), y \notin A PROVE FALSE
  <2> DEFINE X == {D(v) : v \in {u \in A : y \in D(u)}}
  <2>1. X \in SUBSET SUBSET Node /\ X # {}
    BY <1>3, <1>6 DEF Doms
  <2>2. IsFiniteSet(Node)
    BY NodesFinite
  <2>3. \E m \in X : \A n \in X : n \subseteq m => n = m
    <3> HIDE DEF X
    <3> QED BY <2>1, <2>2, MinimalSet
  <2>4. PICK a \in A : y \in D(a) /\ \A n \in X : n \subseteq D(a) => n = D(a)
    BY <2>3
  <2>5. a \in Node /\ a # y /\ y \in Node
    BY <1>3, <1>6, <2>4 DEF Doms
  <2>6. a # Root
    BY <1>0, <2>4, <2>5, DomsEnds
  <2>7. a \in Block /\ idom[a] \in A
    BY <1>3, <2>5, <2>6 DEF Node
  <2>8. D(idom[a]) = D(a) \ {a}
    BY <1>0, <2>5, <2>7, TreeIs, DomsEnds
  <2>9. D(idom[a]) \in X
    BY <2>4, <2>5, <2>7, <2>8
  <2>10. a \in D(a)
    BY <1>0, <2>5, DomsEnds
  <2> QED BY <2>4, <2>8, <2>9, <2>10
<1> QED BY <1>5, <1>6

\* What the walk is to compute: control by an edge to another block.
DependsOn(b, c) == /\ \E s \in succ[c] \ {c} : PostDominates(succ, b, s)
                   /\ b \notin Strictly(succ, c)

\* A block that branches to itself controls itself, and by that edge nothing else.
LEMMA Loops ==
  ASSUME NEW b \in Block, NEW c \in Block
  PROVE  /\ DependsOn(b, c) => Controls(c, b)
         /\ Controls(c, b) => DependsOn(b, c) \/ (c = b /\ c \in succ[c])
<1>1. DependsOn(b, c) => Controls(c, b)
  BY DEF DependsOn, Controls
<1>2. ASSUME Controls(c, b), ~DependsOn(b, c) PROVE c = b /\ c \in succ[c]
  <2>1. c \in succ[c] /\ PostDominates(succ, b, c) /\ b \notin Strictly(succ, c)
    BY <1>2 DEF Controls, DependsOn
  <2> QED BY <2>1 DEF Strictly, Node
<1> QED BY <1>1, <1>2

\* What the walks from a branch are to find, said with the tree alone.
LEMMA Dependence ==
  ASSUME Tree, NEW b \in Block, NEW c \in Block
  PROVE  DependsOn(b, c) <=>
            \E s \in succ[c] : /\ s \notin Doms(succ, c) /\ b \in Doms(succ, s)
                               /\ b \notin Doms(succ, idom[c])
<1>1. /\ succ \in Functions /\ b \in Node /\ c \in Node
      /\ \A s \in succ[c] : s \in Node
  BY NextNodes DEF Tree, Node
<1>2. Doms(succ, idom[c]) = Strictly(succ, c) /\ Strictly(succ, c) = Doms(succ, c) \ {c}
  BY <1>1, TreeIs, DomsEnds
<1>3. ASSUME NEW s \in succ[c], s # c, s \in Doms(succ, c), b \in Doms(succ, s)
      PROVE  b \in Strictly(succ, c)
  <2>1. b \in Doms(succ, c)
    BY <1>1, <1>3, DomsTransitive
  <2>2. c \notin Doms(succ, s)
    BY <1>1, <1>3, DomsAntisymmetric
  <2> QED BY <1>2, <1>3, <2>1, <2>2
<1>4. \A s \in succ[c] : s \notin Doms(succ, c) => s # c
  BY <1>1, DomsEnds
<1>5. \A s \in succ[c] : PostDominates(succ, b, s) <=> b \in Doms(succ, s)
  BY <1>1 DEF Doms
<1> QED BY <1>2, <1>3, <1>4, <1>5 DEF DependsOn

-----------------------------------------------------------------------------
(* Types.                                                                  *)

\* Each pass looks at its own calls, one at a time.
Called == /\ pass = "tile-uniform" => uses \subseteq Barrier /\ call \in Barrier \cup {None}
          /\ pass = "malloc-select" => uses \subseteq New /\ call \in New \cup {None}
          /\ pass \in {"replace", "done"} => uses = {} /\ call = None
          /\ call \notin uses

\* The initial tree.
LEMMA InitTree == Init => Tree
BY DEF Init, Tree

\* No step changes the function or its tree.
LEMMA FunctionStays == [Next]_vars => UNCHANGED function
BY DEF Next, NextUse, Edge, Up, Judge, Select, NextPass, Replace, vars

\* So the tree stays what it is.
LEMMA TreeStays == Tree /\ [Next]_vars => Tree'
BY FunctionStays DEF Tree, function

\* There is a first edge.
LEMMA FirstEdgeIs ==
  ASSUME todo \in SUBSET (Block \X Block), todo # {}
  PROVE  FirstEdge \in todo
<1> DEFINE A == {e[1] : e \in todo}
<1>1. A \in SUBSET Nat /\ A # {}
  BY DEF Block
<1>2. PICK a \in A : \A y \in A : a <= y
  BY <1>1, LeastNat
<1> DEFINE B == {e[2] : e \in {d \in todo : d[1] = a}}
<1>3. B \in SUBSET Nat /\ B # {}
  BY <1>2 DEF Block
<1>4. PICK b \in B : \A y \in B : b <= y
  BY <1>3, LeastNat
<1>5. PICK e \in todo : e[1] = a /\ e[2] = b
  BY <1>4
<1>6. ASSUME NEW d \in todo PROVE e[1] < d[1] \/ (e[1] = d[1] /\ e[2] <= d[2])
  <2>1. d[1] \in A /\ d[1] \in Nat /\ a \in Nat
    BY <1>1, <1>2 DEF Block
  <2>2. CASE d[1] = a
    BY <1>4, <1>5, <2>2
  <2>3. CASE d[1] # a
    BY <1>2, <1>5, <2>1, <2>3
  <2> QED BY <2>2, <2>3
<1> QED BY <1>6 DEF FirstEdge

\* Every step keeps the passes to their calls.
LEMMA NextCalled == TypeOK /\ Called /\ [Next]_vars => Called'
<1> SUFFICES ASSUME TypeOK, Called, [Next]_vars PROVE Called'
  OBVIOUS
<1>0. None \notin Call
  BY CallAssumption
<1>1. ASSUME NEW c \in Call, NextUse(c) PROVE Called'
  BY <1>0, <1>1 DEF NextUse, Called, TypeOK
<1>2. CASE Edge \/ Up \/ Replace \/ UNCHANGED vars
  BY <1>2 DEF Edge, Up, Replace, vars, Called
<1>3. CASE Judge \/ Select
  BY <1>0, <1>3 DEF Judge, Select, Called, TypeOK
<1>4. CASE NextPass
  BY <1>0, <1>4 DEF NextPass, Called, TypeOK, Call
<1> QED BY <1>1, <1>2, <1>3, <1>4 DEF Next

\* The initial state has its types.
LEMMA InitTypeOK == Init => TypeOK /\ Called
<1> SUFFICES ASSUME Init PROVE TypeOK /\ Called
  OBVIOUS
<1>1. Tree
  BY DEF Init, Tree
<1>2. idom \in [Block -> Node]
  BY <1>1, TreeIs
<1>3. need \in Seq(New)
  BY DEF Init
<1>4. None \notin Barrier
  BY CallAssumption DEF Call
<1> QED BY <1>2, <1>3, <1>4 DEF Init, TypeOK, Call, Called

\* A call pushed k times.
LEMMA Pushed ==
  ASSUME NEW q \in Seq(New), NEW c \in New, NEW k \in Nat
  PROVE  LET t == q \o [i \in 1 .. k |-> c]
         IN  /\ t \in Seq(New) /\ Len(t) = Len(q) + k
             /\ \A i \in 1 .. Len(q) : t[i] = q[i]
             /\ \A i \in (Len(q) + 1) .. (Len(q) + k) : t[i] = c
<1> DEFINE r == [i \in 1 .. k |-> c]
<1>1. r \in Seq(New) /\ Len(r) = k /\ \A i \in 1 .. k : r[i] = c
  <2>1. r \in Seq(New)
    BY IsASeq
  <2> QED BY <2>1
<1> HIDE DEF r
<1>2. /\ q \o r \in Seq(New) /\ Len(q \o r) = Len(q) + k
      /\ \A i \in 1 .. Len(q) : (q \o r)[i] = q[i]
      /\ \A i \in (Len(q) + 1) .. (Len(q) + k) : (q \o r)[i] = c
  BY <1>1
<1> QED BY <1>2 DEF r

\* Every step keeps the types.
LEMMA NextTypeOK == TypeOK /\ Called /\ [Next]_vars => TypeOK'
<1> SUFFICES ASSUME TypeOK, Called, [Next]_vars PROVE TypeOK'
  OBVIOUS
<1>0. None \notin Node /\ None \notin Call /\ Block \subseteq Node /\ Root \in Node
  BY CallAssumption DEF Node
<1>1. ASSUME NEW c \in Call, NextUse(c) PROVE TypeOK'
  <2>1. todo' \subseteq Block \X Block
    BY <1>1 DEF NextUse
  <2> QED BY <1>1, <2>1 DEF NextUse, TypeOK, function, Branches
<1>2. CASE Edge
  <2>1. FirstEdge \in Block \X Block
    BY <1>2, FirstEdgeIs DEF Edge, TypeOK
  <2>2. /\ todo' \subseteq Block \X Block
        /\ bb' \in Block \cup {None} /\ sbb' \in Node \cup {None}
        /\ (bb' = None <=> sbb' = None)
    BY <1>0, <1>2, <2>1 DEF Edge, TypeOK
  <2> QED BY <1>2, <2>2 DEF Edge, TypeOK, function, Branches
<1>3. CASE Up
  <2>1. bb \in Block /\ sbb \in Node
    BY <1>3 DEF Up, TypeOK
  <2>2. /\ bb' \in Block \cup {None} /\ sbb' \in Node \cup {None}
        /\ (bb' = None <=> sbb' = None)
        /\ ctrlDeps' \in [Block -> SUBSET Block]
        /\ fault' \in {"none", "node", "instruction"}
    <3>1. CASE sbb = PBB(bb)
      BY <1>3, <2>1, <3>1 DEF Up, TypeOK, EndOfWalk
    <3>2. CASE sbb # PBB(bb) /\ sbb = Root
      BY <1>3, <2>1, <3>2 DEF Up, TypeOK
    <3>3. CASE sbb # PBB(bb) /\ sbb # Root
      <4>1. sbb \in Block /\ idom[sbb] \in Node
        BY <2>1, <3>3 DEF TypeOK, Node
      <4>2. /\ ctrlDeps' = [ctrlDeps EXCEPT ![sbb] = ctrlDeps[sbb] \cup {bb}]
            /\ sbb' = idom[sbb] /\ bb' = bb /\ fault' = fault
        BY <1>3, <3>3 DEF Up
      <4> QED BY <1>0, <2>1, <4>1, <4>2 DEF TypeOK
    <3> QED BY <3>1, <3>2, <3>3
  <2> QED BY <1>3, <2>2 DEF Up, TypeOK, function, Branches
<1>4. CASE Judge
  BY <1>4 DEF Judge, TypeOK, function, walk, Branches
<1>5. CASE Select
  <2>1. Times(call) \in Nat
    <3>1. IsFiniteSet(Block)
      BY FS_Interval, NBlockAssumption DEF Block
    <3>2. IdDependent(Controlling(call)) \in SUBSET Block
      BY DEF IdDependent, TypeOK, Branches
    <3>3. Cardinality(IdDependent(Controlling(call))) \in Nat
      BY <3>1, <3>2, FS_Subset, FS_CardinalityType
    <3> QED BY <3>3 DEF Times
  <2>2. call \in New
    BY <1>5 DEF Select, Called
  <2>3. need' \in Seq(New)
    BY <1>5, <2>1, <2>2, Pushed DEF Select, TypeOK
  <2> QED BY <1>5, <2>3 DEF Select, TypeOK, function, walk, Branches
<1>6. CASE NextPass
  BY <1>6 DEF NextPass, TypeOK, function, walk, Branches, Call
<1>7. CASE Replace
  BY <1>7 DEF Replace, TypeOK, function, walk, Branches
<1>8. CASE UNCHANGED vars
  BY <1>8 DEF vars, TypeOK, function, walk, Branches
<1> QED BY <1>1, <1>2, <1>3, <1>4, <1>5, <1>6, <1>7, <1>8 DEF Next

\* Types: the walk is at a block and a node of the tree, or nowhere.
THEOREM Typing == Spec => []TypeOK
<1>1. TypeOK /\ Called /\ [Next]_vars => (TypeOK /\ Called)'
  BY NextTypeOK, NextCalled
<1> QED BY InitTypeOK, <1>1, PTL DEF Spec

-----------------------------------------------------------------------------
(* The walk.                                                               *)

\* The walk from an edge that does not go up the tree collects the nodes below the
\* parent of its block; b is one of them for the edge from c to s.
Between(b, c, s) == /\ s \notin Doms(succ, c) /\ b \in Doms(succ, s)
                    /\ b \notin Doms(succ, idom[c])

\* The walk is on its way to the parent of the block.
OnTheWay ==
    bb # None => /\ idom[bb] \in Doms(succ, sbb)
                 /\ \E s \in succ[bb] : s \notin Doms(succ, bb) /\ sbb \in Doms(succ, s)

\* What it has collected is right, and what it has not is still ahead of it.
Sound == \A b \in Block : ctrlDeps[b] \subseteq {c \in Block : DependsOn(b, c)}
Ahead(b, c, s) == \/ c \in ctrlDeps[b]
                  \/ <<c, s>> \in todo
                  \/ bb = c /\ b \in Doms(succ, sbb)
Computes == call # None /\ ~(pass = "malloc-select" /\ always)
Whole == Computes => \A b, c \in Block : \A s \in succ[c] : Between(b, c, s) => Ahead(b, c, s)

Edges == \A e \in todo : e[2] \in succ[e[1]]

WalkInv == /\ Tree /\ Edges /\ OnTheWay /\ Sound /\ Whole /\ fault # "node"
           /\ call = None => bb = None

\* The first states.
LEMMA InitWalkInv == Init => WalkInv
BY InitTree DEF Init, WalkInv, Edges, OnTheWay, Sound, Whole, Computes

\* A walk begins below the parent of its block.
LEMMA EdgeKeepsWalk ==
  ASSUME TypeOK, WalkInv, Edge
  PROVE  OnTheWay' /\ Sound' /\ Whole' /\ Edges'
<1> DEFINE e == FirstEdge
<1>0. /\ Block \subseteq Node /\ None \notin Node /\ succ \in Functions
      /\ succ' = succ /\ idom' = idom /\ call' = call /\ pass' = pass
      /\ always' = always /\ ctrlDeps' = ctrlDeps /\ todo' = todo \ {e} /\ bb = None
  BY CallAssumption DEF Edge, function, Node, TypeOK
<1>1. /\ e \in todo /\ e \in Block \X Block /\ e = <<e[1], e[2]>> /\ e[2] \in succ[e[1]]
      /\ todo \subseteq Block \X Block
  BY FirstEdgeIs DEF Edge, TypeOK, WalkInv, Edges
<1> HIDE DEF e
<1>2. Dominates(e[2], e[1]) <=> e[2] \in Doms(succ, e[1])
  BY <1>0, <1>1, AncestorsAre DEF Dominates, WalkInv
<1>3. \/ e[2] \in Doms(succ, e[1]) /\ bb' = bb /\ sbb' = sbb
      \/ e[2] \notin Doms(succ, e[1]) /\ bb' = e[1] /\ sbb' = e[2]
  BY <1>2 DEF Edge, e
<1>4. e[2] \in Doms(succ, e[2])
  BY <1>0, <1>1, DomsEnds
<1>5. e[2] \notin Doms(succ, e[1]) => idom[e[1]] \in Doms(succ, e[2])
  <2>1. idom[e[1]] \in Node /\ Doms(succ, idom[e[1]]) = Strictly(succ, e[1])
    BY <1>1, TreeIs DEF WalkInv
  <2>2. idom[e[1]] \in Strictly(succ, e[1])
    BY <1>0, <2>1, DomsEnds
  <2>3. e[2] \in Next1(succ)[e[1]]
    BY <1>0, <1>1, NextNodes
  <2> QED BY <1>0, <1>1, <2>2, <2>3, DomsEnds
<1>6. OnTheWay'
  BY <1>0, <1>1, <1>3, <1>4, <1>5 DEF OnTheWay
<1>7. Sound'
  BY <1>0 DEF WalkInv, Sound, DependsOn
<1>8. Edges'
  BY <1>0 DEF WalkInv, Edges
<1>9. ASSUME Computes', NEW b \in Block, NEW c \in Block, NEW s \in succ[c], Between(b, c, s)
      PROVE  Ahead(b, c, s)'
  <2>1. Ahead(b, c, s)
    BY <1>0, <1>9 DEF WalkInv, Whole, Computes
  <2>2. CASE c \in ctrlDeps[b] \/ <<c, s>> \in todo \ {e}
    BY <1>0, <2>2 DEF Ahead
  <2>3. CASE <<c, s>> = e
    <3>1. e[1] = c /\ e[2] = s
      BY <2>3
    <3> QED BY <1>0, <1>3, <1>9, <3>1 DEF Ahead, Between
  <2>4. bb # c
    BY <1>0
  <2> QED BY <2>1, <2>2, <2>3, <2>4 DEF Ahead
<1>10. Whole'
  BY <1>0, <1>9 DEF Whole, Between
<1> QED BY <1>6, <1>7, <1>8, <1>10

\* It goes up until the parent of its block, and misses no node below it.
LEMMA UpKeepsWalk ==
  ASSUME TypeOK, WalkInv, Up
  PROVE  OnTheWay' /\ Sound' /\ Whole' /\ Edges' /\ fault' # "node"
<1>0. /\ Block \subseteq Node /\ None \notin Node /\ succ \in Functions
      /\ bb \in Block /\ sbb \in Node /\ idom \in [Block -> Node]
      /\ succ' = succ /\ idom' = idom /\ call' = call /\ pass' = pass
      /\ always' = always /\ todo' = todo
  BY CallAssumption DEF Up, function, Node, TypeOK
<1>1. /\ idom[bb] \in Doms(succ, sbb) /\ PBB(bb) = idom[bb]
      /\ \E s \in succ[bb] : s \notin Doms(succ, bb) /\ sbb \in Doms(succ, s)
  BY <1>0 DEF WalkInv, OnTheWay, PBB
<1>2. Edges'
  BY <1>0 DEF WalkInv, Edges
<1>3. CASE sbb = idom[bb]
  <2>1. bb' = None /\ sbb' = None /\ ctrlDeps' = ctrlDeps /\ fault' = fault
    BY <1>1, <1>3 DEF Up, EndOfWalk
  <2>2. OnTheWay' /\ Sound' /\ fault' # "node"
    BY <1>0, <2>1 DEF OnTheWay, WalkInv, Sound, DependsOn
  <2>3. ASSUME Computes', NEW b \in Block, NEW c \in Block, NEW s \in succ[c], Between(b, c, s)
        PROVE  Ahead(b, c, s)'
    <3>1. Ahead(b, c, s)
      BY <1>0, <2>3 DEF WalkInv, Whole, Computes
    <3>2. ~(bb = c /\ b \in Doms(succ, sbb))
      BY <1>3, <2>3 DEF Between
    <3> QED BY <1>0, <2>1, <3>1, <3>2 DEF Ahead
  <2>4. Whole'
    BY <1>0, <2>3 DEF Whole, Between
  <2> QED BY <1>2, <2>2, <2>4
<1>4. CASE sbb # idom[bb]
  <2>1. sbb # Root /\ sbb \in Block
    <3>1. sbb # Root
      BY <1>0, <1>1, <1>4, DomsEnds
    <3> QED BY <1>0, <3>1 DEF Node
  <2>2. /\ ctrlDeps' = [ctrlDeps EXCEPT ![sbb] = ctrlDeps[sbb] \cup {bb}]
        /\ sbb' = idom[sbb] /\ bb' = bb /\ fault' = fault
    BY <1>1, <1>4, <2>1 DEF Up
  <2>3. \A b \in Block : ctrlDeps'[b] = IF b = sbb THEN ctrlDeps[b] \cup {bb} ELSE ctrlDeps[b]
    BY <2>1, <2>2 DEF TypeOK
  <2>4. Doms(succ, idom[sbb]) = Doms(succ, sbb) \ {sbb} /\ idom[sbb] \in Node
    BY <1>0, <2>1, TreeIs, DomsEnds DEF WalkInv
  <2>5. sbb \notin Doms(succ, idom[bb])
    <3>1. idom[bb] \in Node
      BY <1>0
    <3> QED BY <1>0, <1>1, <1>4, <3>1, DomsAntisymmetric
  <2>6. DependsOn(sbb, bb)
    BY <1>0, <1>1, <2>1, <2>5, Dependence DEF WalkInv
  <2>7. Sound'
    <3>1. \A b, c \in Block : DependsOn(b, c)' <=> DependsOn(b, c)
      BY <1>0 DEF DependsOn
    <3>2. ASSUME NEW b \in Block, NEW c \in ctrlDeps'[b]
          PROVE  c \in Block /\ DependsOn(b, c)
      <4>1. c \in ctrlDeps[b] \/ (b = sbb /\ c = bb)
        BY <2>3, <3>2
      <4>2. c \in ctrlDeps[b] => c \in Block /\ DependsOn(b, c)
        BY DEF WalkInv, Sound
      <4> QED BY <1>0, <2>6, <4>1, <4>2
    <3>3. ASSUME NEW b \in Block, NEW c \in ctrlDeps'[b]
          PROVE  c \in Block /\ DependsOn(b, c)'
      BY <3>1, <3>2, <3>3
    <3> QED BY <3>3 DEF Sound
  <2>8. OnTheWay'
    <3>1. idom[bb] \in Doms(succ, idom[sbb])
      BY <1>1, <1>4, <2>4
    <3>2. PICK s \in succ[bb] : s \notin Doms(succ, bb) /\ sbb \in Doms(succ, s)
      BY <1>1
    <3>3. s \in Node
      BY <1>0, NextNodes
    <3>4. idom[sbb] \in Doms(succ, s)
      <4>1. idom[sbb] \in Doms(succ, idom[sbb])
        BY <1>0, <2>4, DomsEnds
      <4>2. Doms(succ, sbb) \subseteq Doms(succ, s)
        BY <1>0, <3>2, <3>3, DomsTransitive
      <4> QED BY <2>4, <4>1, <4>2
    <3> QED BY <1>0, <2>2, <3>1, <3>2, <3>4 DEF OnTheWay
  <2>9. ASSUME Computes', NEW b \in Block, NEW c \in Block, NEW s \in succ[c], Between(b, c, s)
        PROVE  Ahead(b, c, s)'
    <3>1. Ahead(b, c, s)
      BY <1>0, <2>9 DEF WalkInv, Whole, Computes
    <3>2. CASE c \in ctrlDeps[b] \/ <<c, s>> \in todo
      BY <1>0, <2>3, <3>2 DEF Ahead
    <3>3. CASE bb = c /\ b \in Doms(succ, sbb)
      <4>1. CASE b = sbb
        BY <2>3, <3>3, <4>1 DEF Ahead
      <4>2. CASE b # sbb
        BY <1>0, <2>2, <2>4, <3>3, <4>2 DEF Ahead
      <4> QED BY <4>1, <4>2
    <3> QED BY <3>1, <3>2, <3>3 DEF Ahead
  <2>10. Whole'
    BY <1>0, <2>9 DEF Whole, Between
  <2>11. fault' # "node"
    BY <2>2 DEF WalkInv
  <2> QED BY <1>2, <2>7, <2>8, <2>10, <2>11
<1> QED BY <1>3, <1>4

\* Every step keeps the walk in the tree.
LEMMA NextWalkInv == TypeOK /\ Called /\ WalkInv /\ [Next]_vars => WalkInv'
<1> SUFFICES ASSUME TypeOK, Called, WalkInv, [Next]_vars PROVE WalkInv'
  OBVIOUS
<1>0. None \notin Call /\ Tree'
  BY CallAssumption, TreeStays DEF WalkInv
<1>1. ASSUME NEW c \in Call, NextUse(c) PROVE WalkInv'
  <2>1. /\ bb = None /\ bb' = None /\ succ' = succ /\ idom' = idom
        /\ ctrlDeps' = [x \in Block |-> {}] /\ call' = c /\ always' = always /\ pass' = pass
        /\ fault' = fault
    BY <1>1 DEF NextUse, WalkInv, function
  <2>2. todo' = IF pass = "malloc-select" /\ always THEN {}
                ELSE {e \in Block \X Block : e[2] \in succ[e[1]]}
    BY <1>1 DEF NextUse
  <2>3. OnTheWay' /\ Sound' /\ Edges'
    BY <2>1, <2>2 DEF OnTheWay, Sound, Edges
  <2>4. ASSUME Computes', NEW b \in Block, NEW d \in Block, NEW s \in succ[d]
        PROVE  Ahead(b, d, s)'
    <3>1. s \in Block
      BY NextNodes DEF TypeOK
    <3>2. <<d, s>> \in todo'
      BY <2>1, <2>2, <2>4, <3>1 DEF Computes
    <3> QED BY <3>2 DEF Ahead
  <2>5. Whole'
    BY <2>1, <2>4 DEF Whole
  <2> QED BY <1>0, <2>1, <2>3, <2>5 DEF WalkInv
<1>2. CASE Edge
  <2>1. fault' = fault /\ call' = call /\ call # None
    BY <1>2 DEF Edge
  <2> QED BY <1>0, <1>2, <2>1, EdgeKeepsWalk DEF WalkInv
<1>3. CASE Up
  <2>1. call' = call /\ call # None
    BY <1>3 DEF Up, WalkInv
  <2> QED BY <1>0, <1>3, <2>1, UpKeepsWalk DEF WalkInv
<1>4. CASE Judge \/ Select
  <2>1. /\ UNCHANGED <<function, walk>> /\ call' = None /\ bb = None /\ fault' = fault
    BY <1>4 DEF Judge, Select
  <2> QED BY <1>0, <2>1
      DEF WalkInv, function, walk, OnTheWay, Sound, Whole, Computes, Edges, DependsOn
<1>5. CASE NextPass \/ Replace
  <2>1. /\ UNCHANGED <<function, walk, call>> /\ call = None /\ fault' # "node"
    BY <1>5 DEF NextPass, Replace, WalkInv, Called
  <2> QED BY <1>0, <2>1
      DEF WalkInv, function, walk, OnTheWay, Sound, Whole, Computes, Edges, DependsOn
<1>6. CASE UNCHANGED vars
  BY <1>0, <1>6 DEF vars, WalkInv, function, walk, OnTheWay, Sound, Whole, Computes, Edges,
                    DependsOn, Between, Ahead
<1> QED BY <1>1, <1>2, <1>3, <1>4, <1>5, <1>6 DEF Next

\* The walk up the tree meets the parent of the branch, and never asks the root for
\* its parent.
THEOREM WalksStop == Spec => []WalkStopsInTree
<1>1. TypeOK /\ Called /\ WalkInv /\ [Next]_vars => (TypeOK /\ Called /\ WalkInv)'
  BY NextTypeOK, NextCalled, NextWalkInv
<1>2. WalkInv => WalkStopsInTree
  BY DEF WalkInv, WalkStopsInTree
<1> QED BY InitTypeOK, InitWalkInv, <1>1, <1>2, PTL DEF Spec

-----------------------------------------------------------------------------
(* The verdicts.                                                           *)

\* When the walk is over it has found control dependence by paths.
LEMMA Collected ==
  ASSUME TypeOK, WalkInv, Computes, todo = {}, bb = None
  PROVE  \A b \in Block : ctrlDeps[b] = {c \in Block : DependsOn(b, c)}
<1> SUFFICES ASSUME NEW b \in Block PROVE ctrlDeps[b] = {c \in Block : DependsOn(b, c)}
  OBVIOUS
<1>1. ASSUME NEW c \in Block, DependsOn(b, c) PROVE c \in ctrlDeps[b]
  <2>1. PICK s \in succ[c] : Between(b, c, s)
    BY <1>1, Dependence DEF WalkInv, Between
  <2>2. Ahead(b, c, s)
    BY <2>1 DEF WalkInv, Whole
  <2>3. bb # c
    BY CallAssumption DEF Node
  <2> QED BY <2>2, <2>3 DEF Ahead
<1>2. ctrlDeps[b] \subseteq {c \in Block : DependsOn(b, c)}
  BY DEF WalkInv, Sound
<1> QED BY <1>1, <1>2

\* The walk of an edge up LLVM's tree, from its target to the parent of its source,
\* computes control dependence by paths, for every function, but for the edges from
\* a block to itself, which it skips.
THEOREM DependencesAreRight ==
  Spec => [](Computes /\ todo = {} /\ bb = None =>
                \A b, c \in Block :
                   /\ c \in ctrlDeps[b] => Controls(c, b)
                   /\ Controls(c, b) => c \in ctrlDeps[b] \/ (c = b /\ c \in succ[c]))
<1>1. TypeOK /\ Called /\ WalkInv /\ [Next]_vars => (TypeOK /\ Called /\ WalkInv)'
  BY NextTypeOK, NextCalled, NextWalkInv
<1>2. TypeOK /\ WalkInv =>
         (Computes /\ todo = {} /\ bb = None =>
             \A b, c \in Block :
                /\ c \in ctrlDeps[b] => Controls(c, b)
                /\ Controls(c, b) => c \in ctrlDeps[b] \/ (c = b /\ c \in succ[c]))
  <2> SUFFICES ASSUME TypeOK, WalkInv, Computes, todo = {}, bb = None,
                      NEW b \in Block, NEW c \in Block
               PROVE  /\ c \in ctrlDeps[b] => Controls(c, b)
                      /\ Controls(c, b) => c \in ctrlDeps[b] \/ (c = b /\ c \in succ[c])
    OBVIOUS
  <2>1. ctrlDeps[b] = {x \in Block : DependsOn(b, x)}
    BY Collected
  <2> QED BY <2>1, Loops
<1> QED BY InitTypeOK, InitWalkInv, <1>1, <1>2, PTL DEF Spec

\* The divergent branches that the pass sees.
Seen(c) == {b \in divergent : DependsOn(place[c], b)}

\* And so those are the ones that it looks at.
LEMMA Analyzed ==
  ASSUME TypeOK, WalkInv, Computes, call \in Call, todo = {}, bb = None
  PROVE  IdDependent(Controlling(call)) = Seen(call)
<1>1. place[call] \in Block /\ divergent \subseteq Block
  BY PlacementAssumption DEF TypeOK, Branches
<1>2. ctrlDeps[place[call]] = {c \in Block : DependsOn(place[call], c)}
  BY <1>1, Collected
<1> QED BY <1>1, <1>2 DEF IdDependent, Controlling, Seen

Wanted(c) == always \/ Seen(c) # {}
Listed(c) == \E i \in 1 .. Len(need) : need[i] = c

\* No divergent branch is seen for the barriers that have been looked at; a new is listed or replaced if
\* it is wanted, once it has been looked at, and only then.
VerdictInv ==
    /\ rejected => \E c \in Barrier : Seen(c) # {}
    /\ pass = "tile-uniform" =>
          /\ need = <<>> /\ malloc = {}
          /\ \A c \in Barrier : c \in uses \/ c = call \/ rejected \/ Seen(c) = {}
    /\ pass # "tile-uniform" => \A c \in Barrier : Seen(c) = {}
    /\ pass = "malloc-select" =>
          /\ malloc = {}
          /\ \A c \in New : Wanted(c) => c \in uses \/ c = call \/ Listed(c)
    /\ pass \in {"replace", "done"} => \A c \in New : Wanted(c) => Listed(c) \/ c \in malloc
    /\ pass = "done" => need = <<>>
    /\ \A c \in New : Listed(c) \/ c \in malloc => Wanted(c)

\* No two divergent branches are seen for one new.
OneBranch == \A c \in New : Cardinality(Seen(c)) <= 1

\* Then a call is listed once, after it has been looked at and before it is replaced.
OnceInv ==
    OneBranch =>
      /\ fault # "instruction"
      /\ \A i \in 1 .. Len(need) :
            /\ need[i] \notin malloc
            /\ \A j \in 1 .. Len(need) : need[i] = need[j] => i = j
            /\ pass = "malloc-select" => need[i] \notin uses /\ need[i] # call

\* The first states.
LEMMA InitVerdict == Init => VerdictInv /\ OnceInv
BY DEF Init, VerdictInv, OnceInv, Listed

\* No step changes the branches that are seen.
LEMMA SeenStays ==
  [Next]_vars => always' = always /\ \A c \in Call : Seen(c)' = Seen(c)
<1> SUFFICES ASSUME [Next]_vars
             PROVE  always' = always /\ \A c \in Call : Seen(c)' = Seen(c)
  OBVIOUS
<1>1. succ' = succ /\ divergent' = divergent /\ place' = place /\ always' = always
  BY FunctionStays DEF function
<1> QED BY <1>1 DEF Seen, DependsOn

\* Judging a barrier.
LEMMA JudgeKeepsVerdict ==
  ASSUME TypeOK, Called, WalkInv, VerdictInv, OnceInv, Judge
  PROVE  VerdictInv' /\ OnceInv'
<1>1. /\ call \in Barrier /\ pass = "tile-uniform" /\ ~rejected
      /\ pass' = pass /\ uses' = uses /\ need' = need /\ malloc' = malloc
      /\ call' = None /\ fault' = fault
  BY DEF Judge, Called, Running
<1>2. always' = always /\ \A c \in Call : Seen(c)' = Seen(c)
  BY SeenStays DEF Next
<1>3. IdDependent(Controlling(call)) = Seen(call)
  BY <1>1, Analyzed DEF Judge, Computes, Call
<1>4. rejected' = (Seen(call) # {})
  BY <1>3 DEF Judge
<1>5. need = <<>> /\ malloc = {} /\
      \A c \in Barrier : c \in uses \/ c = call \/ Seen(c) = {}
  BY <1>1 DEF VerdictInv
<1>6. \A c \in Barrier : c \in uses' \/ rejected' \/ Seen(c)' = {}
  BY <1>1, <1>2, <1>4, <1>5 DEF Call
<1>7. rejected' => \E c \in Barrier : Seen(c)' # {}
  BY <1>1, <1>2, <1>4 DEF Call
<1>8. VerdictInv'
  BY <1>1, <1>5, <1>6, <1>7 DEF VerdictInv, Listed
<1>9. OnceInv'
  BY <1>1, <1>2, <1>5 DEF OnceInv, OneBranch, Call, VerdictInv
<1> QED BY <1>8, <1>9

\* The call is pushed if it is wanted, and once if one branch parts its items.
LEMMA PushedIfWanted ==
  ASSUME TypeOK, Called, WalkInv, Select
  PROVE  /\ call \in New /\ Times(call) \in Nat
         /\ Times(call) > 0 <=> Wanted(call)
         /\ OneBranch => Times(call) <= 1
<1>1. call \in New
  BY DEF Select, Called
<1>2. CASE always
  BY <1>1, <1>2 DEF Times, Wanted
<1>3. CASE ~always
  <2>1. IdDependent(Controlling(call)) = Seen(call)
    BY <1>1, <1>3, Analyzed DEF Select, Computes, Call
  <2>2. Times(call) = Cardinality(Seen(call))
    BY <1>3, <2>1 DEF Times
  <2>3. IsFiniteSet(Block) /\ Seen(call) \subseteq Block
    <3>1. IsFiniteSet(Block)
      BY FS_Interval, NBlockAssumption DEF Block
    <3>2. Seen(call) \subseteq Block
      BY DEF Seen, TypeOK, Branches
    <3> QED BY <3>1, <3>2
  <2>4. IsFiniteSet(Seen(call))
    BY <2>3, FS_Subset
  <2>5. /\ Cardinality(Seen(call)) \in Nat
        /\ Cardinality(Seen(call)) = 0 <=> Seen(call) = {}
    BY <2>4, FS_CardinalityType, FS_EmptySet
  <2>6. OneBranch => Cardinality(Seen(call)) <= 1
    BY <1>1 DEF OneBranch
  <2> QED BY <1>1, <1>3, <2>2, <2>5, <2>6 DEF Wanted
<1> QED BY <1>2, <1>3

\* Looking at a new.
LEMMA SelectKeepsVerdict ==
  ASSUME TypeOK, Called, WalkInv, VerdictInv, OnceInv, Select
  PROVE  VerdictInv' /\ OnceInv'
<1> DEFINE n == Len(need)
           k == Times(call)
<1>1. /\ pass = "malloc-select" /\ malloc = {} /\ call \notin uses
      /\ pass' = pass /\ uses' = uses /\ malloc' = malloc
      /\ call' = None /\ fault' = fault /\ rejected' = rejected
  BY DEF Select, VerdictInv, Called
<1>2. always' = always /\ \A c \in Call : Seen(c)' = Seen(c)
  BY SeenStays DEF Next
<1>3. /\ call \in New /\ k \in Nat
      /\ k > 0 <=> Wanted(call)
      /\ OneBranch => k <= 1
  BY PushedIfWanted
<1>4. need' = need \o [i \in 1 .. k |-> call]
  BY DEF Select
<1>5. n \in Nat /\ need \in Seq(New)
  BY DEF TypeOK
<1>6. /\ Len(need') = n + k
      /\ \A i \in 1 .. n : need'[i] = need[i]
      /\ \A i \in (n + 1) .. (n + k) : need'[i] = call
  BY <1>3, <1>4, <1>5, Pushed
<1> HIDE DEF n, k
<1>7. \A c \in New : Listed(c)' <=> Listed(c) \/ (c = call /\ Wanted(call))
  <2>1. ASSUME NEW c \in New, Listed(c) PROVE Listed(c)'
    <3>1. PICK i \in 1 .. n : need[i] = c
      BY <2>1 DEF Listed, n
    <3>2. i \in 1 .. Len(need') /\ need'[i] = c
      BY <1>3, <1>5, <1>6, <3>1
    <3> QED BY <3>2 DEF Listed
  <2>2. ASSUME NEW c \in New, c = call, Wanted(call) PROVE Listed(c)'
    <3>1. n + 1 \in 1 .. Len(need') /\ need'[n + 1] = c
      BY <1>3, <1>5, <1>6, <2>2
    <3> QED BY <1>1, <3>1 DEF Listed
  <2>3. ASSUME NEW c \in New, Listed(c)' PROVE Listed(c) \/ (c = call /\ Wanted(call))
    <3>1. PICK i \in 1 .. Len(need') : need'[i] = c
      BY <2>3 DEF Listed
    <3>2. CASE i \in 1 .. n
      BY <1>6, <3>1, <3>2 DEF Listed, n
    <3>3. CASE i \in (n + 1) .. (n + k)
      BY <1>3, <1>5, <1>6, <3>1, <3>3
    <3> QED BY <1>3, <1>5, <1>6, <3>1, <3>2, <3>3
  <2> QED BY <2>1, <2>2, <2>3
<1>8. \A c \in New : Wanted(c)' <=> Wanted(c)
  BY <1>2 DEF Wanted, Call
<1>9. \A c \in New : Wanted(c) => c \in uses \/ c = call \/ Listed(c)
  BY <1>1 DEF VerdictInv
<1>10. VerdictInv'
  <2>1. \A c \in New : Wanted(c)' => c \in uses' \/ Listed(c)'
    BY <1>1, <1>7, <1>8, <1>9
  <2>2. \A c \in New : Listed(c)' \/ c \in malloc' => Wanted(c)'
    BY <1>1, <1>3, <1>7, <1>8 DEF VerdictInv
  <2>3. ~rejected /\ \A c \in Barrier : Seen(c)' = {}
    BY <1>1, <1>2 DEF VerdictInv, Call, Select, Running
  <2> QED BY <1>1, <2>1, <2>2, <2>3 DEF VerdictInv
<1>11. OnceInv'
  <2>1. SUFFICES ASSUME OneBranch' PROVE OnceInv'
    BY DEF OnceInv
  <2>2. OneBranch
    BY <1>2, <2>1 DEF OneBranch, Call
  <2>3. /\ fault # "instruction"
        /\ \A i \in 1 .. n : /\ need[i] \notin uses /\ need[i] # call
                             /\ \A j \in 1 .. n : need[i] = need[j] => i = j
    BY <1>1, <2>2 DEF OnceInv, n
  <2>4. k <= 1 /\ None \notin New
    BY <1>3, <2>2, CallAssumption DEF Call
  <2>5. \A i \in 1 .. n + k : i \in 1 .. n \/ (i = n + 1 /\ need'[i] = call)
    BY <1>3, <1>5, <1>6, <2>4
  <2>6. ASSUME NEW i \in 1 .. n + k
        PROVE  /\ need'[i] \notin uses /\ need'[i] \in New
               /\ \A j \in 1 .. n + k : need'[i] = need'[j] => i = j
    BY <1>1, <1>3, <1>5, <1>6, <2>3, <2>5 DEF n
  <2> QED BY <1>1, <1>6, <2>3, <2>4, <2>6 DEF OnceInv
<1> QED BY <1>10, <1>11

\* Replacing a call.
LEMMA ReplaceKeepsVerdict ==
  ASSUME TypeOK, Called, VerdictInv, OnceInv, Replace
  PROVE  VerdictInv' /\ OnceInv'
<1> DEFINE n == Len(need)
           c == need[n]
<1>1. /\ pass = "replace" /\ pass' = pass /\ rejected' = rejected /\ ~rejected
      /\ malloc' = malloc \cup {c}
      /\ fault' = IF c \in malloc THEN "instruction" ELSE fault
  BY DEF Replace, Running
<1>2. always' = always /\ \A d \in Call : Seen(d)' = Seen(d)
  BY SeenStays DEF Next
<1>3. n \in Nat /\ n >= 1 /\ c \in New /\ need \in Seq(New)
  BY DEF TypeOK, Replace
<1>4. Len(need') = n - 1 /\ \A i \in 1 .. n - 1 : need'[i] = need[i]
  <2>1. need' = SubSeq(need, 1, n - 1)
    BY DEF Replace
  <2>2. \A i \in 1 .. n - 1 : need[i] \in New
    BY <1>3
  <2>3. /\ Len(SubSeq(need, 1, n - 1)) = IF 1 <= n - 1 THEN (n - 1) - 1 + 1 ELSE 0
        /\ \A i \in 1 .. (n - 1) - 1 + 1 : SubSeq(need, 1, n - 1)[i] = need[1 + i - 1]
    BY <1>3, <2>2, SubSeqProperties
  <2>4. Len(need') = n - 1
    <3>1. \A m \in Nat : m >= 1 => (IF 1 <= m - 1 THEN (m - 1) - 1 + 1 ELSE 0) = m - 1
      OBVIOUS
    <3>2. Len(SubSeq(need, 1, n - 1)) = n - 1
      BY <1>3, <2>3, <3>1, Zenon
    <3> QED BY <2>1, <3>2, Zenon
  <2>5. ASSUME NEW i \in 1 .. n - 1 PROVE need'[i] = need[i]
    BY <1>3, <2>1, <2>3, <2>5
  <2> QED BY <2>4, <2>5
<1> HIDE DEF n, c
<1>5. \A d \in New : Listed(d) <=> Listed(d)' \/ d = c
  <2>1. ASSUME NEW d \in New, Listed(d) PROVE Listed(d)' \/ d = c
    <3>1. PICK i \in 1 .. n : need[i] = d
      BY <2>1 DEF Listed, n
    <3>2. CASE i = n
      BY <3>1, <3>2 DEF c
    <3>3. CASE i # n
      <4>1. i \in 1 .. Len(need') /\ need'[i] = d
        BY <1>3, <1>4, <3>1, <3>3
      <4> QED BY <4>1 DEF Listed
    <3> QED BY <3>2, <3>3
  <2>2. ASSUME NEW d \in New, Listed(d)' PROVE Listed(d)
    <3>1. PICK i \in 1 .. Len(need') : need'[i] = d
      BY <2>2 DEF Listed
    <3>2. i \in 1 .. n /\ need[i] = d
      BY <1>3, <1>4, <3>1
    <3> QED BY <3>2 DEF Listed, n
  <2>3. Listed(c)
    BY <1>3 DEF Listed, n, c
  <2> QED BY <2>1, <2>2, <2>3
<1>6. \A d \in New : Wanted(d)' <=> Wanted(d)
  BY <1>2 DEF Wanted, Call
<1>7. VerdictInv'
  <2>1. \A d \in New : /\ Wanted(d) => Listed(d) \/ d \in malloc
                       /\ Listed(d) \/ d \in malloc => Wanted(d)
    BY <1>1 DEF VerdictInv
  <2>2. \A d \in New : /\ Wanted(d)' => Listed(d)' \/ d \in malloc'
                       /\ Listed(d)' \/ d \in malloc' => Wanted(d)'
    BY <1>1, <1>5, <1>6, <2>1
  <2>3. \A d \in Barrier : Seen(d)' = {}
    BY <1>1, <1>2 DEF VerdictInv, Call
  <2> QED BY <1>1, <2>2, <2>3 DEF VerdictInv
<1>8. OnceInv'
  <2>1. SUFFICES ASSUME OneBranch' PROVE OnceInv'
    BY DEF OnceInv
  <2>2. OneBranch
    BY <1>2, <2>1 DEF OneBranch, Call
  <2>3. /\ fault # "instruction"
        /\ \A i \in 1 .. n : /\ need[i] \notin malloc
                             /\ \A j \in 1 .. n : need[i] = need[j] => i = j
    BY <2>2 DEF OnceInv, n
  <2>4. c \notin malloc /\ fault' # "instruction"
    BY <1>1, <1>3, <2>3 DEF c
  <2>5. ASSUME NEW i \in 1 .. n - 1
        PROVE  /\ need'[i] \notin malloc'
               /\ \A j \in 1 .. n - 1 : need'[i] = need'[j] => i = j
    BY <1>1, <1>3, <1>4, <2>3 DEF c
  <2> QED BY <1>1, <1>4, <2>4, <2>5 DEF OnceInv
<1> QED BY <1>7, <1>8

\* Every step keeps the verdicts.
LEMMA NextVerdict ==
  TypeOK /\ Called /\ WalkInv /\ VerdictInv /\ OnceInv /\ [Next]_vars
    => VerdictInv' /\ OnceInv'
<1> SUFFICES ASSUME TypeOK, Called, WalkInv, VerdictInv, OnceInv, [Next]_vars
             PROVE  VerdictInv' /\ OnceInv'
  OBVIOUS
<1>0. /\ always' = always /\ \A c \in Call : Seen(c)' = Seen(c)
      /\ None \notin Call /\ Barrier \subseteq Call /\ New \subseteq Call
  BY SeenStays, CallAssumption DEF Call
<1>1. /\ \A c \in New : Wanted(c)' <=> Wanted(c)
      /\ OneBranch' <=> OneBranch
  BY <1>0 DEF Wanted, OneBranch
<1>2. ASSUME NEW c \in Call, NextUse(c) PROVE VerdictInv' /\ OnceInv'
  <2>1. /\ call = None /\ call' = c /\ uses' = uses \ {c} /\ c \in uses
        /\ UNCHANGED <<pass, need, malloc, rejected, fault>>
    BY <1>2 DEF NextUse
  <2>2. VerdictInv'
    BY <1>0, <1>1, <2>1 DEF VerdictInv, Listed
  <2>3. OnceInv'
    BY <1>1, <2>1 DEF OnceInv
  <2> QED BY <2>2, <2>3
<1>3. CASE Edge \/ Up
  <2>1. /\ UNCHANGED <<pass, uses, call, need, malloc, rejected>>
        /\ fault' = "instruction" => fault = "instruction"
    BY <1>3 DEF Edge, Up
  <2>2. VerdictInv'
    BY <1>0, <1>1, <2>1 DEF VerdictInv, Listed
  <2>3. OnceInv'
    BY <1>1, <2>1 DEF OnceInv
  <2> QED BY <2>2, <2>3
<1>4. CASE NextPass
  <2>1. /\ UNCHANGED <<call, need, malloc, rejected, fault>> /\ uses = {} /\ call = None
        /\ ~rejected
        /\ \/ pass = "tile-uniform" /\ pass' = "malloc-select" /\ uses' = New
           \/ pass = "malloc-select" /\ pass' = "replace" /\ uses' = uses
           \/ pass = "replace" /\ need = <<>> /\ pass' = "done" /\ uses' = uses
    BY <1>4 DEF NextPass, Running
  <2>2. \A c \in Barrier : c # None
    BY <1>0
  <2>3. \A c \in New : c # None
    BY <1>0
  <2>4. VerdictInv'
    <3>1. CASE pass = "tile-uniform" /\ pass' = "malloc-select" /\ uses' = New
      BY <1>0, <1>1, <2>1, <2>2, <3>1 DEF VerdictInv, Listed
    <3>2. CASE pass = "malloc-select" /\ pass' = "replace" /\ uses' = uses
      BY <1>0, <1>1, <2>1, <2>3, <3>2 DEF VerdictInv, Listed
    <3>3. CASE pass = "replace" /\ need = <<>> /\ pass' = "done" /\ uses' = uses
      BY <1>0, <1>1, <2>1, <3>3 DEF VerdictInv, Listed
    <3> QED BY <2>1, <3>1, <3>2, <3>3
  <2>5. OnceInv'
    <3>1. CASE pass = "tile-uniform"
      <4>1. Len(need') = 0
        BY <2>1, <3>1 DEF VerdictInv
      <4> QED BY <1>1, <2>1, <4>1 DEF OnceInv
    <3>2. CASE pass # "tile-uniform"
      BY <1>1, <2>1, <3>2 DEF OnceInv
    <3> QED BY <3>1, <3>2
  <2> QED BY <2>4, <2>5
<1>5. CASE UNCHANGED vars
  <2>1. UNCHANGED <<pass, uses, call, need, malloc, rejected, fault>>
    BY <1>5 DEF vars
  <2>2. VerdictInv'
    BY <1>0, <1>1, <2>1 DEF VerdictInv, Listed
  <2>3. OnceInv'
    BY <1>1, <2>1 DEF OnceInv
  <2> QED BY <2>2, <2>3
<1> QED BY <1>2, <1>3, <1>4, <1>5, JudgeKeepsVerdict, SelectKeepsVerdict, ReplaceKeepsVerdict
        DEF Next

\* The branches that are seen for a call lead to it, and of those that control it
\* only a block that branches to itself is not seen.
LEMMA SeenLead ==
  ASSUME TypeOK, NEW c \in Call
  PROVE  /\ Seen(c) \subseteq Parting(c)
         /\ Seen(c) \subseteq PartingHere(c)
         /\ PartingHere(c) \subseteq Seen(c) \cup SelfLoop(c)
<1> DEFINE control == [x \in Node |-> {y \in Block : Controls(y, x)}]
<1>1. place[c] \in Block /\ divergent \subseteq Block /\ Block \subseteq Node
  BY PlacementAssumption DEF TypeOK, Branches, Node
<1>2. \A b \in divergent : /\ DependsOn(place[c], b) => Controls(b, place[c])
                           /\ Controls(b, place[c]) =>
                                 DependsOn(place[c], b) \/ b \in SelfLoop(c)
  <2> SUFFICES ASSUME NEW b \in divergent
               PROVE  /\ DependsOn(place[c], b) => Controls(b, place[c])
                      /\ Controls(b, place[c]) =>
                            DependsOn(place[c], b) \/ (b = place[c] /\ b \in succ[b])
    BY DEF SelfLoop
  <2> QED BY <1>1, Loops
<1>3. control \in Graphs /\ control[place[c]] \subseteq Node
  BY <1>1 DEF Graphs
<1>4. \A b \in divergent : Controls(b, place[c]) => b \in control[place[c]]
  BY <1>1
<1>5. control[place[c]] \subseteq Reach(control[place[c]], control, {})
  <2> HIDE DEF control
  <2> QED BY <1>3, ReachLeast DEF Closed
<1>6. Leading(place[c]) = Reach(control[place[c]], control, {})
  BY DEF Leading
<1> HIDE DEF control
<1>7. Seen(c) \subseteq Parting(c)
  BY <1>2, <1>4, <1>5, <1>6 DEF Seen, Parting
<1>8. Seen(c) \subseteq PartingHere(c)
  BY <1>2 DEF Seen, PartingHere
<1>9. PartingHere(c) \subseteq Seen(c) \cup SelfLoop(c)
  BY <1>2 DEF Seen, PartingHere
<1> QED BY <1>7, <1>8, <1>9

\* No kernel is rejected and no new replaced without a divergent branch that leads to
\* the barrier or the new, or always; and of the divergent branches that control it
\* themselves, nothing is overlooked but a block that branches to itself.
THEOREM Verdicts == Spec => []Verdict
<1>1. TypeOK /\ Called /\ WalkInv /\ VerdictInv /\ OnceInv /\ [Next]_vars
        => (TypeOK /\ Called /\ WalkInv /\ VerdictInv /\ OnceInv)'
  BY NextTypeOK, NextCalled, NextWalkInv, NextVerdict
<1>2. ASSUME TypeOK, VerdictInv PROVE Verdict
  <2>0. /\ Barrier \subseteq Call /\ New \subseteq Call
        /\ \A c \in Call : /\ Seen(c) \subseteq Parting(c)
                           /\ PartingHere(c) \subseteq Seen(c) \cup SelfLoop(c)
    BY <1>2, SeenLead DEF Call
  <2>1. rejected => \E c \in Barrier : Parting(c) # {}
    BY <1>2, <2>0 DEF VerdictInv
  <2>2. pass # "tile-uniform" => \A c \in Barrier : PartingHere(c) \subseteq SelfLoop(c)
    BY <1>2, <2>0 DEF VerdictInv
  <2>3. ASSUME pass = "done"
        PROVE  /\ \A c \in malloc : always \/ Parting(c) # {}
               /\ \A c \in New \ malloc : ~always /\ PartingHere(c) \subseteq SelfLoop(c)
    <3>1. malloc \subseteq New /\ Len(need) = 0
      BY <1>2, <2>3 DEF TypeOK, VerdictInv
    <3>2. \A c \in New : c \in malloc <=> Wanted(c)
      BY <1>2, <2>3, <3>1 DEF VerdictInv, Listed
    <3> QED BY <2>0, <3>1, <3>2 DEF Wanted
  <2> QED BY <2>1, <2>2, <2>3 DEF Verdict
<1>3. TypeOK /\ VerdictInv => Verdict
  BY <1>2
<1> QED BY InitTypeOK, InitWalkInv, InitVerdict, <1>1, <1>3, PTL DEF Spec

\* No call is replaced after it is gone, if none is controlled by two divergent
\* branches.
THEOREM ReplacedAtMostOnce == Spec => []ReplacedOnce
<1>1. TypeOK /\ Called /\ WalkInv /\ VerdictInv /\ OnceInv /\ [Next]_vars
        => (TypeOK /\ Called /\ WalkInv /\ VerdictInv /\ OnceInv)'
  BY NextTypeOK, NextCalled, NextWalkInv, NextVerdict
<1>2. ASSUME TypeOK, OnceInv, \A c \in New : Cardinality(PartingHere(c)) <= 1
      PROVE  fault # "instruction"
  <2>1. ASSUME NEW c \in New PROVE Cardinality(Seen(c)) <= 1
    <3>1. IsFiniteSet(Block)
      BY FS_Interval, NBlockAssumption DEF Block
    <3>2. PartingHere(c) \subseteq Block
      BY <1>2 DEF PartingHere, TypeOK, Branches
    <3>3. Seen(c) \subseteq PartingHere(c)
      BY <1>2, SeenLead DEF Call
    <3>4. IsFiniteSet(PartingHere(c))
      BY <3>1, <3>2, FS_Subset
    <3>5. /\ Cardinality(Seen(c)) <= Cardinality(PartingHere(c))
          /\ IsFiniteSet(Seen(c))
      BY <3>3, <3>4, FS_Subset
    <3>6. Cardinality(Seen(c)) \in Nat /\ Cardinality(PartingHere(c)) \in Nat
      BY <3>4, <3>5, FS_CardinalityType
    <3>7. Cardinality(PartingHere(c)) <= 1
      BY <1>2
    <3> QED BY <3>5, <3>6, <3>7
  <2> QED BY <1>2, <2>1 DEF OnceInv, OneBranch
<1>3. TypeOK /\ OnceInv => ReplacedOnce
  BY <1>2 DEF ReplacedOnce
<1> QED BY InitTypeOK, InitWalkInv, InitVerdict, <1>1, <1>3, PTL DEF Spec
=============================================================================
