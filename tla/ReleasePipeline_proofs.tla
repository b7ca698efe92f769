----------------------- MODULE ReleasePipeline_proofs -----------------------
(***************************************************************************)
(* Proofs about the release pipeline for any suite, number of shards, pull *)
(* requests, targets, archives and release runs.                           *)
(***************************************************************************)
EXTENDS ReleasePipeline, FiniteSetTheorems, SequenceTheorems, TLAPS

-----------------------------------------------------------------------------
(* Numbers and functions.                                                   *)

\* A set of numbers that is not empty has a least element.
LEMMA Least ==
  ASSUME NEW T \in SUBSET Nat, T # {}
  PROVE  \E n \in T : \A m \in T : n <= m
<1>. DEFINE Initial == {0..n : n \in T}
<1>1. Initial \subseteq FiniteSubsetsOf(Nat) /\ Initial # {}
  <2>1. \A n \in T : 0..n \in SUBSET Nat /\ IsFiniteSet(0..n)
    BY FS_Interval
  <2>. QED  BY <2>1 DEF FiniteSubsetsOf
<1>2. PICK I \in Initial : \A J \in Initial : <<J, I>> \notin StrictSubsetOrdering(Nat)
  <2>. DEFINE R == StrictSubsetOrdering(Nat)  F == FiniteSubsetsOf(Nat)
  <2>1. IsWellFoundedOn(R, F)
    BY FS_StrictSubsetOrderingWellFounded
  <2>. HIDE DEF R, F, Initial
  <2>. QED  BY <1>1, <2>1, WFMin DEF F, R
<1>3. PICK n \in T : I = 0..n
  BY <1>2
<1>4. ASSUME NEW m \in T, m < n PROVE FALSE
  <2>1. 0..m \in SUBSET Nat /\ 0..n \in SUBSET Nat /\ 0..m \subseteq 0..n
    BY <1>4
  <2>2. n \in 0..n /\ n \notin 0..m
    BY <1>4
  <2>3. <<0..m, 0..n>> \in StrictSubsetOrdering(Nat)
    BY <2>1, <2>2 DEF StrictSubsetOrdering
  <2>. QED  BY <1>2, <1>3, <2>3
<1>. QED  BY <1>4

\* What holds at 0 and is handed on holds up to L.
LEMMA HandedOn ==
  ASSUME NEW L \in Nat, NEW Good \in SUBSET (0..L), 0 \in Good,
         \A n \in 1..L : n - 1 \in Good => n \in Good
  PROVE  Good = 0..L
<1>1. SUFFICES ASSUME (0..L) \ Good # {} PROVE FALSE
  OBVIOUS
<1>2. PICK n \in (0..L) \ Good : \A m \in (0..L) \ Good : n <= m
  <2>. DEFINE T == (0..L) \ Good
  <2>1. T \in SUBSET Nat /\ T # {}
    BY <1>1
  <2>. HIDE DEF T
  <2>. QED  BY <2>1, Least DEF T
<1>. QED  BY <1>2

\* The functions on 0..n that begin with start and go on with step.
Stepping(n, V, start, step) ==
  {f \in [0..n -> V] : f[0] = start /\ \A m \in 1..n : f[m] = step[<<m, f[m-1]>>]}

\* A function may be defined step by step.
LEMMA StepByStep ==
  ASSUME NEW L \in Nat, NEW V, NEW start \in V, NEW step \in [(1..L) \X V -> V]
  PROVE  Stepping(L, V, start, step) # {}
<1>. DEFINE Upto(n) == Stepping(n, V, start, step)
            Good == {n \in 0..L : Upto(n) # {}}
<1>1. 0 \in Good
  <2>1. [n \in 0..0 |-> start] \in Upto(0)
    BY DEF Stepping
  <2>. QED  BY <2>1
<1>2. ASSUME NEW n \in 1..L, n - 1 \in Good PROVE n \in Good
  <2>1. PICK f \in [0..n-1 -> V] : f[0] = start /\ \A m \in 1..n-1 : f[m] = step[<<m, f[m-1]>>]
    BY <1>2 DEF Stepping
  <2>. DEFINE g == [m \in 0..n |-> IF m = n THEN step[<<n, f[n-1]>>] ELSE f[m]]
  <2>2. n \in Nat /\ n - 1 \in 0..n-1 /\ n # 0 /\ step[<<n, f[n-1]>>] \in V
    <3>1. n - 1 \in 0..n-1
      OBVIOUS
    <3>2. f[n-1] \in V
      BY <2>1, <3>1
    <3>3. <<n, f[n-1]>> \in (1..L) \X V
      BY <3>2
    <3>. HIDE DEF Good, Upto
    <3>. QED  BY <3>1, <3>3
  <2>3. g \in [0..n -> V] /\ g[0] = start /\ g[n] = step[<<n, g[n-1]>>]
    <3>0. \A m \in 0..n-1 : f[m] \in V
      BY <2>1
    <3>1. \A m \in 0..n : m = n \/ (m \in 0..n-1 /\ f[m] \in V)
      BY <2>2, <3>0
    <3>2. \A m \in 0..n : g[m] \in V
      BY <2>2, <3>1
    <3>3. n \in 0..n /\ 0 \in 0..n /\ n - 1 \in 0..n /\ n - 1 # n
      BY <2>2
    <3>4. g[n] = step[<<n, f[n-1]>>] /\ g[n-1] = f[n-1] /\ g[0] = f[0]
      BY <2>2, <3>3
    <3>. QED  BY <2>1, <3>2, <3>4
  <2>4. \A m \in 1..n-1 : g[m] = step[<<m, g[m-1]>>]
    BY <2>1, <2>2
  <2>5. \A m \in 1..n : g[m] = step[<<m, g[m-1]>>]
    <3>. HIDE DEF g
    <3>. QED  BY <2>2, <2>3, <2>4
  <2>6. g \in Upto(n)
    <3>. HIDE DEF g
    <3>. QED  BY <2>3, <2>5 DEF Stepping
  <2>. HIDE DEF Upto
  <2>. QED  BY <2>6
<1>3. Upto(L) # {}
  <2>1. Good = 0..L
    <3>. HIDE DEF Good
    <3>. QED  BY <1>1, <1>2, HandedOn DEF Good
  <2>. QED  BY <2>1
<1>. QED  BY <1>3

-----------------------------------------------------------------------------
(* The plan: no shard is left without a module.                             *)

\* The instance counts as the library does.
LEMMA SameCount ==
  ASSUME NEW S
  PROVE  Shards!Cardinality(S) = Cardinality(S)
BY DEF Shards!Cardinality, Cardinality

\* Of modules with costs one is scheduled first.
LEMMA OneIsFirst ==
  ASSUME NEW R, IsFiniteSet(R), R # {}, R \subseteq Nat, NEW cost, \A m \in R : cost[m] \in Nat
  PROVE  \E m \in R : \A n \in R \ {m} : cost[m] > cost[n] \/ (cost[m] = cost[n] /\ m < n)
<1>. DEFINE Before(m, n) == cost[m] > cost[n] \/ (cost[m] = cost[n] /\ m < n)
            Earlier(m) == {n \in R : Before(n, m)}
            T == {Cardinality(Earlier(m)) : m \in R}
<1>1. /\ \A m \in R : ~Before(m, m)
      /\ \A m, n, k \in R : Before(m, n) /\ Before(n, k) => Before(m, k)
      /\ \A m, n \in R : m # n => Before(m, n) \/ Before(n, m)
  OBVIOUS
<1>. HIDE DEF Before
<1>2. \A m \in R : IsFiniteSet(Earlier(m)) /\ Cardinality(Earlier(m)) \in Nat
  <2>. SUFFICES ASSUME NEW m \in R
                PROVE  IsFiniteSet(Earlier(m)) /\ Cardinality(Earlier(m)) \in Nat
    OBVIOUS
  <2>1. Earlier(m) \in SUBSET R
    OBVIOUS
  <2>. HIDE DEF Earlier
  <2>. QED  BY <2>1, FS_Subset, FS_CardinalityType
<1>3. PICK m \in R : \A n \in R : Cardinality(Earlier(m)) <= Cardinality(Earlier(n))
  <2>1. T \in SUBSET Nat /\ T # {}
    BY <1>2
  <2>2. PICK k \in T : \A l \in T : k <= l
    <3>. HIDE DEF T
    <3>. QED  BY <2>1, Least
  <2>. HIDE DEF Earlier
  <2>. QED  BY <2>2
<1>4. ASSUME NEW n \in R, Before(n, m) PROVE FALSE
  <2>1. Earlier(n) \in SUBSET Earlier(m) /\ Earlier(n) # Earlier(m)
    BY <1>1, <1>4
  <2>. HIDE DEF Earlier
  <2>2. Cardinality(Earlier(n)) <= Cardinality(Earlier(m)) /\ Cardinality(Earlier(n)) # Cardinality(Earlier(m))
    BY <1>2, <2>1, FS_Subset
  <2>. QED  BY <1>2, <1>3, <2>2
<1>5. \A n \in R \ {m} : Before(m, n)
  BY <1>1, <1>4
<1>. QED  BY <1>5 DEF Before

\* No shard has less load than the lightest.
LEMMA LightestIsLeast ==
  ASSUME NEW count \in Nat \ {0}, NEW loads \in [0..(count - 1) -> Nat]
  PROVE  /\ Shards!Lightest(loads) \in 0..(count - 1)
         /\ \A j \in 0..(count - 1) : loads[Shards!Lightest(loads)] <= loads[j]
<1>. DEFINE D == 0..(count - 1)
            T == {loads[i] : i \in D}
<1>1. T \in SUBSET Nat /\ T # {}
  <2>1. 0 \in D
    OBVIOUS
  <2>. QED  BY <2>1
<1>2. PICK k \in T : \A l \in T : k <= l
  <2>. HIDE DEF T
  <2>. QED  BY <1>1, Least
<1>. DEFINE I == {i \in D : loads[i] = k}
<1>3. I \in SUBSET Nat /\ I # {}
  BY <1>2
<1>4. PICK i \in I : \A j \in I : i <= j
  <2>. HIDE DEF I
  <2>. QED  BY <1>3, Least
<1>5. i \in D /\ \A j \in D : loads[i] < loads[j] \/ (loads[i] = loads[j] /\ i <= j)
  <2>1. i \in D /\ loads[i] = k /\ k \in Nat
    BY <1>1, <1>2, <1>4
  <2>2. ASSUME NEW j \in D PROVE loads[i] < loads[j] \/ (loads[i] = loads[j] /\ i <= j)
    <3>1. loads[j] \in T /\ loads[j] \in Nat
      OBVIOUS
    <3>2. k <= loads[j]
      BY <1>2, <3>1
    <3>3. loads[j] = k => i <= j
      BY <1>4
    <3>. QED  BY <2>1, <3>1, <3>2, <3>3
  <2>. QED  BY <2>1, <2>2
<1>6. DOMAIN loads = D
  OBVIOUS
<1>. DEFINE c == Shards!Lightest(loads)
<1>7. c \in D /\ \A j \in D : loads[c] < loads[j] \/ (loads[c] = loads[j] /\ c <= j)
  BY <1>5, <1>6 DEF Shards!Lightest
<1>. HIDE DEF c
<1>. QED  BY <1>7 DEF c

\* What has been placed: shards without load have no module; a module more was
\* a shard more, until all shards had one.
Fills(done, modules, count, k) ==
  /\ done = [loads |-> done.loads, shard |-> done.shard]
  /\ done.loads \in [0..(count - 1) -> Nat]
  /\ DOMAIN done.shard \in SUBSET modules /\ Cardinality(DOMAIN done.shard) = k
  /\ done.shard \in [DOMAIN done.shard -> 0..(count - 1)]
  /\ \A i \in 0..(count - 1) : done.loads[i] = 0 <=> \A m \in DOMAIN done.shard : done.shard[m] # i
  /\ LET used == {done.shard[m] : m \in DOMAIN done.shard}
     IN used = 0..(count - 1) \/ Cardinality(used) = k

LEMMA PlaceFills ==
  ASSUME NEW nodes, NEW weights, NEW count \in Nat \ {0}, NEW k \in Nat, NEW done,
         LET modules == Shards!ModulesOf(nodes)
         IN /\ IsFiniteSet(modules) /\ modules \subseteq Nat /\ k < Cardinality(modules)
            /\ \A m \in modules : Shards!Cost(m, nodes, weights) \in Nat \ {0}
            /\ Fills(done, modules, count, k)
  PROVE  Fills(Shards!Place(done, nodes, weights), Shards!ModulesOf(nodes), count, k + 1)
<1>. DEFINE modules == Shards!ModulesOf(nodes)
            placed == DOMAIN done.shard
            R == modules \ placed
            cost == [m \in modules |-> Shards!Cost(m, nodes, weights)]
            m == Shards!Longest(R, nodes, weights)
            i == Shards!Lightest(done.loads)
            loads == [done.loads EXCEPT ![i] = @ + Shards!Cost(m, nodes, weights)]
            shard == [n \in placed \cup {m} |-> IF n = m THEN i ELSE done.shard[n]]
            used == {done.shard[n] : n \in placed}
            D == 0..(count - 1)
<1>1. /\ IsFiniteSet(modules) /\ modules \subseteq Nat /\ k < Cardinality(modules)
      /\ \A n \in modules : Shards!Cost(n, nodes, weights) \in Nat \ {0}
      /\ Fills(done, modules, count, k)
  OBVIOUS
<1>2. placed \in SUBSET modules /\ Cardinality(placed) = k /\ IsFiniteSet(placed)
  <2>1. placed \in SUBSET modules /\ Cardinality(placed) = k
    BY <1>1 DEF Fills
  <2>. HIDE DEF modules, placed
  <2>. QED  BY <1>1, <2>1, FS_Subset
<1>3. R # {} /\ R \subseteq Nat /\ IsFiniteSet(R)
  <2>1. R \in SUBSET modules /\ R \subseteq Nat
    BY <1>1
  <2>2. R = {} => placed = modules
    BY <1>2
  <2>. HIDE DEF modules, placed
  <2>3. R # {}
    BY <1>1, <1>2, <2>2
  <2>. HIDE DEF R
  <2>. QED  BY <1>1, <2>1, <2>3, FS_Subset
<1>4. m \in R
  <2>1. \A n \in R : cost[n] \in Nat /\ cost[n] = Shards!Cost(n, nodes, weights)
    BY <1>1
  <2>2. \E n \in R : \A l \in R \ {n} : cost[n] > cost[l] \/ (cost[n] = cost[l] /\ n < l)
    <3>. HIDE DEF R, cost
    <3>. QED  BY <1>3, <2>1, OneIsFirst
  <2>3. \E n \in R : \A l \in R \ {n} : Shards!Before(n, l, nodes, weights)
    <3>. HIDE DEF R, cost
    <3>. QED  BY <2>1, <2>2 DEF Shards!Before
  <2>. HIDE DEF R
  <2>. QED  BY <2>3 DEF Shards!Longest
<1>5. i \in D /\ \A j \in D : done.loads[i] <= done.loads[j]
  BY <1>1, LightestIsLeast DEF Fills
<1>6. Shards!Place(done, nodes, weights) = [loads |-> loads, shard |-> shard]
  BY DEF Shards!Place
<1>7. m \in modules /\ m \notin placed /\ Shards!Cost(m, nodes, weights) \in Nat \ {0}
  BY <1>1, <1>4
<1>. HIDE DEF m, i, modules
<1>8. /\ done.loads \in [D -> Nat] /\ \A n \in placed : done.shard[n] \in D
      /\ \A j \in D : done.loads[j] = 0 <=> \A n \in placed : done.shard[n] # j
      /\ used = D \/ Cardinality(used) = k
  BY <1>1 DEF Fills
<1>9. /\ loads \in [D -> Nat] /\ loads[i] # 0
      /\ \A j \in D : j # i => loads[j] = done.loads[j]
  BY <1>5, <1>7, <1>8
<1>10. /\ DOMAIN shard = placed \cup {m} /\ shard[m] = i
       /\ \A n \in placed : shard[n] = done.shard[n]
  BY <1>7
<1>. HIDE DEF shard, loads, placed
<1>11. /\ DOMAIN shard \in SUBSET modules /\ Cardinality(DOMAIN shard) = k + 1
  BY <1>2, <1>7, <1>10, FS_AddElement
<1>12. shard \in [DOMAIN shard -> D]
  <2>1. shard = [n \in placed \cup {m} |-> shard[n]]
    BY DEF shard
  <2>2. \A n \in placed \cup {m} : shard[n] \in D
    BY <1>5, <1>8, <1>10
  <2>. QED  BY <1>10, <2>1, <2>2
<1>13. \A j \in D : loads[j] = 0 <=> \A n \in DOMAIN shard : shard[n] # j
  <2>. SUFFICES ASSUME NEW j \in D
                PROVE  loads[j] = 0 <=> \A n \in DOMAIN shard : shard[n] # j
    OBVIOUS
  <2>1. CASE j = i
    BY <1>9, <1>10, <2>1
  <2>2. CASE j # i
    <3>1. loads[j] = 0 <=> \A n \in placed : done.shard[n] # j
      BY <1>8, <1>9, <2>2
    <3>2. (\A n \in placed : done.shard[n] # j) <=> (\A n \in placed : shard[n] # j)
      BY <1>10
    <3>3. (\A n \in placed : shard[n] # j) <=> (\A n \in DOMAIN shard : shard[n] # j)
      BY <1>10, <2>2
    <3>. QED  BY <3>1, <3>2, <3>3
  <2>. QED  BY <2>1, <2>2
<1>14. {shard[n] : n \in DOMAIN shard} = used \cup {i}
  <2>1. used \subseteq {shard[n] : n \in DOMAIN shard} /\ i \in {shard[n] : n \in DOMAIN shard}
    BY <1>10
  <2>2. \A n \in DOMAIN shard : shard[n] \in used \cup {i}
    BY <1>10
  <2>. QED  BY <2>1, <2>2
<1>15. used \cup {i} = D \/ Cardinality(used \cup {i}) = k + 1
  <2>1. used \in SUBSET D /\ IsFiniteSet(D)
    <3>1. IsFiniteSet(D)
      BY FS_Interval
    <3>. QED  BY <1>8, <3>1
  <2>2. CASE used = D
    BY <1>5, <2>2
  <2>3. CASE used # D
    <3>1. PICK j \in D : j \notin used
      BY <2>1, <2>3
    <3>2. done.loads[j] = 0
      BY <1>8, <3>1
    <3>3. done.loads[i] = 0
      BY <1>5, <1>8, <3>2
    <3>4. i \notin used
      BY <1>5, <1>8, <3>3
    <3>. HIDE DEF used, D
    <3>5. IsFiniteSet(used) /\ Cardinality(used) = k
      BY <1>8, <2>1, <2>3, FS_Subset
    <3>. QED  BY <3>4, <3>5, FS_AddElement
  <2>. QED  BY <2>2, <2>3
<1>. DEFINE after == [loads |-> loads, shard |-> shard]
<1>16. after.loads = loads /\ after.shard = shard
  OBVIOUS
<1>17. after = [loads |-> after.loads, shard |-> after.shard]
  OBVIOUS
<1>. HIDE DEF after, used
<1>18. Fills(after, modules, count, k + 1)
  <2>1. LET all == {shard[n] : n \in DOMAIN shard} IN all = D \/ Cardinality(all) = k + 1
    BY <1>14, <1>15
  <2>2. after.loads \in [D -> Nat] /\ after.shard \in [DOMAIN after.shard -> D]
    BY <1>9, <1>12, <1>16
  <2>. QED  BY <1>11, <1>13, <1>16, <1>17, <2>1, <2>2 DEF Fills
<1>. QED  BY <1>6, <1>18 DEF after, modules

Suitable(nodes) == nodes \in Seq([module : Nat, case : Nat])
Timed(weights) == \A m \in DOMAIN weights : weights[m] \in Nat

\* A collection has finitely many modules, and a plan that is not refused gives
\* each of them a cost.
LEMMA ModulesCost ==
  ASSUME NEW nodes, Suitable(nodes), NEW weights, Timed(weights), NEW count,
         ~Shards!PlanRefused(nodes, count, weights)
  PROVE  LET modules == Shards!ModulesOf(nodes)
         IN /\ IsFiniteSet(modules) /\ modules \subseteq Nat
            /\ \A m \in modules : Shards!Cost(m, nodes, weights) \in Nat \ {0}
<1>. DEFINE modules == Shards!ModulesOf(nodes)
            D == 1..Len(nodes)
            f == [n \in D |-> nodes[n].module]
<1>1. Len(nodes) \in Nat /\ DOMAIN nodes = D /\ \A n \in D : nodes[n].module \in Nat
  <2>1. nodes \in Seq([module : Nat, case : Nat])
    BY DEF Suitable
  <2>2. \A n \in 1..Len(nodes) : nodes[n] \in [module : Nat, case : Nat]
    BY <2>1, ElementOfSeq
  <2>. QED  BY <2>1, <2>2
<1>2. IsFiniteSet(D)
  BY <1>1, FS_Interval
<1>3. modules = {nodes[n].module : n \in D}
  BY <1>1 DEF Shards!ModulesOf, Shards!ToSet
<1>4. f \in Surjection(D, modules)
  BY <1>3 DEF Surjection
<1>5. IsFiniteSet(modules)
  <2>. HIDE DEF f, D, modules
  <2>. QED  BY <1>2, <1>4, FS_Surjection
<1>6. modules \subseteq Nat
  BY <1>1, <1>3
<1>7. ASSUME NEW m \in modules PROVE Shards!Cost(m, nodes, weights) \in Nat \ {0}
  <2>. DEFINE cases == {n \in DOMAIN nodes : nodes[n].module = m}
  <2>1. Cardinality(cases) \in Nat
    <3>1. cases \in SUBSET D
      BY <1>1
    <3>. HIDE DEF cases, D
    <3>. QED  BY <1>2, <3>1, FS_Subset, FS_CardinalityType
  <2>2. Shards!Cost(m, nodes, weights) = IF m \in DOMAIN weights THEN weights[m] ELSE 22 * Cardinality(cases)
    BY SameCount DEF Shards!Cost
  <2>. HIDE DEF cases
  <2>3. Shards!Cost(m, nodes, weights) \in Nat
    BY <2>1, <2>2 DEF Timed
  <2>4. Shards!Cost(m, nodes, weights) # 0
    BY DEF Shards!PlanRefused
  <2>. QED  BY <2>3, <2>4
<1>. QED  BY <1>5, <1>6, <1>7

\* The assignment of a plan that is not refused: placed module by module.
LEMMA AssignmentFills ==
  ASSUME NEW nodes, Suitable(nodes), NEW weights, Timed(weights), NEW count \in Nat \ {0},
         ~Shards!PlanRefused(nodes, count, weights)
  PROVE  LET modules == Shards!ModulesOf(nodes)
         IN \E done : /\ Shards!Assignment(nodes, count, weights) = done.shard
                      /\ Fills(done, modules, count, Cardinality(modules))
<1>. DEFINE modules == Shards!ModulesOf(nodes)
            L == Cardinality(modules)
            IsPlaced(f) == f = [k \in 0..L |-> IF k = 0 THEN Shards!Empty(count)
                                               ELSE Shards!Place(f[k - 1], nodes, weights)]
            placed == CHOOSE f : IsPlaced(f)
            V == {v \in [loads : [0..(count - 1) -> Nat],
                         shard : UNION {[T -> 0..(count - 1)] : T \in SUBSET modules}] :
                    \E k \in 0..L : Fills(v, modules, count, k)}
            step == [x \in (1..L) \X V |->
                       IF Fills(x[2], modules, count, x[1] - 1) THEN Shards!Place(x[2], nodes, weights)
                       ELSE x[2]]
<1>1. /\ IsFiniteSet(modules) /\ modules \subseteq Nat
      /\ \A m \in modules : Shards!Cost(m, nodes, weights) \in Nat \ {0}
  BY ModulesCost
<1>2. Shards!Assignment(nodes, count, weights) = placed[L].shard
  BY SameCount DEF Shards!Assignment
<1>. HIDE DEF modules, placed
<1>3. L \in Nat
  BY <1>1, FS_CardinalityType
<1>4. ASSUME NEW v, NEW k \in 0..L, Fills(v, modules, count, k) PROVE v \in V
  <2>1. /\ v = [loads |-> v.loads, shard |-> v.shard]
        /\ v.loads \in [0..(count - 1) -> Nat]
        /\ DOMAIN v.shard \in SUBSET modules
        /\ v.shard \in [DOMAIN v.shard -> 0..(count - 1)]
    BY <1>4 DEF Fills
  <2>2. v.shard \in UNION {[T -> 0..(count - 1)] : T \in SUBSET modules}
    BY <2>1
  <2>3. v \in [loads : [0..(count - 1) -> Nat],
               shard : UNION {[T -> 0..(count - 1)] : T \in SUBSET modules}]
    BY <2>1, <2>2
  <2>. QED  BY <1>4, <2>3
<1>5. ASSUME NEW v, NEW k \in 1..L, Fills(v, modules, count, k - 1)
      PROVE  Fills(Shards!Place(v, nodes, weights), modules, count, k)
  <2>1. k - 1 \in Nat /\ k - 1 < Cardinality(modules) /\ (k - 1) + 1 = k
    BY <1>3
  <2>. HIDE DEF L
  <2>. QED  BY <1>1, <1>5, <2>1, PlaceFills DEF modules
<1>6. Fills(Shards!Empty(count), modules, count, 0)
  <2>. DEFINE start == Shards!Empty(count)
  <2>1. start = [loads |-> start.loads, shard |-> << >>] /\ start.shard = << >>
        /\ start.loads = [i \in 0..(count - 1) |-> 0]
    BY DEF Shards!Empty
  <2>2. DOMAIN start.shard = {} /\ Cardinality({}) = 0 /\ start.shard \in [{} -> 0..(count - 1)]
    BY <2>1, FS_EmptySet
  <2>. HIDE DEF start
  <2>3. {start.shard[m] : m \in DOMAIN start.shard} = {}
    BY <2>2
  <2>4. start.loads \in [0..(count - 1) -> Nat] /\ \A i \in 0..(count - 1) : start.loads[i] = 0
    BY <2>1
  <2>5. DOMAIN start.shard \in SUBSET modules /\ Cardinality(DOMAIN start.shard) = 0
        /\ start.shard \in [DOMAIN start.shard -> 0..(count - 1)]
    BY <2>2
  <2>6. start = [loads |-> start.loads, shard |-> start.shard]
    BY <2>1
  <2>7. \A i \in 0..(count - 1) : start.loads[i] = 0 <=> \A m \in DOMAIN start.shard : start.shard[m] # i
    BY <2>2, <2>4
  <2>8. Fills(start, modules, count, 0)
    BY <2>2, <2>3, <2>4, <2>5, <2>6, <2>7 DEF Fills
  <2>. QED  BY <2>8 DEF start
<1>7. step \in [(1..L) \X V -> V]
  <2>. SUFFICES ASSUME NEW k \in 1..L, NEW v \in V
                PROVE  (IF Fills(v, modules, count, k - 1) THEN Shards!Place(v, nodes, weights) ELSE v) \in V
    OBVIOUS
  <2>1. k \in 0..L
    BY <1>3
  <2>. HIDE DEF V, L
  <2>. QED  BY <1>4, <1>5, <2>1
<1>8. PICK g \in [0..L -> V] : g[0] = Shards!Empty(count) /\ \A k \in 1..L : g[k] = step[<<k, g[k-1]>>]
  <2>1. Shards!Empty(count) \in V
    BY <1>3, <1>4, <1>6
  <2>. HIDE DEF step, V, L
  <2>2. Stepping(L, V, Shards!Empty(count), step) # {}
    BY <1>3, <1>7, <2>1, StepByStep
  <2>. QED  BY <2>2 DEF Stepping
<1>. DEFINE Right(f) == {k \in 0..L : Fills(f[k], modules, count, k)}
<1>9. ASSUME NEW f, f[0] = Shards!Empty(count),
             \A k \in 1..L : k - 1 \in Right(f) => f[k] = Shards!Place(f[k - 1], nodes, weights)
      PROVE  Right(f) = 0..L
  <2>1. Right(f) \in SUBSET (0..L)
    OBVIOUS
  <2>2. 0 \in Right(f)
    BY <1>3, <1>6, <1>9
  <2>3. ASSUME NEW k \in 1..L, k - 1 \in Right(f) PROVE k \in Right(f)
    BY <1>3, <1>5, <1>9, <2>3
  <2>. HIDE DEF Right, L
  <2>. QED  BY <1>3, <2>1, <2>2, <2>3, HandedOn
<1>10. ASSUME NEW k \in 1..L, k - 1 \in Right(g) PROVE g[k] = Shards!Place(g[k - 1], nodes, weights)
  <2>1. g[k-1] \in V /\ Fills(g[k-1], modules, count, k - 1)
    BY <1>3, <1>8, <1>10
  <2>2. <<k, g[k-1]>> \in (1..L) \X V
    BY <2>1
  <2>. HIDE DEF V, L
  <2>. QED  BY <1>8, <2>1, <2>2
<1>. HIDE DEF step, V
<1>11. Right(g) = 0..L
  <2>. HIDE DEF Right, L
  <2>. QED  BY <1>8, <1>9, <1>10
<1>12. IsPlaced(g)
  <2>1. \A k \in 0..L : g[k] = IF k = 0 THEN Shards!Empty(count) ELSE Shards!Place(g[k - 1], nodes, weights)
    BY <1>3, <1>8, <1>10, <1>11
  <2>. HIDE DEF L
  <2>. QED  BY <1>8, <2>1
<1>13. IsPlaced(placed)
  <2>. HIDE DEF IsPlaced
  <2>. QED  BY <1>12 DEF placed
<1>14. /\ placed[0] = Shards!Empty(count)
       /\ \A k \in 1..L : placed[k] = Shards!Place(placed[k - 1], nodes, weights)
  <2>1. 0 \in 0..L /\ \A k \in 1..L : k \in 0..L /\ k # 0
    BY <1>3
  <2>. HIDE DEF L
  <2>. QED  BY <1>13, <2>1
<1>. HIDE DEF IsPlaced
<1>15. Right(placed) = 0..L
  <2>. HIDE DEF Right, L
  <2>. QED  BY <1>9, <1>14
<1>16. Fills(placed[L], modules, count, L)
  <2>1. L \in 0..L
    BY <1>3
  <2>. HIDE DEF L
  <2>. QED  BY <1>15, <2>1
<1>. QED  BY <1>2, <1>16 DEF modules

\* A plan that is not refused is one its shards accept.
LEMMA PlanIsValid ==
  ASSUME NEW nodes, Suitable(nodes), NEW weights, Timed(weights), NEW count \in Nat \ {0}, NEW source,
         ~Shards!PlanRefused(nodes, count, weights)
  PROVE  Shards!ValidPlan(Shards!MakePlan(nodes, count, weights, source))
<1>. DEFINE modules == Shards!ModulesOf(nodes)
            plan == Shards!MakePlan(nodes, count, weights, source)
            L == Cardinality(modules)
            D == 0..(count - 1)
<1>1. IsFiniteSet(modules) /\ L >= count /\ L \in Nat /\ Shards!UniqueNodes(nodes)
  <2>1. IsFiniteSet(modules)
    BY ModulesCost
  <2>2. ~(L < count) /\ Shards!UniqueNodes(nodes)
    BY SameCount DEF Shards!PlanRefused
  <2>. HIDE DEF modules
  <2>. QED  BY <2>1, <2>2, FS_CardinalityType
<1>2. PICK done : Shards!Assignment(nodes, count, weights) = done.shard /\ Fills(done, modules, count, L)
  BY AssignmentFills
<1>3. plan.shard = done.shard /\ plan.count = count /\ plan.collected = nodes
  BY <1>2 DEF Shards!MakePlan
<1>. HIDE DEF modules, plan
<1>4. DOMAIN done.shard = modules
  BY <1>1, <1>2, FS_Subset DEF Fills
<1>. DEFINE used == {done.shard[m] : m \in DOMAIN done.shard}
<1>5. used \in SUBSET D /\ (used = D \/ Cardinality(used) = L)
  BY <1>2 DEF Fills
<1>6. used = D
  <2>1. IsFiniteSet(D) /\ Cardinality(D) = count
    BY FS_Interval
  <2>. HIDE DEF used, D
  <2>. QED  BY <1>1, <1>5, <2>1, FS_Subset
<1>7. Shards!ValidPlan(plan)
  BY <1>1, <1>3, <1>4, <1>6 DEF Shards!ValidPlan, modules
<1>. QED  BY <1>7 DEF plan

-----------------------------------------------------------------------------
(* CI: what a certificate stands for. *)

\* The fields of a run in progress and of the record of one.
IsRun(c) ==
  c = [stage |-> c.stage, pr |-> c.pr, head |-> c.head, tree |-> c.tree, plan |-> c.plan,
       manifests |-> c.manifests, reports |-> c.reports, passes |-> c.passes, ok |-> c.ok]

IsRecord(r) == r = [pr |-> r.pr, head |-> r.head, tree |-> r.tree, record |-> r.record]

\* A planned case has passed once if the shard it is assigned to says so, and
\* not at all otherwise.
Said(c, n) ==
  /\ c.plan.shard[n.module] \in DOMAIN c.manifests
  /\ n \in c.manifests[c.plan.shard[n.module]].passed

Counted(c) ==
  /\ c.plan.count = ShardCount
  /\ DOMAIN c.passes = ToSet(c.plan.collected)
  /\ \A n \in DOMAIN c.passes : c.passes[n] = IF Said(c, n) THEN 1 ELSE 0

CiInv ==
  /\ ci = Idle \/ (IsRun(ci) /\ ci.stage \in {"plan", "shards", "others"})
  /\ ci.stage = "plan" => DOMAIN ci.manifests = {}
  /\ ci.stage = "shards" => Counted(ci)
  /\ ci.stage = "others" /\ ci.ok => Proves(ci, TRUE)
  /\ \A r \in runs : IsRecord(r)
  /\ CertifiedIsProven

LEMMA IdleStage == Idle.stage = "idle"
BY DEF Idle

\* What a shard adds to the count.
LEMMA ShardCounted ==
  ASSUME CiInv, NEW i, NEW nodes, NEW outcome, ExecuteShard(i, nodes, outcome)
  PROVE  IsRun(ci)' /\ ci'.stage = "shards" /\ Counted(ci)'
<1>. DEFINE plan == ci.plan
            assigned == Shards!AssignedNodes(plan, i)
            manifest == Shards!Manifest(plan, i, ci.tree, Runtime, outcome)
            manifests == With(ci.manifests, i, manifest)
            passes == [n \in DOMAIN ci.passes |->
                         IF n \in assigned /\ outcome[n] = "passed" THEN ci.passes[n] + 1 ELSE ci.passes[n]]
<1>1. IsRun(ci) /\ Counted(ci) /\ i \notin DOMAIN ci.manifests
  BY IdleStage DEF CiInv, ExecuteShard
<1>2. /\ IsRun(ci)' /\ ci'.stage = "shards"
      /\ ci'.plan = plan /\ ci'.manifests = manifests /\ ci'.passes = passes
  BY <1>1 DEF ExecuteShard, IsRun
<1>3. manifest.passed = {n \in assigned : outcome[n] = "passed"}
  BY DEF Shards!Manifest, Shards!Passed
<1>4. assigned = {n \in ToSet(plan.collected) : plan.shard[n.module] = i}
  BY DEF Shards!AssignedNodes, Shards!ToSet, ToSet
<1>5. /\ DOMAIN manifests = DOMAIN ci.manifests \cup {i} /\ manifests[i] = manifest
      /\ \A j \in DOMAIN ci.manifests : manifests[j] = ci.manifests[j]
  BY <1>1 DEF With
<1>6. plan.count = ShardCount /\ DOMAIN passes = ToSet(plan.collected) /\ DOMAIN ci.passes = ToSet(plan.collected)
  BY <1>1 DEF Counted
<1>7. ASSUME NEW n \in ToSet(plan.collected)
      PROVE  passes[n] = IF plan.shard[n.module] \in DOMAIN manifests /\ n \in manifests[plan.shard[n.module]].passed
                         THEN 1 ELSE 0
  <2>1. ci.passes[n] = IF Said(ci, n) THEN 1 ELSE 0
    BY <1>1, <1>6 DEF Counted
  <2>2. CASE plan.shard[n.module] = i
    <3>1. ci.passes[n] = 0
      BY <1>1, <2>1, <2>2 DEF Said
    <3>. HIDE DEF manifest, assigned, manifests
    <3>2. passes[n] = IF n \in assigned /\ outcome[n] = "passed" THEN ci.passes[n] + 1 ELSE ci.passes[n]
      BY <1>6
    <3>. QED  BY <1>3, <1>4, <1>5, <2>2, <3>1, <3>2
  <2>3. CASE plan.shard[n.module] # i
    <3>. HIDE DEF manifest, assigned, manifests
    <3>1. n \notin assigned
      BY <1>4, <2>3
    <3>2. passes[n] = ci.passes[n]
      BY <1>6, <3>1
    <3>. QED  BY <1>5, <2>1, <2>3, <3>2 DEF Said
  <2>. QED  BY <2>2, <2>3
<1>. HIDE DEF manifest, assigned, manifests, passes, plan
<1>. QED  BY <1>2, <1>6, <1>7 DEF Counted, Said

\* The audit accepts the shards only if every planned case has passed.
LEMMA AuditProves ==
  ASSUME Counted(ci), Shards!ValidShards(ci.plan, ci.manifests, ci.reports, ci.tree, Runtime)
  PROVE  Proves(ci, TRUE)
<1>. DEFINE plan == ci.plan
<1>1. /\ Shards!ValidPlan(plan) /\ DOMAIN ci.manifests = 0..(plan.count - 1)
      /\ \A i \in DOMAIN ci.manifests : ci.manifests[i].passed = Shards!AssignedNodes(plan, i)
  BY DEF Shards!ValidShards, Shards!ValidShard
<1>2. ToSet(plan.collected) # {}
  <2>. SUFFICES ASSUME ToSet(plan.collected) = {}
                PROVE  FALSE
    OBVIOUS
  <2>1. {plan.shard[m] : m \in DOMAIN plan.shard} = {}
    BY <1>1 DEF Shards!ValidPlan, Shards!ModulesOf, Shards!ToSet, ToSet
  <2>2. 0 \in {plan.shard[m] : m \in DOMAIN plan.shard}
    <3>1. ShardCount \in Nat \ {0}
      BY PipelineAssumption
    <3>2. plan.count = ShardCount /\ {plan.shard[m] : m \in DOMAIN plan.shard} = 0..(plan.count - 1)
      BY <1>1 DEF Shards!ValidPlan, Counted
    <3>3. 0 \in 0..(ShardCount - 1)
      BY <3>1
    <3>. HIDE DEF plan
    <3>. QED  BY <3>2, <3>3
  <2>. QED  BY <2>1, <2>2
<1>3. ASSUME NEW n \in ToSet(plan.collected)
      PROVE  Said(ci, n)
  <2>1. n.module \in DOMAIN plan.shard
    BY <1>1 DEF Shards!ValidPlan, Shards!ModulesOf, Shards!ToSet, ToSet
  <2>2. plan.shard[n.module] \in DOMAIN ci.manifests
    BY <1>1, <2>1 DEF Shards!ValidPlan
  <2>3. n \in Shards!AssignedNodes(plan, plan.shard[n.module])
    BY DEF Shards!AssignedNodes, Shards!ToSet, ToSet
  <2>. QED  BY <1>1, <2>2, <2>3 DEF Said
<1>. QED  BY <1>2, <1>3 DEF Counted, Proves

\* A step of CI, or of anyone else, keeps what certificates stand for.
LEMMA CiKept ==
  ASSUME CiInv, Next
  PROVE  CiInv' /\ proven \subseteq proven'
<1>0. ci.stage = "idle" => ci = Idle
  BY DEF CiInv
<1>1. ASSUME NEW p \in Prs, StartCi(p)
      PROVE  CiInv' /\ proven \subseteq proven'
  <2>1. IsRun(ci)' /\ ci'.stage = "plan" /\ DOMAIN ci'.manifests = {}
    BY <1>1 DEF StartCi, NewRun, IsRun
  <2>. QED  BY <1>1, <2>1 DEF StartCi, CiInv, CertifiedIsProven
<1>2. ASSUME NEW p \in Prs, PushHead(p)
      PROVE  CiInv' /\ proven \subseteq proven'
  <2>1. CASE ci' = ci
    BY <1>2, <2>1 DEF PushHead, CiInv, CertifiedIsProven, IsRun, Counted, Said, Proves
  <2>2. CASE ci' = Idle
    BY <1>2, <2>2, IdleStage DEF PushHead, CiInv, CertifiedIsProven
  <2>. QED  BY <1>2, <2>1, <2>2 DEF PushHead
<1>3. ASSUME NEW r \in runs, RerunCi(r)
      PROVE  CiInv' /\ proven \subseteq proven'
  <2>1. IsRun(ci)' /\ ci'.stage = "plan" /\ ci'.manifests = << >>
    <3>1. ci' = [NewRun(r.pr) EXCEPT !.head = r.head, !.tree = r.tree]
      BY <1>3 DEF RerunCi
    <3>2. IsRun(NewRun(r.pr)) /\ NewRun(r.pr).stage = "plan" /\ NewRun(r.pr).manifests = << >>
      BY DEF NewRun, IsRun
    <3>. QED  BY <3>1, <3>2 DEF IsRun
  <2>2. DOMAIN ci'.manifests = {}
    BY <2>1
  <2>. QED  BY <1>3, <2>1, <2>2 DEF RerunCi, CiInv, CertifiedIsProven
<1>4. ASSUME NEW r \in runs, Expire(r)
      PROVE  CiInv' /\ proven \subseteq proven'
  <2>1. \A q \in runs' : IsRecord(q) /\ \E s \in runs : q.tree = s.tree
    BY <1>4 DEF Expire, CiInv, IsRecord
  <2>. QED  BY <1>4, <2>1 DEF Expire, CiInv, CertifiedIsProven, IsRun, Counted, Said, Proves
<1>5. ASSUME NEW nodes, NEW weights, Collect(nodes, weights)
      PROVE  CiInv' /\ proven \subseteq proven'
  <2>1. IsRun(ci)
    BY <1>5, IdleStage DEF Collect, CiInv
  <2>2. CASE Shards!PlanRefused(nodes, ShardCount, weights)
    <3>1. IsRun(ci)' /\ ci'.stage = "others" /\ ci'.ok = FALSE
      BY <1>5, <2>1, <2>2 DEF Collect, IsRun
    <3>. QED  BY <1>5, <3>1 DEF Collect, CiInv, CertifiedIsProven
  <2>3. CASE ~Shards!PlanRefused(nodes, ShardCount, weights)
    <3>1. /\ IsRun(ci)' /\ ci'.stage = "shards" /\ DOMAIN ci'.manifests = {}
          /\ ci'.plan = Shards!MakePlan(nodes, ShardCount, weights, ci.tree)
          /\ ci'.passes = [n \in ToSet(nodes) |-> 0]
      BY <1>5, <2>1, <2>3 DEF Collect, IsRun, CiInv
    <3>2. Counted(ci)'
      BY <3>1 DEF Shards!MakePlan, Counted, Said
    <3>. QED  BY <1>5, <3>1, <3>2 DEF Collect, CiInv, CertifiedIsProven
  <2>. QED  BY <2>2, <2>3
<1>6. ASSUME NEW i, NEW nodes, NEW outcome, ExecuteShard(i, nodes, outcome)
      PROVE  CiInv' /\ proven \subseteq proven'
  <2>1. IsRun(ci)' /\ ci'.stage = "shards" /\ Counted(ci)'
    BY <1>6, ShardCounted
  <2>2. UNCHANGED <<runs, proven>>
    BY <1>6 DEF ExecuteShard
  <2>. QED  BY <2>1, <2>2 DEF CiInv, CertifiedIsProven
<1>7. ASSUME NEW i, NEW nodes, ShardFails(i, nodes)
      PROVE  CiInv' /\ proven \subseteq proven'
  <2>1. IsRun(ci)
    BY <1>7, IdleStage DEF ShardFails, CiInv
  <2>2. IsRun(ci)' /\ ci'.stage = "others" /\ ci'.ok = FALSE
    BY <1>7, <2>1 DEF ShardFails, IsRun
  <2>. QED  BY <1>7, <2>2 DEF ShardFails, CiInv, CertifiedIsProven
<1>8. CASE Accept
  <2>1. IsRun(ci) /\ Counted(ci)
    BY <1>8, IdleStage DEF Accept, CiInv
  <2>2. IsRun(ci)' /\ ci'.stage = "others" /\ ci'.passes = ci.passes
    BY <1>8, <2>1 DEF Accept, IsRun
  <2>3. ci'.ok => Shards!ValidShards(ci.plan, ci.manifests, ci.reports, ci.tree, Runtime)
    BY <1>8, <2>1, Zenon DEF Accept, IsRun
  <2>4. ci'.ok => Proves(ci, TRUE)'
    BY <2>1, <2>2, <2>3, AuditProves DEF Proves
  <2>. QED  BY <1>8, <2>2, <2>4 DEF Accept, CiInv, CertifiedIsProven
<1>9. ASSUME NEW others \in BOOLEAN, Certify(others)
      PROVE  CiInv' /\ proven \subseteq proven'
  <2>. DEFINE record == [pr |-> ci.pr, head |-> ci.head, tree |-> ci.tree, record |-> "live"]
  <2>1. proven \subseteq proven' /\ ci' = Idle
    BY <1>9 DEF Certify
  <2>2. CASE runs' = runs
    BY <2>1, <2>2, IdleStage DEF CiInv, CertifiedIsProven
  <2>3. CASE ci.ok /\ others /\ runs' = runs \cup {record}
    <3>1. Proves(ci, others)
      BY <1>9, <2>3 DEF Certify, CiInv, Proves
    <3>2. ci.tree \in proven'
      BY <1>9, <3>1 DEF Certify
    <3>3. IsRecord(record) /\ record.tree = ci.tree
      BY DEF IsRecord
    <3>. HIDE DEF record
    <3>. QED  BY <2>1, <2>3, <3>2, <3>3, IdleStage DEF CiInv, CertifiedIsProven
  <2>. QED  BY <1>9, <2>2, <2>3 DEF Certify
<1>10. CASE UNCHANGED <<ci, runs, proven>>
  BY <1>10 DEF CiInv, CertifiedIsProven, IsRun, Counted, Said, Proves
<1>11. ASSUME NEW p \in Prs, Merge(p)
       PROVE  UNCHANGED <<ci, runs, proven>>
  BY <1>11 DEF Merge
<1>12. ASSUME NEW c, PushTag(c)
       PROVE  UNCHANGED <<ci, runs, proven>>
  BY <1>12 DEF PushTag
<1>13. ASSUME NEW j, Release(j)
       PROVE  UNCHANGED <<ci, runs, proven>>
  BY <1>13 DEF Release, StartRelease, Source, Qualify, Verify, CheckTag, Create, Finish, Package, Upload, Interrupt, Rerun
<1>. QED
  BY <1>1, <1>2, <1>3, <1>4, <1>5, <1>6, <1>7, <1>8, <1>9, <1>10, <1>11, <1>12, <1>13 DEF Next, Ci

\* A step keeps a valid plan valid, and makes no other.
LEMMA PlansKept ==
  ASSUME CiInv, PlansAreValid, Next
  PROVE  PlansAreValid'
<1>1. ASSUME NEW nodes \in {Suite, Partial}, NEW weights \in Weights, Collect(nodes, weights)
      PROVE  PlansAreValid'
  <2>1. IsRun(ci)
    BY <1>1, IdleStage DEF Collect, CiInv
  <2>2. CASE Shards!PlanRefused(nodes, ShardCount, weights)
    <3>1. ci'.stage = "others"
      BY <1>1, <2>1, <2>2 DEF Collect, IsRun
    <3>. QED  BY <3>1 DEF PlansAreValid
  <2>3. CASE ~Shards!PlanRefused(nodes, ShardCount, weights)
    <3>1. ci'.plan = Shards!MakePlan(nodes, ShardCount, weights, ci.tree)
      BY <1>1, <2>1, <2>3 DEF Collect, IsRun
    <3>2. Suitable(nodes) /\ Timed(weights) /\ ShardCount \in Nat \ {0}
      BY PipelineAssumption DEF Suitable, Timed
    <3>. QED  BY <2>3, <3>1, <3>2, PlanIsValid DEF PlansAreValid
  <2>. QED  BY <2>2, <2>3
<1>2. ASSUME NEW i, NEW nodes, NEW outcome, ExecuteShard(i, nodes, outcome)
      PROVE  PlansAreValid'
  <2>1. IsRun(ci) /\ ci.stage = "shards"
    BY <1>2, IdleStage DEF ExecuteShard, CiInv
  <2>2. ci'.plan = ci.plan
    BY <1>2, <2>1 DEF ExecuteShard, IsRun
  <2>. QED  BY <2>1, <2>2 DEF PlansAreValid
<1>3. ASSUME NEW i, NEW nodes, ShardFails(i, nodes)
      PROVE  PlansAreValid'
  <2>1. IsRun(ci)
    BY <1>3, IdleStage DEF ShardFails, CiInv
  <2>2. ci'.stage = "others"
    BY <1>3, <2>1 DEF ShardFails, IsRun
  <2>. QED  BY <2>2 DEF PlansAreValid
<1>4. ASSUME Accept
      PROVE  PlansAreValid'
  <2>1. IsRun(ci)
    BY <1>4, IdleStage DEF Accept, CiInv
  <2>2. ci'.stage = "others"
    BY <1>4, <2>1 DEF Accept, IsRun
  <2>. QED  BY <2>2 DEF PlansAreValid
<1>5. ASSUME NEW p, StartCi(p)
      PROVE  PlansAreValid'
  BY <1>5 DEF StartCi, NewRun, PlansAreValid
<1>6. ASSUME NEW r, RerunCi(r)
      PROVE  PlansAreValid'
  <2>1. ci' = [NewRun(r.pr) EXCEPT !.head = r.head, !.tree = r.tree]
    BY <1>6 DEF RerunCi
  <2>2. ci'.stage = "plan"
    BY <2>1 DEF NewRun
  <2>. QED  BY <2>2 DEF PlansAreValid
<1>7. ASSUME ci' = Idle
      PROVE  PlansAreValid'
  BY <1>7, IdleStage DEF PlansAreValid
<1>8. ASSUME UNCHANGED ci
      PROVE  PlansAreValid'
  BY <1>8 DEF PlansAreValid
<1>9. ASSUME NEW p, PushHead(p)
      PROVE  PlansAreValid'
  BY <1>7, <1>8, <1>9 DEF PushHead
<1>10. ASSUME NEW others, Certify(others)
       PROVE  PlansAreValid'
  BY <1>7, <1>10 DEF Certify
<1>11. ASSUME NEW x, Expire(x) \/ Merge(x) \/ PushTag(x)
       PROVE  PlansAreValid'
  BY <1>8, <1>11 DEF Expire, Merge, PushTag
<1>12. ASSUME NEW j, Release(j)
       PROVE  UNCHANGED ci
  BY <1>12 DEF Release, StartRelease, Source, Qualify, Verify, CheckTag, Create, Finish, Package, Upload, Interrupt, Rerun
<1>. QED
  BY <1>1, <1>2, <1>3, <1>4, <1>5, <1>6, <1>8, <1>9, <1>10, <1>11, <1>12 DEF Next, Ci

-----------------------------------------------------------------------------
(* The repository. *)

Commit == [tree : SUBSET (Prs \X Nat), pr : Prs, head : Nat]

RepoInv == head \in [Prs -> Nat] /\ main \in Seq(Commit) /\ tag \in 0..Len(main)

\* A commit that is in the history m, of a tree among p.
Known(c, m, p) == c \in 1..Len(m) /\ m[c].tree \in p

\* The commits of main stay what they are, whatever is merged on top.
LEMMA RepoKept ==
  ASSUME CiInv, RepoInv, Next
  PROVE  /\ RepoInv'
         /\ \A c \in 1..Len(main) : c \in 1..Len(main') /\ main'[c] = main[c]
<1>0. head \in [Prs -> Nat] /\ main \in Seq(Commit) /\ tag \in 0..Len(main) /\ Len(main) \in Nat
  BY DEF RepoInv
<1>1. ASSUME NEW p \in Prs, Merge(p)
      PROVE  RepoInv' /\ \A c \in 1..Len(main) : c \in 1..Len(main') /\ main'[c] = main[c]
  <2>. DEFINE commit == [tree |-> MainTree \cup {<<p, head[p]>>}, pr |-> p, head |-> head[p]]
  <2>1. MainTree \in SUBSET (Prs \X Nat)
    <3>1. CASE Len(main) = 0
      BY <3>1 DEF MainTree, TreeOf
    <3>2. CASE Len(main) # 0
      <4>1. main[Len(main)] \in Commit
        BY <1>0, <3>2, ElementOfSeq
      <4>. QED  BY <3>2, <4>1 DEF MainTree, TreeOf, Commit
    <3>. QED  BY <3>1, <3>2
  <2>2. commit \in Commit
    BY <1>0, <2>1 DEF Commit
  <2>3. main' = Append(main, commit)
    BY <1>1 DEF Merge
  <2>. HIDE DEF commit
  <2>4. /\ main' \in Seq(Commit) /\ Len(main') = Len(main) + 1
        /\ \A c \in 1..Len(main) : main'[c] = main[c]
    BY <1>0, <2>2, <2>3, AppendProperties
  <2>5. head' \in [Prs -> Nat] /\ tag' = tag
    BY <1>0, <1>1 DEF Merge
  <2>. QED  BY <1>0, <2>4, <2>5 DEF RepoInv
<1>2. ASSUME NEW p \in Prs, PushHead(p)
      PROVE  RepoInv' /\ UNCHANGED main
  <2>1. head[p] + 1 \in Nat
    BY <1>0
  <2>. QED  BY <1>0, <1>2, <2>1 DEF PushHead, RepoInv
<1>3. ASSUME NEW c, PushTag(c)
      PROVE  RepoInv' /\ UNCHANGED main
  <2>1. c \in 0..Len(main)
    BY <1>0, <1>3 DEF PushTag
  <2>. QED  BY <1>0, <1>3, <2>1 DEF PushTag, RepoInv
<1>4. ASSUME NEW p \in Prs, StartCi(p)
      PROVE  UNCHANGED <<head, main, tag>>
  BY <1>4 DEF StartCi
<1>5. ASSUME NEW r \in runs, RerunCi(r) \/ Expire(r)
      PROVE  UNCHANGED <<head, main, tag>>
  BY <1>5 DEF RerunCi, Expire
<1>6. ASSUME NEW i, NEW nodes, NEW x, Collect(nodes, x) \/ ExecuteShard(i, nodes, x) \/ ShardFails(i, nodes)
      PROVE  UNCHANGED <<head, main, tag>>
  BY <1>6 DEF Collect, ExecuteShard, ShardFails
<1>7. ASSUME Accept \/ \E others \in BOOLEAN : Certify(others)
      PROVE  UNCHANGED <<head, main, tag>>
  BY <1>7 DEF Accept, Certify
<1>8. ASSUME NEW j, Release(j)
      PROVE  UNCHANGED <<head, main, tag>>
  BY <1>8 DEF Release, StartRelease, Source, Qualify, Verify, CheckTag, Create, Finish, Package, Upload, Interrupt, Rerun
<1>9. CASE UNCHANGED <<head, main, tag>>
  BY <1>0, <1>9 DEF RepoInv
<1>. QED
  BY <1>0, <1>1, <1>2, <1>3, <1>4, <1>5, <1>6, <1>7, <1>8, <1>9 DEF Next, Ci

\* What is known stays known.
LEMMA KnownStays ==
  ASSUME CiInv, RepoInv, Next, NEW c, Known(c, main, proven)
  PROVE  Known(c, main', proven')
BY CiKept, RepoKept DEF Known

-----------------------------------------------------------------------------
(* The release runs. *)

IsJob(x) == DOMAIN x = {"stage", "back", "revision", "dry", "built", "left", "late"}

\* Where a run is, or will be again when its failed job is run again.
Place(x) == IF x.stage = "failed" THEN x.back ELSE x.stage

Sound(target, bytes) ==
  Content[bytes].header.machine = target /\ Required(target) \subseteq Bundled(Content[bytes])

\* What a run has established, with history m, proven trees p, tag t and release r.
Good(x, m, p, t, r) ==
  /\ IsJob(x) /\ x.stage \in Stages
  /\ x.stage = "failed" => x.back \in {"source", "package", "verify"}
  /\ x.stage = "qualify" => x.revision \in 1..Len(m)
  /\ Place(x) \in {"package", "verify", "check", "upload"} => Known(x.revision, m, p)
  /\ \A a \in DOMAIN x.built : a \in ReleaseTargets /\ Sound(a, x.built[a])
  /\ Place(x) \in {"verify", "check", "upload"} => DOMAIN x.built = ReleaseTargets
  /\ x.stage = "upload" => x.late = TRUE \/ x.revision = t
  /\ x.stage = "upload" => \A f \in Files \ x.left : r[f].commit = x.revision

JobsInv ==
  /\ DOMAIN jobs = 1..MaxReleases /\ jobs = [j \in 1..MaxReleases |-> jobs[j]]
  /\ \A j \in DOMAIN jobs : Good(jobs[j], main, proven, tag, release)
  /\ \A i, j \in DOMAIN jobs : Active(i) /\ Active(j) => i = j

\* What a release holds.
Held(r, m, p) ==
  /\ DOMAIN r = Files
  /\ \A f \in Files : r[f].commit # 0 => Known(r[f].commit, m, p)
  /\ \A a \in ReleaseTargets : r[a].commit # 0 => Sound(a, r[a].bytes)

IInv == CiInv /\ RepoInv /\ JobsInv /\ Held(release, main, proven)

Resting == {"none", "failed", "done"}

\* A run that a step leaves alone keeps what it has established.
LEMMA GoodStays ==
  ASSUME CiInv, RepoInv, Next, NEW x, Good(x, main, proven, tag, release),
         x.stage = "upload" => UNCHANGED <<tag, release>>
  PROVE  Good(x, main', proven', tag', release')
<1>1. x.revision \in 1..Len(main) => x.revision \in 1..Len(main')
  BY RepoKept
<1>2. Known(x.revision, main, proven) => Known(x.revision, main', proven')
  BY KnownStays
<1>. QED  BY <1>1, <1>2 DEF Good

\* A step of the one active run, or of one that becomes it.
LEMMA SetKeeps ==
  ASSUME CiInv, RepoInv, JobsInv, Next, NEW j \in 1..MaxReleases, NEW x, Set(j, x),
         Good(x, main', proven', tag', release'),
         Active(j) \/ (Free /\ UNCHANGED release) \/ (x.stage \in Resting /\ UNCHANGED release),
         UNCHANGED tag
  PROVE  JobsInv'
<1>1. DOMAIN jobs' = 1..MaxReleases /\ jobs'[j] = x /\ \A i \in 1..MaxReleases : i # j => jobs'[i] = jobs[i]
  BY DEF Set, JobsInv
<1>2. ASSUME NEW i \in 1..MaxReleases
      PROVE  Good(jobs'[i], main', proven', tag', release')
  <2>1. CASE i = j
    BY <1>1, <2>1
  <2>2. CASE i # j
    <3>1. Good(jobs[i], main, proven, tag, release)
      BY DEF JobsInv
    <3>2. jobs[i].stage = "upload" => UNCHANGED <<tag, release>>
      <4>1. jobs[i].stage = "upload" => Active(i)
        BY DEF Active
      <4>2. Active(j) /\ Active(i) => FALSE
        BY <2>2 DEF JobsInv
      <4>3. Free => ~Active(i)
        BY DEF Free, JobsInv
      <4>. QED  BY <4>1, <4>2, <4>3
    <3>. QED  BY <1>1, <2>2, <3>1, <3>2, GoodStays
  <2>. QED  BY <2>1, <2>2
<1>3. ASSUME NEW i \in 1..MaxReleases, NEW k \in 1..MaxReleases, Active(i)', Active(k)'
      PROVE  i = k
  <2>1. \A h \in 1..MaxReleases : Active(h)' => Active(h) \/ (h = j /\ x.stage \notin Resting)
    BY <1>1 DEF Active, Resting
  <2>2. x.stage \notin Resting => Active(j) \/ \A h \in 1..MaxReleases : ~Active(h)
    BY DEF Free, JobsInv
  <2>. QED  BY <1>3, <2>1, <2>2 DEF JobsInv
<1>4. jobs' = [i \in 1..MaxReleases |-> jobs'[i]]
  BY <1>1 DEF Set, JobsInv
<1>. QED  BY <1>1, <1>2, <1>3, <1>4 DEF JobsInv

\* A run that has established nothing.
LEMMA BlankGood ==
  ASSUME NEW x, NEW m, NEW p, NEW t, NEW r, IsJob(x), Place(x) \in {"none", "source", "done"},
         x.stage = "failed" => x.back = "source", x.built = << >>
  PROVE  Good(x, m, p, t, r)
<1>0. DOMAIN << >> = {}
  OBVIOUS
<1>1. DOMAIN x.built = {}
  BY <1>0, Zenon
<1>. QED  BY <1>1 DEF Good, Place, Stages

LEMMA DoneKeeps ==
  ASSUME CiInv, RepoInv, JobsInv, Next, NEW j \in 1..MaxReleases, Done(j), Active(j), UNCHANGED tag
  PROVE  JobsInv'
<1>. DEFINE x == [Fresh EXCEPT !.stage = "done"]
<1>1. IsJob(x) /\ x.stage = "done" /\ x.built = << >>
  BY DEF Fresh, IsJob
<1>2. Set(j, x)
  BY DEF Done
<1>. HIDE DEF x
<1>3. Good(x, main', proven', tag', release')
  BY <1>1, BlankGood DEF Place
<1>. QED  BY <1>2, <1>3, SetKeeps

\* A run that fails keeps what the jobs before the failed one have established.
LEMMA FailKeeps ==
  ASSUME CiInv, RepoInv, JobsInv, Next, NEW j \in 1..MaxReleases, NEW back, Fail(j, back), Active(j),
         \/ back = "source"
         \/ back = "package" /\ jobs[j].stage = "package"
         \/ back = "verify" /\ jobs[j].stage \in {"verify", "check", "upload"},
         UNCHANGED <<tag, release>>
  PROVE  JobsInv'
<1>0. Good(jobs[j], main, proven, tag, release)
  BY DEF JobsInv
<1>1. CASE back = "source"
  <2>. DEFINE x == [Fresh EXCEPT !.stage = "failed", !.back = back, !.dry = jobs[j].dry]
  <2>1. IsJob(x) /\ x.stage = "failed" /\ x.back = "source" /\ x.built = << >>
    BY <1>1 DEF IsJob, Fresh
  <2>2. Set(j, x)
    BY <1>1 DEF Fail
  <2>. HIDE DEF x
  <2>3. Good(x, main', proven', tag', release')
    BY <2>1, BlankGood DEF Place
  <2>. QED  BY <2>2, <2>1, <2>3, SetKeeps DEF Resting
<1>2. CASE back # "source"
  <2>. DEFINE x == [jobs[j] EXCEPT !.stage = "failed", !.back = back, !.left = {}, !.late = FALSE]
  <2>1. /\ IsJob(x) /\ x.stage = "failed" /\ x.back = back
        /\ x.revision = jobs[j].revision /\ x.built = jobs[j].built
    BY <1>0 DEF Good, IsJob
  <2>2. Set(j, x)
    BY <1>2 DEF Fail
  <2>. HIDE DEF x
  <2>3. Good(jobs[j], main', proven', tag', release')
    BY <1>0, GoodStays
  <2>4. Good(x, main', proven', tag', release')
    BY <1>2, <2>1, <2>3 DEF Good, Place, Stages
  <2>. QED  BY <2>2, <2>4, SetKeeps
<1>. QED  BY <1>1, <1>2

\* A run that goes on: what it had it keeps, and the new stage asks no more.
LEMMA GoesOn ==
  ASSUME CiInv, RepoInv, JobsInv, Next, NEW j \in 1..MaxReleases, NEW stage,
         Set(j, [jobs[j] EXCEPT !.stage = stage]),
         \/ stage = "package" /\ jobs[j].stage = "qualify" /\ Known(jobs[j].revision, main, proven)
         \/ stage = "check" /\ jobs[j].stage = "verify"
         \/ stage = jobs[j].back /\ jobs[j].stage = "failed" /\ Free,
         UNCHANGED <<tag, release>>
  PROVE  JobsInv'
<1>. DEFINE x == [jobs[j] EXCEPT !.stage = stage]
<1>0. Good(jobs[j], main, proven, tag, release)
  BY DEF JobsInv
<1>1. /\ IsJob(x) /\ x.stage = stage
      /\ x.revision = jobs[j].revision /\ x.built = jobs[j].built
  BY <1>0 DEF Good, IsJob
<1>2. Set(j, x)
  OBVIOUS
<1>. HIDE DEF x
<1>3. Good(jobs[j], main', proven', tag', release')
  BY <1>0, GoodStays
<1>4. Known(jobs[j].revision, main, proven) => Known(x.revision, main', proven')
  BY <1>1, KnownStays
<1>5. Good(x, main', proven', tag', release')
  BY <1>1, <1>3, <1>4 DEF Good, Place, Stages
<1>6. Active(j) \/ Free
  BY DEF Active
<1>. QED  BY <1>2, <1>5, <1>6, SetKeeps

\* An archive that may be installed is sound for its target.
LEMMA InstallableSound ==
  ASSUME NEW target, NEW bytes, NEW lines,
         Installable(FileOf(target, bytes), lines, "tag", Content[bytes])
  PROVE  target \in ReleaseTargets /\ Sound(target, bytes)
<1>. DEFINE archive == Content[bytes]
            members == ToSet(archive.members)
<1>1. target \in ReleaseTargets /\ SoundArchive(archive, target)
  BY DEF Installable, Expected, FileOf
<1>2. archive.header.machine = target
  BY <1>1 DEF SoundArchive, SoundBinary, SoundMachO, SoundElf
<1>3. Required(target) \subseteq Bundled(archive)
  <2>. SUFFICES ASSUME NEW path \in Required(target)
                PROVE  path \in Bundled(archive)
    OBVIOUS
  <2>1. PICK m \in members : m.path = path
    BY <1>1 DEF SoundArchive
  <2>2. m.kind = "file"
    BY <1>1, <2>1 DEF SoundArchive, SoundMember
  <2>. QED  BY <2>1, <2>2 DEF Bundled
<1>. QED  BY <1>1, <1>2, <1>3 DEF Sound

\* The steps of a release run, up to the upload.
LEMMA PreparesKeep ==
  ASSUME CiInv, RepoInv, JobsInv, Next, NEW j \in 1..MaxReleases,
         \/ \E trigger \in {"tag", "dry_run", "published"} : StartRelease(j, trigger)
         \/ Source(j) \/ Qualify(j) \/ Verify(j) \/ CheckTag(j)
         \/ Interrupt(j) \/ Rerun(j)
  PROVE  JobsInv'
<1>0. Good(jobs[j], main, proven, tag, release)
  BY DEF JobsInv
<1>g. jobs[j].stage # "upload" => Good(jobs[j], main', proven', tag', release')
  BY <1>0, GoodStays
<1>1. ASSUME NEW trigger \in {"tag", "dry_run", "published"}, StartRelease(j, trigger)
      PROVE  JobsInv'
  <2>. DEFINE x == [Fresh EXCEPT !.stage = "source", !.dry = (trigger = "dry_run")]
  <2>1. IsJob(x) /\ x.stage = "source" /\ x.built = << >>
    BY DEF Fresh, IsJob
  <2>2. Set(j, x) /\ Free /\ UNCHANGED <<tag, release>>
    BY <1>1 DEF StartRelease, Set
  <2>. HIDE DEF x
  <2>3. Good(x, main', proven', tag', release')
    BY <2>1, BlankGood DEF Place
  <2>. QED  BY <2>2, <2>3, SetKeeps
<1>2. CASE Source(j)
  <2>1. CASE \E h \in TreeOf(tag) : h[1] = ReleasePr
    <3>. DEFINE x == [jobs[j] EXCEPT !.stage = "qualify", !.revision = tag]
    <3>1. IsJob(x) /\ x.stage = "qualify" /\ x.revision = tag /\ x.built = jobs[j].built
      BY <1>0 DEF Good, IsJob
    <3>2. Set(j, x) /\ Active(j) /\ UNCHANGED <<tag, release>> /\ jobs[j].stage = "source"
      BY <1>2, <2>1 DEF Source, Active
    <3>3. tag \in 1..Len(main)
      BY <2>1 DEF TreeOf, RepoInv
    <3>4. tag \in 1..Len(main')
      BY <3>3, RepoKept
    <3>. HIDE DEF x
    <3>5. Good(x, main', proven', tag', release')
      BY <1>g, <3>1, <3>2, <3>4 DEF Good, Place, Stages
    <3>. QED  BY <3>2, <3>5, SetKeeps
  <2>2. CASE Fail(j, "source")
    BY <1>2, <2>2, FailKeeps DEF Source, Active
  <2>. QED  BY <1>2, <2>1, <2>2 DEF Source
<1>3. CASE Qualify(j)
  <2>1. CASE Certifies(jobs[j].revision)
    <3>1. jobs[j].revision \in 1..Len(main)
      BY <1>0, <1>3 DEF Qualify, Good
    <3>2. TreeOf(jobs[j].revision) \in proven
      BY <2>1 DEF Certifies, CiInv, CertifiedIsProven
    <3>3. Known(jobs[j].revision, main, proven)
      BY <3>1, <3>2 DEF TreeOf, Known
    <3>4. Set(j, [jobs[j] EXCEPT !.stage = "package"]) /\ UNCHANGED <<tag, release>> /\ jobs[j].stage = "qualify"
      BY <1>3, <2>1 DEF Qualify
    <3>. QED  BY <3>3, <3>4, GoesOn
  <2>2. CASE Fail(j, "source")
    BY <1>3, <2>2, FailKeeps DEF Qualify, Active
  <2>. QED  BY <1>3, <2>1, <2>2 DEF Qualify
<1>4. CASE Verify(j)
  <2>1. CASE Set(j, [jobs[j] EXCEPT !.stage = "check"])
    BY <1>4, <2>1, GoesOn DEF Verify
  <2>2. CASE Fail(j, "verify")
    BY <1>4, <2>2, FailKeeps DEF Verify, Active
  <2>. QED  BY <1>4, <2>1, <2>2 DEF Verify
<1>5. CASE CheckTag(j)
  <2>1. CASE tag = jobs[j].revision
    <3>. DEFINE x == [jobs[j] EXCEPT !.stage = "upload", !.left = Files]
    <3>1. /\ IsJob(x) /\ x.stage = "upload" /\ x.left = Files
          /\ x.revision = jobs[j].revision /\ x.built = jobs[j].built
      BY <1>0 DEF Good, IsJob
    <3>2. Set(j, x) /\ Active(j) /\ UNCHANGED <<tag, release>> /\ jobs[j].stage = "check"
      BY <1>5, <2>1 DEF CheckTag, Active
    <3>. HIDE DEF x
    <3>3. Good(x, main', proven', tag', release')
      BY <1>g, <2>1, <3>1, <3>2 DEF Good, Place, Stages
    <3>. QED  BY <3>2, <3>3, SetKeeps
  <2>2. CASE Fail(j, "verify")
    BY <1>5, <2>2, FailKeeps DEF CheckTag, Active
  <2>. QED  BY <1>5, <2>1, <2>2 DEF CheckTag
<1>6. CASE Interrupt(j)
  <2>1. CASE jobs[j].stage \in {"source", "qualify"}
    <3>1. Fail(j, "source")
      BY <1>6, <2>1 DEF Interrupt
    <3>. QED  BY <1>6, <3>1, FailKeeps DEF Interrupt
  <2>2. CASE jobs[j].stage = "package"
    <3>1. Fail(j, "package")
      BY <1>6, <2>2 DEF Interrupt
    <3>. QED  BY <1>6, <2>2, <3>1, FailKeeps DEF Interrupt
  <2>3. CASE jobs[j].stage \in {"verify", "check", "upload"}
    <3>1. Fail(j, "verify")
      BY <1>6, <2>3 DEF Interrupt
    <3>. QED  BY <1>6, <2>3, <3>1, FailKeeps DEF Interrupt
  <2>. QED  BY <1>0, <1>6, <2>1, <2>2, <2>3 DEF Interrupt, Active, Good, Stages
<1>7. CASE Rerun(j)
  BY <1>7, GoesOn DEF Rerun
<1>. QED  BY <1>1, <1>2, <1>3, <1>4, <1>5, <1>6, <1>7

\* A target's job.
LEMMA PackageKeeps ==
  ASSUME CiInv, RepoInv, JobsInv, Next, NEW j \in 1..MaxReleases,
         NEW target \in ReleaseTargets, NEW bytes \in Archives, Package(j, target, bytes)
  PROVE  JobsInv'
<1>. DEFINE file == FileOf(target, bytes)
            built == With(jobs[j].built, target, bytes)
<1>0. Good(jobs[j], main, proven, tag, release) /\ jobs[j].stage = "package" /\ Active(j) /\ UNCHANGED <<tag, release>>
  BY DEF JobsInv, Package, Active
<1>1. Good(jobs[j], main', proven', tag', release')
  BY <1>0, GoodStays
<1>2. CASE ~Installable(file, Lines({file}), "tag", Content[bytes])
  <2>1. Fail(j, "package")
    BY <1>2 DEF Package
  <2>. QED  BY <1>0, <2>1, FailKeeps
<1>3. CASE Installable(file, Lines({file}), "tag", Content[bytes])
  <2>1. Sound(target, bytes)
    BY <1>3, InstallableSound
  <2>2. \A a \in DOMAIN built : a \in ReleaseTargets /\ Sound(a, built[a])
    BY <1>0, <2>1 DEF Good, With
  <2>. HIDE DEF built
  <2>3. CASE DOMAIN built # ReleaseTargets /\ Set(j, [jobs[j] EXCEPT !.built = built])
    <3>. DEFINE x == [jobs[j] EXCEPT !.built = built]
    <3>1. IsJob(x) /\ x.stage = "package" /\ x.revision = jobs[j].revision /\ x.built = built
      BY <1>0 DEF Good, IsJob
    <3>2. Set(j, x)
      BY <2>3
    <3>. HIDE DEF x
    <3>3. Good(x, main', proven', tag', release')
      BY <1>0, <1>1, <2>2, <3>1 DEF Good, Place, Stages
    <3>. QED  BY <1>0, <3>2, <3>3, SetKeeps
  <2>4. CASE DOMAIN built = ReleaseTargets /\ Set(j, [jobs[j] EXCEPT !.built = built, !.stage = "verify"])
    <3>. DEFINE x == [jobs[j] EXCEPT !.built = built, !.stage = "verify"]
    <3>1. IsJob(x) /\ x.stage = "verify" /\ x.revision = jobs[j].revision /\ x.built = built
      BY <1>0 DEF Good, IsJob
    <3>2. Set(j, x)
      BY <2>4
    <3>. HIDE DEF x
    <3>3. Good(x, main', proven', tag', release')
      BY <1>0, <1>1, <2>2, <2>4, <3>1 DEF Good, Place, Stages
    <3>. QED  BY <1>0, <3>2, <3>3, SetKeeps
  <2>5. CASE Done(j)
    BY <1>0, <2>5, DoneKeeps
  <2>. QED  BY <1>3, <2>3, <2>4, <2>5 DEF Package, built
<1>. QED  BY <1>2, <1>3

\* What an upload puts there was built from a tested tree and is sound.
LEMMA AssetHeld ==
  ASSUME CiInv, RepoInv, JobsInv, Held(release, main, proven), Next,
         NEW j \in 1..MaxReleases, jobs[j].stage = "upload", NEW f \in Files
  PROVE  /\ Asset(j, f).commit = jobs[j].revision /\ Known(jobs[j].revision, main', proven')
         /\ f \in ReleaseTargets => Sound(f, Asset(j, f).bytes)
<1>0. Good(jobs[j], main, proven, tag, release)
  BY DEF JobsInv
<1>1. Known(jobs[j].revision, main, proven) /\ DOMAIN jobs[j].built = ReleaseTargets
  BY <1>0 DEF Good, Place
<1>2. Known(jobs[j].revision, main', proven')
  BY <1>1, KnownStays
<1>3. f \in ReleaseTargets => Sound(f, jobs[j].built[f])
  BY <1>0, <1>1 DEF Good
<1>. QED  BY <1>2, <1>3, PipelineAssumption DEF Asset, Bytes

LEMMA AbsentHeld == Absent.commit = 0
BY DEF Absent

\* The upload, file by file or all at once.
LEMMA UploadsKeep ==
  ASSUME CiInv, RepoInv, JobsInv, Held(release, main, proven), Next,
         NEW j \in 1..MaxReleases, Create(j) \/ Finish(j) \/ \E f \in Files : Upload(j, f)
  PROVE  JobsInv' /\ Held(release', main', proven')
<1>0. Good(jobs[j], main, proven, tag, release) /\ jobs[j].stage = "upload" /\ Active(j) /\ UNCHANGED tag
  BY DEF JobsInv, Create, Finish, Upload, Active
<1>1. \A f \in Files : release[f].commit # 0 => Known(release[f].commit, main', proven')
  BY KnownStays DEF Held
<1>2. CASE Create(j)
  <2>1. JobsInv'
    BY <1>0, <1>2, DoneKeeps DEF Create
  <2>2. release' = [f \in Files |-> Asset(j, f)]
    BY <1>2 DEF Create
  <2>3. ReleaseTargets \subseteq Files
    BY DEF Files
  <2>. QED  BY <1>0, <2>1, <2>2, <2>3, AssetHeld DEF Held
<1>3. CASE Finish(j)
  <2>1. JobsInv' /\ UNCHANGED release
    BY <1>0, <1>3, DoneKeeps DEF Finish
  <2>. QED  BY <1>1, <2>1 DEF Held
<1>4. ASSUME NEW f \in Files, Upload(j, f)
      PROVE  JobsInv' /\ Held(release', main', proven')
  <2>1. CASE release' = [release EXCEPT ![f] = Absent] /\ UNCHANGED jobs
    <3>1. DOMAIN release' = Files /\ \A g \in Files : release'[g] = IF g = f THEN Absent ELSE release[g]
      BY <2>1 DEF Held
    <3>2. \A a \in ReleaseTargets : release'[a].commit # 0 => Sound(a, release'[a].bytes)
      BY <3>1, AbsentHeld DEF Held, Files
    <3>3. \A g \in Files : release'[g].commit # 0 => Known(release'[g].commit, main', proven')
      BY <1>1, <3>1, AbsentHeld
    <3>4. Held(release', main', proven')
      BY <3>1, <3>2, <3>3 DEF Held
    <3>5. Set(j, jobs[j])
      BY <2>1 DEF Set, JobsInv
    <3>6. f \in jobs[j].left /\ DOMAIN release = Files
      BY <1>4 DEF Upload, Held
    <3>7. Known(jobs[j].revision, main', proven')
      BY <1>0, KnownStays DEF Good, Place
    <3>8. Good(jobs[j], main', proven', tag', release')
      BY <1>0, <2>1, <3>6, <3>7 DEF Good, Place
    <3>. QED  BY <1>0, <3>5, <3>8, <3>4, SetKeeps
  <2>2. CASE /\ release' = [release EXCEPT ![f] = Asset(j, f)]
             /\ Set(j, [jobs[j] EXCEPT !.left = @ \ {f}])
    <3>. DEFINE x == [jobs[j] EXCEPT !.left = @ \ {f}]
    <3>1. Held(release', main', proven')
      BY <1>0, <1>1, <2>2, AssetHeld DEF Held
    <3>2. /\ IsJob(x) /\ x.stage = "upload" /\ x.revision = jobs[j].revision /\ x.built = jobs[j].built
          /\ x.left = jobs[j].left \ {f} /\ x.late = jobs[j].late
      BY <1>0 DEF Good, IsJob
    <3>3. Set(j, x)
      BY <2>2
    <3>. HIDE DEF x
    <3>4. DOMAIN release = Files /\ release'[f].commit = jobs[j].revision
      BY <1>0, <2>2, AssetHeld DEF Held
    <3>5. Known(jobs[j].revision, main', proven')
      BY <1>0, KnownStays DEF Good, Place
    <3>6. Good(x, main', proven', tag', release')
      BY <1>0, <2>2, <3>2, <3>4, <3>5 DEF Good, Place
    <3>. QED  BY <1>0, <3>1, <3>3, <3>6, SetKeeps
  <2>. QED  BY <1>4, <2>1, <2>2 DEF Upload
<1>. QED  BY <1>2, <1>3, <1>4

\* The tag is moved under the runs.
LEMMA TagKeeps ==
  ASSUME CiInv, RepoInv, JobsInv, Next, NEW c, PushTag(c)
  PROVE  JobsInv'
<1>1. jobs' = [j \in DOMAIN jobs |-> Late(jobs[j])] /\ UNCHANGED release
  BY DEF PushTag
<1>2. ASSUME NEW j \in 1..MaxReleases
      PROVE  jobs'[j].stage = jobs[j].stage /\ Good(jobs'[j], main', proven', tag', release')
  <2>0. Good(jobs[j], main, proven, tag, release) /\ jobs'[j] = Late(jobs[j])
    BY <1>1 DEF JobsInv
  <2>1. CASE jobs[j].stage # "upload"
    BY <2>0, <2>1, GoodStays DEF Late
  <2>2. CASE jobs[j].stage = "upload"
    <3>. DEFINE x == [jobs[j] EXCEPT !.late = TRUE]
    <3>1. jobs'[j] = x
      BY <2>0, <2>2 DEF Late
    <3>2. /\ IsJob(x) /\ x.stage = "upload" /\ x.revision = jobs[j].revision /\ x.built = jobs[j].built
          /\ x.left = jobs[j].left /\ x.late = TRUE
      BY <2>0, <2>2 DEF Good, IsJob
    <3>. HIDE DEF x
    <3>3. Known(jobs[j].revision, main', proven')
      BY <2>0, <2>2, KnownStays DEF Good, Place
    <3>4. Good(x, main', proven', tag', release')
      BY <1>1, <2>0, <2>2, <3>2, <3>3 DEF Good, Place
    <3>. QED  BY <2>2, <3>1, <3>2, <3>4
  <2>. QED  BY <2>1, <2>2
<1>3. DOMAIN jobs' = 1..MaxReleases /\ jobs' = [j \in 1..MaxReleases |-> jobs'[j]]
  BY <1>1 DEF JobsInv
<1>. QED  BY <1>2, <1>3 DEF JobsInv, Active

\* Steps that concern neither the runs, nor the tag, nor the release.
LEMMA ElsewhereKeeps ==
  ASSUME CiInv, RepoInv, JobsInv, Held(release, main, proven), Next, UNCHANGED <<jobs, tag, release>>
  PROVE  JobsInv' /\ Held(release', main', proven')
<1>1. \A j \in DOMAIN jobs : Good(jobs[j], main', proven', tag', release')
  BY GoodStays DEF JobsInv
<1>2. \A f \in Files : release[f].commit # 0 => Known(release[f].commit, main', proven')
  BY KnownStays DEF Held
<1>. QED  BY <1>1, <1>2 DEF JobsInv, Active, Held

LEMMA ElsewhereIs ==
  ASSUME Ci \/ \E p \in Prs : Merge(p)
  PROVE  UNCHANGED <<jobs, tag, release>>
<1>1. ASSUME NEW p \in Prs, StartCi(p) \/ PushHead(p) \/ Merge(p)
      PROVE  UNCHANGED <<jobs, tag, release>>
  BY <1>1 DEF StartCi, PushHead, Merge
<1>2. ASSUME NEW r \in runs, RerunCi(r) \/ Expire(r)
      PROVE  UNCHANGED <<jobs, tag, release>>
  BY <1>2 DEF RerunCi, Expire
<1>3. ASSUME NEW i, NEW nodes, NEW x, Collect(nodes, x) \/ ExecuteShard(i, nodes, x) \/ ShardFails(i, nodes)
      PROVE  UNCHANGED <<jobs, tag, release>>
  BY <1>3 DEF Collect, ExecuteShard, ShardFails
<1>4. ASSUME Accept \/ \E others \in BOOLEAN : Certify(others)
      PROVE  UNCHANGED <<jobs, tag, release>>
  BY <1>4 DEF Accept, Certify
<1>. QED  BY <1>1, <1>2, <1>3, <1>4 DEF Ci

-----------------------------------------------------------------------------
(* The invariant. *)

LEMMA Initially == Init => IInv
<1>. SUFFICES ASSUME Init
              PROVE  IInv
  OBVIOUS
<1>1. CiInv
  BY IdleStage DEF Init, CiInv, CertifiedIsProven
<1>2. RepoInv
  BY EmptySeq DEF Init, RepoInv
<1>3. Fresh.stage = "none" /\ IsJob(Fresh) /\ Fresh.built = << >>
  BY DEF Fresh, IsJob
<1>4. Good(Fresh, main, proven, tag, release)
  BY <1>3, BlankGood DEF Place
<1>5. JobsInv
  BY <1>3, <1>4 DEF Init, JobsInv, Active
<1>6. Held(release, main, proven)
  BY AbsentHeld DEF Init, Held, Files
<1>. QED  BY <1>1, <1>2, <1>5, <1>6 DEF IInv

LEMMA Kept ==
  ASSUME IInv, Next
  PROVE  IInv'
<1>0. CiInv /\ RepoInv /\ JobsInv /\ Held(release, main, proven)
  BY DEF IInv
<1>1. CiInv' /\ RepoInv'
  BY <1>0, CiKept, RepoKept
<1>2. \A f \in Files : release[f].commit # 0 => Known(release[f].commit, main', proven')
  BY <1>0, KnownStays DEF Held
<1>3. UNCHANGED release => Held(release', main', proven')
  BY <1>0, <1>2 DEF Held
<1>4. CASE Ci \/ \E p \in Prs : Merge(p)
  BY <1>0, <1>1, <1>4, ElsewhereKeeps, ElsewhereIs DEF IInv
<1>5. CASE \E c \in 1..Cardinality(Prs) : PushTag(c)
  <2>1. JobsInv' /\ UNCHANGED release
    BY <1>0, <1>5, TagKeeps DEF PushTag
  <2>. QED  BY <1>1, <1>3, <2>1 DEF IInv
<1>6. CASE \E j \in 1..MaxReleases : Release(j)
  <2>. PICK j \in 1..MaxReleases : Release(j)
    BY <1>6
  <2>1. CASE \/ \E trigger \in {"tag", "dry_run", "published"} : StartRelease(j, trigger)
             \/ Source(j) \/ Qualify(j) \/ Verify(j) \/ CheckTag(j)
             \/ Interrupt(j) \/ Rerun(j)
    <3>1. JobsInv'
      BY <1>0, <2>1, PreparesKeep
    <3>2. UNCHANGED release
      BY <2>1 DEF StartRelease, Source, Qualify, Verify, CheckTag, Interrupt, Rerun
    <3>. QED  BY <1>1, <1>3, <3>1, <3>2 DEF IInv
  <2>2. CASE \E target \in ReleaseTargets, bytes \in Archives : Package(j, target, bytes)
    <3>1. JobsInv' /\ UNCHANGED release
      BY <1>0, <2>2, PackageKeeps DEF Package
    <3>. QED  BY <1>1, <1>3, <3>1 DEF IInv
  <2>3. CASE Create(j) \/ Finish(j) \/ \E f \in Files : Upload(j, f)
    BY <1>0, <1>1, <2>3, UploadsKeep DEF IInv
  <2>. QED  BY <2>1, <2>2, <2>3 DEF Release
<1>. QED  BY <1>4, <1>5, <1>6 DEF Next

LEMMA Invariant == Spec => []IInv
<1>1. Init => IInv
  BY Initially
<1>2. IInv /\ [Next]_vars => IInv'
  <2>1. ASSUME IInv, UNCHANGED vars
        PROVE  IInv'
    BY <2>1 DEF vars, IInv, CiInv, CertifiedIsProven, IsRun, Counted, Said, Proves, RepoInv, JobsInv, Active
  <2>. QED  BY Kept, <2>1
<1>. QED  BY <1>1, <1>2, PTL DEF Spec

-----------------------------------------------------------------------------
(* The theorems. *)

\* The repository, the runs and the release keep their types, and at most one
\* release run is active.
THEOREM TypeCorrect == Spec => []TypeOK
<1>1. IInv => TypeOK
  <2>. SUFFICES ASSUME IInv
                PROVE  TypeOK
    OBVIOUS
  <2>1. head \in [Prs -> Nat] /\ main \in Seq(Commit) /\ tag \in 0..Len(main) /\ Len(main) \in Nat
    BY DEF IInv, RepoInv
  <2>2. DOMAIN release = Files /\ \A f \in Files : release[f].commit \in 0..Len(main)
    BY <2>1 DEF IInv, Held, Known
  <2>3. DOMAIN jobs = 1..MaxReleases /\ \A i, j \in DOMAIN jobs : Active(i) /\ Active(j) => i = j
    BY DEF IInv, JobsInv
  <2>4. ASSUME NEW j \in DOMAIN jobs
        PROVE  /\ jobs[j].stage \in Stages /\ DOMAIN jobs[j].built \subseteq ReleaseTargets
               /\ jobs[j].stage = "failed" => jobs[j].back \in {"source", "package", "verify"}
               /\ jobs[j].stage \in {"qualify", "package", "verify", "check", "upload"} =>
                    jobs[j].revision \in 1..Len(main)
    <3>1. Good(jobs[j], main, proven, tag, release)
      BY DEF IInv, JobsInv
    <3>. QED  BY <3>1 DEF Good, Place, Known
  <2>. QED  BY <2>1, <2>2, <2>3, <2>4 DEF TypeOK, Commit
<1>. QED  BY <1>1, Invariant, PTL

\* A plan that is made leaves no shard without a module: its shards accept it.
THEOREM PlansAlwaysValid == Spec => []PlansAreValid
<1>1. Init => PlansAreValid
  BY IdleStage DEF Init, PlansAreValid
<1>2. IInv /\ PlansAreValid /\ [Next]_vars => PlansAreValid'
  <2>1. ASSUME PlansAreValid, UNCHANGED vars
        PROVE  PlansAreValid'
    BY <2>1 DEF vars, PlansAreValid
  <2>. QED  BY <2>1, PlansKept DEF IInv
<1>. QED  BY <1>1, <1>2, Invariant, PTL DEF Spec

\* A record certifies a tree only if every planned case of it passed once.
THEOREM AlwaysCertifiedIsProven == Spec => []CertifiedIsProven
<1>1. IInv => CertifiedIsProven
  BY DEF IInv, CiInv
<1>. QED  BY <1>1, Invariant, PTL

\* No file of a release comes from a tree that CI has not tested completely.
THEOREM AlwaysPublishedTested == Spec => []PublishedTested
<1>1. IInv => PublishedTested
  BY DEF IInv, Held, Known, PublishedTested, TreeOf
<1>. QED  BY <1>1, Invariant, PTL

\* A published archive is of its target and carries its notices.
THEOREM AlwaysPublishedRuns == Spec => []PublishedRuns
<1>1. IInv => PublishedRuns
  BY DEF IInv, Held, Sound, PublishedRuns
<1>. QED  BY <1>1, Invariant, PTL

\* A file is uploaded for the commit the tag points at, unless the tag has been
\* moved since it was checked.
THEOREM MovedTagIsRejected == Spec => MovedTagRejected
<1>. DEFINE Rejected ==
       \A f \in Files :
         release'[f] # release[f] /\ release'[f] # Absent =>
           release'[f].commit = tag \/ \E j \in DOMAIN jobs : jobs[j].late
<1>1. ASSUME IInv, Next
      PROVE  Rejected
  <2>0. CiInv /\ RepoInv /\ JobsInv /\ Held(release, main, proven)
    BY <1>1 DEF IInv
  <2>1. ASSUME NEW j \in 1..MaxReleases, Create(j) \/ \E f \in Files : Upload(j, f)
        PROVE  Rejected
    <3>1. Good(jobs[j], main, proven, tag, release) /\ jobs[j].stage = "upload"
      BY <2>0, <2>1 DEF JobsInv, Create, Upload
    <3>2. jobs[j].late = TRUE \/ jobs[j].revision = tag
      BY <3>1 DEF Good
    <3>3. \A f \in Files : release'[f] # release[f] /\ release'[f] # Absent => release'[f].commit = jobs[j].revision
      <4>1. \A f \in Files : Asset(j, f).commit = jobs[j].revision
        BY DEF Asset
      <4>. QED  BY <2>0, <2>1, <4>1 DEF Create, Upload, Held
    <3>. QED  BY <2>0, <3>2, <3>3 DEF JobsInv
  <2>2. CASE UNCHANGED release
    BY <2>2
  <2>3. CASE Ci \/ \E p \in Prs : Merge(p)
    BY <2>2, <2>3, ElsewhereIs
  <2>4. CASE \E c \in 1..Cardinality(Prs) : PushTag(c)
    BY <2>2, <2>4 DEF PushTag
  <2>5. ASSUME NEW j \in 1..MaxReleases, Release(j), ~(Create(j) \/ \E f \in Files : Upload(j, f))
        PROVE  UNCHANGED release
    BY <2>5 DEF Release, StartRelease, Source, Qualify, Verify, CheckTag, Finish, Package, Interrupt, Rerun
  <2>. HIDE DEF Rejected
  <2>. QED  BY <1>1, <2>1, <2>2, <2>3, <2>4, <2>5 DEF Next
<1>. HIDE DEF Rejected
<1>2. IInv /\ [Next]_vars => [Rejected]_vars
  BY <1>1
<1>3. Spec => [][Rejected]_vars
  BY <1>2, Invariant, PTL DEF Spec
<1>. QED  BY <1>3 DEF MovedTagRejected, Rejected

\* A release step leaves the other runs alone.
LEMMA OthersStay ==
  ASSUME JobsInv, NEW j \in 1..MaxReleases, Release(j), NEW i \in 1..MaxReleases, i # j
  PROVE  jobs'[i] = jobs[i]
<1>1. ASSUME NEW x, Set(j, x)
      PROVE  jobs'[i] = jobs[i]
  BY <1>1 DEF Set
<1>2. ASSUME NEW back, Fail(j, back)
      PROVE  jobs'[i] = jobs[i]
  BY <1>1, <1>2 DEF Fail
<1>3. Done(j) => jobs'[i] = jobs[i]
  BY <1>1 DEF Done
<1>4. ASSUME NEW trigger, StartRelease(j, trigger)
      PROVE  jobs'[i] = jobs[i]
  BY <1>4 DEF StartRelease
<1>5. Source(j) \/ Qualify(j) \/ Verify(j) \/ CheckTag(j) => jobs'[i] = jobs[i]
  BY <1>1, <1>2 DEF Source, Qualify, Verify, CheckTag
<1>6. Create(j) \/ Finish(j) => jobs'[i] = jobs[i]
  BY <1>3 DEF Create, Finish
<1>7. ASSUME NEW target, NEW bytes, Package(j, target, bytes)
      PROVE  jobs'[i] = jobs[i]
  BY <1>1, <1>2, <1>3, <1>7 DEF Package
<1>8. ASSUME NEW f, Upload(j, f)
      PROVE  jobs'[i] = jobs[i]
  BY <1>1, <1>8 DEF Upload
<1>9. Interrupt(j) \/ Rerun(j) => jobs'[i] = jobs[i]
  BY <1>1, <1>2 DEF Interrupt, Rerun
<1>. QED  BY <1>4, <1>5, <1>6, <1>7, <1>8, <1>9 DEF Release

\* A run that comes from its upload to its end leaves every file of its own.
THEOREM FinishesWhole == Spec => FinishedIsWhole
<1>. DEFINE Whole ==
       \A j \in DOMAIN jobs :
         jobs[j].stage = "upload" /\ jobs'[j].stage = "done" =>
           \A f \in Files : release'[f].commit = jobs[j].revision
<1>1. ASSUME IInv, Next
      PROVE  Whole
  <2>0. CiInv /\ RepoInv /\ JobsInv /\ Held(release, main, proven) /\ DOMAIN jobs = 1..MaxReleases
    BY <1>1 DEF IInv, JobsInv
  <2>. SUFFICES ASSUME NEW j \in 1..MaxReleases, jobs[j].stage = "upload", jobs'[j].stage = "done"
                PROVE  \A f \in Files : release'[f].commit = jobs[j].revision
    BY <2>0
  <2>1. jobs'[j] # jobs[j]
    OBVIOUS
  <2>2. ~(Ci \/ \E p \in Prs : Merge(p))
    BY <2>1, ElsewhereIs
  <2>3. ASSUME NEW c \in 1..Cardinality(Prs), PushTag(c)
        PROVE  FALSE
    <3>1. Good(jobs[j], main, proven, tag, release) /\ jobs'[j] = [jobs[j] EXCEPT !.late = TRUE]
      BY <2>0, <2>3 DEF PushTag, Late, JobsInv
    <3>. QED  BY <3>1 DEF Good, IsJob
  <2>4. PICK i \in 1..MaxReleases : Release(i)
    BY <1>1, <2>2, <2>3 DEF Next
  <2>5. i = j
    BY <2>0, <2>1, <2>4, OthersStay
  <2>6. Good(jobs[j], main, proven, tag, release)
    BY <2>0 DEF JobsInv
  <2>7. CASE Create(j)
    <3>1. \A f \in Files : Asset(j, f).commit = jobs[j].revision
      BY DEF Asset
    <3>. QED  BY <2>7, <3>1 DEF Create
  <2>8. CASE Finish(j)
    <3>1. jobs[j].left = {} /\ UNCHANGED release
      BY <2>8 DEF Finish
    <3>. QED  BY <2>6, <3>1 DEF Good
  <2>9. ASSUME NEW f \in Files, Upload(j, f)
        PROVE  FALSE
    <3>1. jobs'[j] = [jobs[j] EXCEPT !.left = @ \ {f}]
      BY <2>0, <2>1, <2>9 DEF Upload, Set
    <3>. QED  BY <2>6, <3>1 DEF Good, IsJob
  <2>10. CASE Interrupt(j)
    <3>1. Fail(j, "verify")
      BY <2>10 DEF Interrupt
    <3>2. jobs'[j] = [jobs[j] EXCEPT !.stage = "failed", !.back = "verify", !.left = {}, !.late = FALSE]
      BY <2>0, <3>1 DEF Fail, Set
    <3>. QED  BY <2>6, <3>2 DEF Good, IsJob
  <2>. QED
    BY <2>4, <2>5, <2>7, <2>8, <2>9, <2>10
    DEF Release, StartRelease, Source, Qualify, Verify, CheckTag, Package, Rerun
<1>. HIDE DEF Whole
<1>2. IInv /\ [Next]_vars => [Whole]_vars
  BY <1>1
<1>3. Spec => [][Whole]_vars
  BY <1>2, Invariant, PTL DEF Spec
<1>. QED  BY <1>3 DEF FinishedIsWhole, Whole
=============================================================================
