---------------------------- MODULE AgentOs_proofs ----------------------------
(***************************************************************************)
(* Proofs about agent_os_orchestrator.py for every set of issues, labels   *)
(* and dependencies, every set of commands that run together and every     *)
(* number of failures.                                                     *)
(***************************************************************************)
EXTENDS AgentOs, FiniteSetTheorems, TLAPS

-----------------------------------------------------------------------------
(* Numbers, functions and orders.                                           *)

\* A set of numbers that is not empty has a least element.
LEMMA Least ==
  ASSUME NEW T \in SUBSET Nat, T # {}
  PROVE  \E n \in T : \A m \in T : n <= m
<1>. DEFINE Initial == {0..n : n \in T}
<1>1. Initial \subseteq FiniteSubsetsOf(Nat) /\ Initial # {}
  <2>1. \A n \in T : 0..n \in SUBSET Nat /\ IsFiniteSet(0..n)
    BY FS_Interval
  <2>. QED  BY <2>1 DEF FiniteSubsetsOf
<1>2. PICK I \in Initial : \A J \in Initial : <<J, I>> \notin StrictSubsetOrdering(Nat)
  <2>. DEFINE R == StrictSubsetOrdering(Nat)  F == FiniteSubsetsOf(Nat)
  <2>1. IsWellFoundedOn(R, F)
    BY FS_StrictSubsetOrderingWellFounded
  <2>. HIDE DEF R, F, Initial
  <2>. QED  BY <1>1, <2>1, WFMin DEF F, R
<1>3. PICK n \in T : I = 0..n
  BY <1>2
<1>4. ASSUME NEW m \in T, m < n PROVE FALSE
  <2>1. 0..m \in SUBSET Nat /\ 0..n \in SUBSET Nat /\ 0..m \subseteq 0..n
    BY <1>4
  <2>2. n \in 0..n /\ n \notin 0..m
    BY <1>4
  <2>3. <<0..m, 0..n>> \in StrictSubsetOrdering(Nat)
    BY <2>1, <2>2 DEF StrictSubsetOrdering
  <2>. QED  BY <1>2, <1>3, <2>3
<1>. QED  BY <1>4

\* What holds at 0 and is handed on holds up to L.
LEMMA HandedOn ==
  ASSUME NEW L \in Nat, NEW Good \in SUBSET (0..L), 0 \in Good,
         \A n \in 1..L : n - 1 \in Good => n \in Good
  PROVE  Good = 0..L
<1>1. SUFFICES ASSUME (0..L) \ Good # {} PROVE FALSE
  OBVIOUS
<1>2. PICK n \in (0..L) \ Good : \A m \in (0..L) \ Good : n <= m
  <2>. DEFINE T == (0..L) \ Good
  <2>1. T \in SUBSET Nat /\ T # {}
    BY <1>1
  <2>. HIDE DEF T
  <2>. QED  BY <2>1, Least DEF T
<1>. QED  BY <1>2

\* The functions on 0..n that begin with start and go on with step.
Stepping(n, V, start, step) ==
  {f \in [0..n -> V] : f[0] = start /\ \A m \in 1..n : f[m] = step[<<m, f[m-1]>>]}

\* A function may be defined step by step.
LEMMA StepByStep ==
  ASSUME NEW L \in Nat, NEW V, NEW start \in V, NEW step \in [(1..L) \X V -> V]
  PROVE  Stepping(L, V, start, step) # {}
<1>. DEFINE Upto(n) == Stepping(n, V, start, step)
            Good == {n \in 0..L : Upto(n) # {}}
<1>1. 0 \in Good
  <2>1. [n \in 0..0 |-> start] \in Upto(0)
    BY DEF Stepping
  <2>. QED  BY <2>1
<1>2. ASSUME NEW n \in 1..L, n - 1 \in Good PROVE n \in Good
  <2>1. PICK f \in [0..n-1 -> V] : f[0] = start /\ \A m \in 1..n-1 : f[m] = step[<<m, f[m-1]>>]
    BY <1>2 DEF Stepping
  <2>. DEFINE g == [m \in 0..n |-> IF m = n THEN step[<<n, f[n-1]>>] ELSE f[m]]
  <2>2. n \in Nat /\ n - 1 \in 0..n-1 /\ n # 0 /\ step[<<n, f[n-1]>>] \in V
    <3>1. n - 1 \in 0..n-1
      OBVIOUS
    <3>2. f[n-1] \in V
      BY <2>1, <3>1
    <3>3. <<n, f[n-1]>> \in (1..L) \X V
      BY <3>2
    <3>. HIDE DEF Good, Upto
    <3>. QED  BY <3>1, <3>3
  <2>3. g \in [0..n -> V] /\ g[0] = start /\ g[n] = step[<<n, g[n-1]>>]
    <3>0. \A m \in 0..n-1 : f[m] \in V
      BY <2>1
    <3>1. \A m \in 0..n : m = n \/ (m \in 0..n-1 /\ f[m] \in V)
      BY <2>2, <3>0
    <3>2. \A m \in 0..n : g[m] \in V
      BY <2>2, <3>1
    <3>3. n \in 0..n /\ 0 \in 0..n /\ n - 1 \in 0..n /\ n - 1 # n
      BY <2>2
    <3>4. g[n] = step[<<n, f[n-1]>>] /\ g[n-1] = f[n-1] /\ g[0] = f[0]
      BY <2>2, <3>3
    <3>. QED  BY <2>1, <3>2, <3>4
  <2>4. \A m \in 1..n-1 : g[m] = step[<<m, g[m-1]>>]
    BY <2>1, <2>2
  <2>5. \A m \in 1..n : g[m] = step[<<m, g[m-1]>>]
    <3>. HIDE DEF g
    <3>. QED  BY <2>2, <2>3, <2>4
  <2>6. g \in Upto(n)
    <3>. HIDE DEF g
    <3>. QED  BY <2>3, <2>5 DEF Stepping
  <2>. HIDE DEF Upto
  <2>. QED  BY <2>6
<1>3. Upto(L) # {}
  <2>1. Good = 0..L
    <3>. HIDE DEF Good
    <3>. QED  BY <1>1, <1>2, HandedOn DEF Good
  <2>. QED  BY <2>1
<1>. QED  BY <1>3

Members(s) == {s[n] : n \in DOMAIN s}
OnceEach(s) == \A m, n \in DOMAIN s : s[m] = s[n] => m = n

Orders(R, S) ==
  /\ \A x \in S : <<x, x>> \notin R
  /\ \A x, y, z \in S : <<x, y>> \in R /\ <<y, z>> \in R => <<x, z>> \in R
  /\ \A x, y \in S : x # y => <<x, y>> \in R \/ <<y, x>> \in R
Below(R, S, x) == {y \in S : <<y, x>> \in R}
Rank(R, S, x) == Cardinality(Below(R, S, x)) + 1
HasByRank(e, R, S) == \A n \in 1..Cardinality(S) : e[n] \in S /\ Rank(R, S, e[n]) = n

\* Each member of a finite set has a rank, and no two have the same.
LEMMA Ranks ==
  ASSUME NEW S, IsFiniteSet(S), NEW R, Orders(R, S)
  PROVE  /\ Cardinality(S) \in Nat
         /\ \A x \in S : Cardinality(Below(R, S, x)) \in Nat /\ Rank(R, S, x) \in 1..Cardinality(S)
         /\ \A x, y \in S : <<x, y>> \in R => Rank(R, S, x) < Rank(R, S, y)
         /\ \A n \in 1..Cardinality(S) : \E x \in S : Rank(R, S, x) = n
<1>. DEFINE N == Cardinality(S)
            rank == [x \in S |-> Rank(R, S, x)]
<1>1. N \in Nat
  BY FS_CardinalityType
<1>. HIDE DEF N
<1>2. ASSUME NEW x \in S
      PROVE  /\ IsFiniteSet(Below(R, S, x)) /\ Cardinality(Below(R, S, x)) \in Nat
             /\ Rank(R, S, x) \in 1..N
  <2>1. Below(R, S, x) \in SUBSET S /\ Below(R, S, x) # S
    BY DEF Below, Orders
  <2>2. /\ IsFiniteSet(Below(R, S, x)) /\ Cardinality(Below(R, S, x)) <= N
        /\ N # Cardinality(Below(R, S, x))
    BY <2>1, FS_Subset DEF N
  <2>3. Cardinality(Below(R, S, x)) \in Nat
    BY <2>2, FS_CardinalityType
  <2>. QED  BY <1>1, <2>2, <2>3 DEF Rank
<1>3. ASSUME NEW x \in S, NEW y \in S, <<x, y>> \in R PROVE Rank(R, S, x) < Rank(R, S, y)
  <2>1. Below(R, S, x) \in SUBSET Below(R, S, y) /\ Below(R, S, x) # Below(R, S, y)
    BY <1>3 DEF Below, Orders
  <2>2. /\ Cardinality(Below(R, S, x)) <= Cardinality(Below(R, S, y))
        /\ Cardinality(Below(R, S, x)) # Cardinality(Below(R, S, y))
    BY <1>2, <2>1, FS_Subset
  <2>3. Cardinality(Below(R, S, x)) \in Nat /\ Cardinality(Below(R, S, y)) \in Nat
    BY <1>2, FS_CardinalityType
  <2>. QED  BY <2>2, <2>3 DEF Rank
<1>4. rank \in Injection(S, 1..N)
  <2>1. ASSUME NEW x \in S, NEW y \in S, rank[x] = rank[y] PROVE x = y
    <3>1. Rank(R, S, x) = Rank(R, S, y) /\ Rank(R, S, x) \in Nat /\ Rank(R, S, y) \in Nat
      BY <1>1, <1>2, <2>1
    <3>2. <<x, y>> \notin R /\ <<y, x>> \notin R
      BY <1>3, <3>1
    <3>. QED  BY <3>2 DEF Orders
  <2>. QED  BY <1>2, <2>1 DEF Injection, IsInjective
<1>5. IsFiniteSet(1..N) /\ Cardinality(1..N) = N
  BY <1>1, FS_Interval
<1>6. rank \in Surjection(S, 1..N)
  <2>. HIDE DEF rank
  <2>. QED  BY <1>4, <1>5, FS_Injection DEF N
<1>7. \A n \in 1..N : \E x \in S : Rank(R, S, x) = n
  BY <1>6 DEF Surjection
<1>. QED  BY <1>1, <1>2, <1>3, <1>7 DEF N

\* A finite set in an order: each of its members once, the lesser ones first.
LEMMA Ranked ==
  ASSUME NEW S, IsFiniteSet(S), NEW R, Orders(R, S), NEW e, HasByRank(e, R, S)
  PROVE  /\ Cardinality(S) \in Nat
         /\ \A n \in 1..Cardinality(S) : e[n] \in S
         /\ \A x \in S : \E n \in 1..Cardinality(S) : e[n] = x
         /\ \A m, n \in 1..Cardinality(S) : m < n => <<e[m], e[n]>> \in R
<1>. DEFINE N == Cardinality(S)
            rank(x) == Rank(R, S, x)
<1>1. /\ N \in Nat
      /\ \A x \in S : rank(x) \in 1..N
      /\ \A x, y \in S : <<x, y>> \in R => rank(x) < rank(y)
      /\ \A n \in 1..N : \E x \in S : rank(x) = n
  BY Ranks
<1>2. \A n \in 1..N : e[n] \in S /\ rank(e[n]) = n
  BY DEF HasByRank
<1>3. \A x, y \in S : x # y => <<x, y>> \in R \/ <<y, x>> \in R
  BY DEF Orders
<1>. HIDE DEF N, rank
<1>4. ASSUME NEW n \in 1..N PROVE e[n] \in S /\ rank(e[n]) = n
  BY <1>1, <1>2
<1>5. ASSUME NEW m \in 1..N, NEW n \in 1..N, m < n PROVE <<e[m], e[n]>> \in R
  <2>1. e[m] # e[n] /\ e[m] \in S /\ e[n] \in S
    BY <1>4, <1>5
  <2>2. <<e[n], e[m]>> \in R => n < m
    BY <1>1, <1>4, <2>1
  <2>. QED  BY <1>1, <1>3, <1>5, <2>1, <2>2
<1>6. ASSUME NEW x \in S PROVE \E n \in 1..N : e[n] = x
  <2>1. rank(x) \in 1..N
    BY <1>1
  <2>2. PICK y \in S : y = e[rank(x)] /\ rank(y) = rank(x)
    BY <1>4, <2>1
  <2>3. rank(x) \in Nat /\ ~(rank(x) < rank(y)) /\ ~(rank(y) < rank(x))
    BY <1>1, <2>1, <2>2
  <2>4. y = x
    BY <1>1, <1>3, <2>3
  <2>. QED  BY <2>1, <2>2, <2>4
<1>. QED  BY <1>1, <1>4, <1>5, <1>6 DEF N

\* What is in an order has each member once.
LEMMA OrderedOnce ==
  ASSUME NEW S, NEW R, Orders(R, S), NEW N \in Nat, NEW e \in [1..N -> S],
         \A m, n \in 1..N : m < n => <<e[m], e[n]>> \in R
  PROVE  OnceEach(e)
<1>. SUFFICES ASSUME NEW m \in 1..N, NEW n \in 1..N, e[m] = e[n], m # n PROVE FALSE
  BY DEF OnceEach
<1>1. m < n \/ n < m
  OBVIOUS
<1>. QED  BY <1>1 DEF Orders

\* What Sorted returns: at each place a member that so many are before.
LEMMA Sorts ==
  ASSUME NEW S, IsFiniteSet(S), NEW R, Orders(R, S), NEW e, NEW before,
         \A x \in S : before[x] = Cardinality(Below(R, S, x)),
         \A n \in 1..Cardinality(S) :
           (\E x \in S : before[x] = n - 1) => e[n] \in S /\ before[e[n]] = n - 1
  PROVE  /\ Cardinality(S) \in Nat
         /\ \A n \in 1..Cardinality(S) : e[n] \in S
         /\ \A x \in S : \E n \in 1..Cardinality(S) : e[n] = x
         /\ \A m, n \in 1..Cardinality(S) : m < n => <<e[m], e[n]>> \in R
<1>1. \A n \in 1..Cardinality(S) : \E x \in S : Rank(R, S, x) = n
  BY Ranks
<1>2. \A x \in S : Rank(R, S, x) = before[x] + 1 /\ before[x] \in Nat
  BY Ranks DEF Rank
<1>3. Cardinality(S) \in Nat
  BY Ranks
<1>4. HasByRank(e, R, S)
  BY <1>1, <1>2, <1>3 DEF HasByRank
<1>. QED  BY <1>4, Ranked

-----------------------------------------------------------------------------
(* What the planning returns.                                               *)

\* Numbers in order: each once.
LEMMA SortedNumbers ==
  \A S : S \subseteq Nat /\ IsFiniteSet(S) => Sorted(S, <) \in Seq(S) /\ OnceEach(Sorted(S, <))
<1>0. SUFFICES ASSUME NEW S, S \subseteq Nat, IsFiniteSet(S)
               PROVE  Sorted(S, <) \in Seq(S) /\ OnceEach(Sorted(S, <))
  OBVIOUS
<1>. DEFINE R == {x \in S \X S : x[1] < x[2]}
            e == Sorted(S, <)
            before == [x \in S |-> Cardinality({y \in S : y < x})]
<1>1. \A x, y \in S : <<x, y>> \in R <=> x < y
  OBVIOUS
<1>f. IsFiniteSet(S)
  BY <1>0
<1>2. Orders(R, S)
  BY <1>0, <1>1 DEF Orders
<1>3. \A x \in S : before[x] = Cardinality(Below(R, S, x))
  <2>. SUFFICES ASSUME NEW x \in S PROVE {y \in S : y < x} = Below(R, S, x)
    BY Zenon
  <2>. QED  BY <1>1 DEF Below
<1>4. \A n \in 1..Cardinality(S) :
        (\E x \in S : before[x] = n - 1) => e[n] \in S /\ before[e[n]] = n - 1
  BY DEF Sorted
<1>5. e = [n \in 1..Cardinality(S) |-> e[n]]
  BY SMTT(30) DEF Sorted
<1>. HIDE DEF R, e, before
<1>6. /\ Cardinality(S) \in Nat /\ \A n \in 1..Cardinality(S) : e[n] \in S
      /\ \A m, n \in 1..Cardinality(S) : m < n => <<e[m], e[n]>> \in R
  BY <1>f, <1>2, <1>3, <1>4, Sorts
<1>7. e \in [1..Cardinality(S) -> S]
  BY <1>5, <1>6
<1>8. OnceEach(e)
  BY <1>2, <1>6, <1>7, OrderedOnce
<1>9. e \in Seq(S)
  BY <1>6, <1>7
<1>. QED  BY <1>8, <1>9 DEF e

\* A sort key is four numbers.
LEMMA SortKeyNatural ==
  ASSUME NEW i \in Issues
  PROVE  /\ PriorityRank(LabelsOf[i]) \in Nat /\ DomainRank(LabelsOf[i]) \in Nat
         /\ ReadinessRank(LabelsOf[i]) \in Nat /\ i \in Nat
<1>1. ASSUME NEW names, DOMAIN names = 1..4, Len(names) = 4, NEW labels
      PROVE  FirstOf(names, labels) \in Nat
  <2>. DEFINE hits == {n \in DOMAIN names : names[n] \in labels}
  <2>1. CASE hits = {}
    BY <1>1, <2>1 DEF FirstOf
  <2>2. CASE hits # {}
    <3>1. \E n \in hits : \A m \in hits : n <= m
      <4>1. hits \in SUBSET Nat
        BY <1>1
      <4>. HIDE DEF hits
      <4>. QED  BY <2>2, <4>1, Least
    <3>2. (CHOOSE n \in hits : \A m \in hits : n <= m) \in 1..4
      BY <1>1, <3>1
    <3>3. FirstOf(names, labels) = (CHOOSE n \in hits : \A m \in hits : n <= m) - 1
      BY <2>2 DEF FirstOf
    <3>. HIDE DEF hits
    <3>. DEFINE least == CHOOSE n \in hits : \A m \in hits : n <= m
    <3>4. least \in 1..4 /\ FirstOf(names, labels) = least - 1
      BY <3>2, <3>3
    <3>. HIDE DEF least
    <3>. QED  BY <3>4
  <2>. QED  BY <2>1, <2>2
<1>2. PriorityRank(LabelsOf[i]) \in Nat
  BY <1>1 DEF PriorityRank
<1>3. ReadinessRank(LabelsOf[i]) \in Nat
  BY <1>1 DEF ReadinessRank
<1>. QED  BY <1>2, <1>3, PlanningAssumption DEF DomainRank

\* The order of the candidates: by priority, domain, readiness and number.
LEMMA PrecedesByParts ==
  ASSUME NEW i \in Issues, NEW j \in Issues
  PROVE  Precedes(i, j) <=>
           LET a == PriorityRank(LabelsOf[i])   x == PriorityRank(LabelsOf[j])
               b == DomainRank(LabelsOf[i])     y == DomainRank(LabelsOf[j])
               c == ReadinessRank(LabelsOf[i])  z == ReadinessRank(LabelsOf[j])
           IN  \/ a < x
               \/ a = x /\ b < y
               \/ a = x /\ b = y /\ c < z
               \/ a = x /\ b = y /\ c = z /\ i < j
<1>. DEFINE a == PriorityRank(LabelsOf[i])   x == PriorityRank(LabelsOf[j])
            b == DomainRank(LabelsOf[i])     y == DomainRank(LabelsOf[j])
            c == ReadinessRank(LabelsOf[i])  z == ReadinessRank(LabelsOf[j])
            Less(n) == SortKey(i)[n] < SortKey(j)[n] /\ \A m \in 1..n-1 : SortKey(i)[m] = SortKey(j)[m]
<1>1. SortKey(i) = <<a, b, c, i>> /\ SortKey(j) = <<x, y, z, j>>
  BY DEF SortKey
<1>2. Precedes(i, j) <=> Less(1) \/ Less(2) \/ Less(3) \/ Less(4)
  <2>1. Precedes(i, j) <=> \E n \in 1..4 : Less(n)
    BY DEF Precedes
  <2>2. 1..4 = {1, 2, 3, 4}
    OBVIOUS
  <2>. HIDE DEF Less
  <2>. QED  BY <2>1, <2>2
<1>. HIDE DEF a, b, c, x, y, z
<1>3. Less(1) <=> a < x
  BY <1>1
<1>4. Less(2) <=> a = x /\ b < y
  <2>1. 1..1 = {1}
    OBVIOUS
  <2>. QED  BY <1>1, <2>1
<1>5. Less(3) <=> a = x /\ b = y /\ c < z
  <2>1. 1..2 = {1, 2}
    OBVIOUS
  <2>. QED  BY <1>1, <2>1
<1>6. Less(4) <=> a = x /\ b = y /\ c = z /\ i < j
  <2>1. 1..3 = {1, 2, 3}
    OBVIOUS
  <2>. QED  BY <1>1, <2>1
<1>. HIDE DEF Less
<1>. QED  BY <1>2, <1>3, <1>4, <1>5, <1>6 DEF a, b, c, x, y, z

\* The order of the candidates is total: equal keys have equal issue numbers.
LEMMA PrecedesOrders ==
  /\ \A i \in Issues : ~Precedes(i, i)
  /\ \A i, j, k \in Issues : Precedes(i, j) /\ Precedes(j, k) => Precedes(i, k)
  /\ \A i, j \in Issues : i # j => Precedes(i, j) \/ Precedes(j, i)
<1>1. ASSUME NEW i \in Issues PROVE ~Precedes(i, i)
  BY PrecedesByParts, SortKeyNatural
<1>2. ASSUME NEW i \in Issues, NEW j \in Issues, NEW k \in Issues, Precedes(i, j), Precedes(j, k)
      PROVE  Precedes(i, k)
  BY <1>2, PrecedesByParts, SortKeyNatural
<1>3. ASSUME NEW i \in Issues, NEW j \in Issues, i # j PROVE Precedes(i, j) \/ Precedes(j, i)
  BY <1>3, PrecedesByParts, SortKeyNatural
<1>. QED  BY <1>1, <1>2, <1>3

\* Candidates are open issues, each once.
LEMMA CandidatesOnce ==
  ASSUME NEW opened \in SUBSET Issues, IsFiniteSet(opened), NEW labelled, NEW free \in Nat
  PROVE  /\ Candidates(opened, labelled, free) \in Seq(opened)
         /\ OnceEach(Candidates(opened, labelled, free))
<1>. DEFINE S == {i \in opened : IsReady(Labels(i, labelled))}
            R == {x \in S \X S : Precedes(x[1], x[2])}
            e == Sorted(S, Precedes)
            before == [x \in S |-> Cardinality({y \in S : Precedes(y, x)})]
            L == IF Len(e) < 4 * free THEN Len(e) ELSE 4 * free
<1>1. S \in SUBSET opened /\ IsFiniteSet(S)
  <2>1. S \in SUBSET opened
    OBVIOUS
  <2>. HIDE DEF S
  <2>. QED  BY <2>1, FS_Subset
<1>2. Candidates(opened, labelled, free) = SubSeq(e, 1, L)
  BY DEF Candidates
<1>. HIDE DEF S
<1>3. \A x, y \in S : <<x, y>> \in R <=> Precedes(x, y)
  OBVIOUS
<1>4. Orders(R, S)
  BY <1>1, <1>3, PrecedesOrders DEF Orders
<1>5. \A x \in S : before[x] = Cardinality(Below(R, S, x))
  <2>. SUFFICES ASSUME NEW x \in S PROVE {y \in S : Precedes(y, x)} = Below(R, S, x)
    BY Zenon
  <2>. QED  BY <1>3 DEF Below
<1>6. \A n \in 1..Cardinality(S) :
        (\E x \in S : before[x] = n - 1) => e[n] \in S /\ before[e[n]] = n - 1
  BY DEF Sorted
<1>7. e = [n \in 1..Cardinality(S) |-> e[n]]
  BY DEF Sorted
<1>. HIDE DEF R, e, before
<1>8. /\ Cardinality(S) \in Nat /\ \A n \in 1..Cardinality(S) : e[n] \in S
      /\ \A m, n \in 1..Cardinality(S) : m < n => <<e[m], e[n]>> \in R
  BY <1>1, <1>4, <1>5, <1>6, Sorts
<1>9. e \in [1..Cardinality(S) -> S]
  BY <1>7, <1>8
<1>10. OnceEach(e)
  BY <1>4, <1>8, <1>9, OrderedOnce
<1>11. e \in Seq(opened) /\ Len(e) \in Nat /\ DOMAIN e = 1..Len(e)
  BY <1>1, <1>8, <1>9
<1>12. L \in 0..Len(e)
  BY <1>11
<1>. HIDE DEF L
<1>13. SubSeq(e, 1, L) \in Seq(opened) /\ OnceEach(SubSeq(e, 1, L))
  BY <1>10, <1>11, <1>12 DEF OnceEach
<1>. QED  BY <1>2, <1>13

\* The queue of one pass: mergeable pull requests, each once, that touch no
\* common file.
Apart(w) == \A m, n \in DOMAIN w : m # n => w[m].files \cap w[n].files = {}
\* MergeQueue returns such a queue.
LEMMA QueueApart ==
  \A S, closed :
    /\ IsFiniteSet(S)
    /\ \A q \in S : q.number \in Nat
    /\ \A q, r \in S : q.number = r.number => q = r
    => /\ MergeQueue(S, closed) \in Seq(S)
       /\ OnceEach(MergeQueue(S, closed)) /\ Apart(MergeQueue(S, closed))
       /\ \A n \in DOMAIN MergeQueue(S, closed) : Mergeable(MergeQueue(S, closed)[n], closed)
<1>0. SUFFICES ASSUME NEW S, NEW closed, IsFiniteSet(S),
                      \A q \in S : q.number \in Nat,
                      \A q, r \in S : q.number = r.number => q = r
               PROVE  /\ MergeQueue(S, closed) \in Seq(S)
                      /\ OnceEach(MergeQueue(S, closed)) /\ Apart(MergeQueue(S, closed))
                      /\ \A n \in DOMAIN MergeQueue(S, closed) :
                           Mergeable(MergeQueue(S, closed)[n], closed)
  BY Zenon
<1>. DEFINE R == {x \in S \X S : x[1].number < x[2].number}
            e == Sorted(S, LAMBDA q, r : q.number < r.number)
            before == [x \in S |-> Cardinality({y \in S : y.number < x.number})]
            L == Len(e)
            Joins(n, w) == /\ Mergeable(e[n], closed)
                           /\ \A m \in DOMAIN w : e[n].files \cap w[m].files = {}
            step == [x \in (1..L) \X Seq(S) |->
                       IF Joins(x[1], x[2]) THEN Append(x[2], e[x[1]]) ELSE x[2]]
            IsQueue(f) == f = [n \in 0..L |->
                                 IF n = 0 THEN << >>
                                 ELSE IF Joins(n, f[n-1]) THEN Append(f[n-1], e[n]) ELSE f[n-1]]
            queue == CHOOSE f : IsQueue(f)
<1>f. IsFiniteSet(S)
  BY <1>0
<1>1. \A x, y \in S : <<x, y>> \in R <=> x.number < y.number
  OBVIOUS
<1>2. Orders(R, S)
  BY <1>0, <1>1 DEF Orders
<1>3. \A x \in S : before[x] = Cardinality(Below(R, S, x))
  <2>. SUFFICES ASSUME NEW x \in S PROVE {y \in S : y.number < x.number} = Below(R, S, x)
    BY Zenon
  <2>. QED  BY <1>1 DEF Below
<1>4. \A n \in 1..Cardinality(S) :
        (\E x \in S : before[x] = n - 1) => e[n] \in S /\ before[e[n]] = n - 1
  BY DEF Sorted
<1>5. e = [n \in 1..Cardinality(S) |-> e[n]]
  <2>. DEFINE at(n) == CHOOSE x \in S : Cardinality({y \in S : y.number < x.number}) = n - 1
  <2>1. e = [n \in 1..Cardinality(S) |-> at(n)]
    BY DEF Sorted
  <2>. HIDE DEF at, e
  <2>. QED  BY <2>1
<1>6. MergeQueue(S, closed) = queue[L]
  BY DEF MergeQueue
<1>. HIDE DEF R, e, before, queue
<1>7. /\ Cardinality(S) \in Nat /\ \A n \in 1..Cardinality(S) : e[n] \in S
      /\ \A m, n \in 1..Cardinality(S) : m < n => <<e[m], e[n]>> \in R
  BY <1>f, <1>2, <1>3, <1>4, Sorts
<1>8. e \in [1..Cardinality(S) -> S]
  BY <1>5, <1>7
<1>9. OnceEach(e)
  BY <1>2, <1>7, <1>8, OrderedOnce
<1>10. e \in Seq(S) /\ L \in Nat /\ DOMAIN e = 1..L /\ \A n \in 1..L : e[n] \in S
  BY <1>7, <1>8
<1>. HIDE DEF L, Joins
<1>11. step \in [(1..L) \X Seq(S) -> Seq(S)]
  <2>. SUFFICES ASSUME NEW n \in 1..L, NEW w \in Seq(S)
                PROVE  (IF Joins(n, w) THEN Append(w, e[n]) ELSE w) \in Seq(S)
    OBVIOUS
  <2>. QED  BY <1>10
<1>12. PICK g \in [0..L -> Seq(S)] : g[0] = << >> /\ \A n \in 1..L : g[n] = step[<<n, g[n-1]>>]
  <2>1. << >> \in Seq(S) /\ L \in Nat
    BY <1>10
  <2>. HIDE DEF step
  <2>2. Stepping(L, Seq(S), << >>, step) # {}
    BY <1>11, <2>1, StepByStep
  <2>. QED  BY <2>2 DEF Stepping
<1>14. IsQueue(g)
  <2>1. \A n \in 0..L : g[n] = IF n = 0 THEN << >> ELSE step[<<n, g[n-1]>>]
    <3>. HIDE DEF step
    <3>. QED  BY <1>10, <1>12
  <2>2. ASSUME NEW n \in 0..L, n # 0
        PROVE  step[<<n, g[n-1]>>] = IF Joins(n, g[n-1]) THEN Append(g[n-1], e[n]) ELSE g[n-1]
    <3>1. n \in 1..L /\ g[n-1] \in Seq(S)
      BY <1>10, <2>2
    <3>. QED  BY <3>1
  <2>3. \A n \in 0..L : g[n] = IF n = 0 THEN << >>
                               ELSE IF Joins(n, g[n-1]) THEN Append(g[n-1], e[n]) ELSE g[n-1]
    <3>. HIDE DEF step
    <3>. QED  BY <2>1, <2>2
  <2>. HIDE DEF step
  <2>. QED  BY <2>3
<1>15. IsQueue(queue)
  <2>. HIDE DEF IsQueue
  <2>. QED  BY <1>14 DEF queue
<1>16. \A n \in 0..L : queue[n] = IF n = 0 THEN << >>
                                  ELSE IF Joins(n, queue[n-1]) THEN Append(queue[n-1], e[n])
                                  ELSE queue[n-1]
  BY <1>15
<1>. HIDE DEF step, IsQueue
<1>. DEFINE From(n, w) ==
              /\ w \in Seq(S) /\ OnceEach(w) /\ Apart(w)
              /\ \A m \in DOMAIN w : /\ Mergeable(w[m], closed)
                                     /\ \E k \in 1..n : w[m] = e[k]
            Good == {n \in 0..L : From(n, queue[n])}
<1>17. 0 \in Good
  <2>1. 0 \in 0..L /\ queue[0] = << >>
    BY <1>10, <1>16
  <2>2. From(0, << >>)
    BY DEF OnceEach, Apart
  <2>. HIDE DEF From
  <2>. QED  BY <2>1, <2>2
<1>18. ASSUME NEW n \in 1..L, n - 1 \in Good PROVE n \in Good
  <2>. DEFINE v == queue[n-1]
  <2>1. From(n - 1, v) /\ n \in Nat /\ n \in 0..L
    BY <1>10, <1>18
  <2>2. queue[n] = IF Joins(n, v) THEN Append(v, e[n]) ELSE v
    BY <1>16, <2>1
  <2>. HIDE DEF v
  <2>3. From(n, v)
    BY <2>1
  <2>4. ASSUME Joins(n, v) PROVE From(n, Append(v, e[n]))
    <3>. DEFINE w == Append(v, e[n])
    <3>1. /\ v \in Seq(S) /\ w \in Seq(S) /\ Len(w) = Len(v) + 1 /\ e[n] \in S
          /\ DOMAIN v = 1..Len(v) /\ DOMAIN w = 1..Len(w) /\ Len(v) \in Nat
          /\ w[Len(w)] = e[n] /\ \A m \in 1..Len(v) : w[m] = v[m]
      BY <1>10, <2>1
    <3>2. \A m \in 1..Len(v) : v[m] # e[n]
      <4>1. \A k \in 1..n-1 : e[k] # e[n]
        BY <1>9, <1>10, <2>1 DEF OnceEach
      <4>. QED  BY <2>1, <3>1, <4>1
    <3>3. Mergeable(e[n], closed) /\ \A m \in 1..Len(v) : e[n].files \cap v[m].files = {}
      BY <2>4, <3>1 DEF Joins
    <3>. HIDE DEF w
    <3>4. OnceEach(w)
      BY <2>1, <3>1, <3>2 DEF OnceEach
    <3>5. Apart(w)
      <4>. SUFFICES ASSUME NEW m \in DOMAIN w, NEW k \in DOMAIN w, m # k
                    PROVE  w[m].files \cap w[k].files = {}
        BY DEF Apart
      <4>1. CASE m \in DOMAIN v /\ k \in DOMAIN v
        BY <2>1, <3>1, <4>1 DEF Apart
      <4>2. CASE m \in DOMAIN v /\ k \notin DOMAIN v
        BY <3>1, <3>3, <4>2
      <4>3. CASE m \notin DOMAIN v /\ k \in DOMAIN v
        BY <3>1, <3>3, <4>3
      <4>4. ~(m \notin DOMAIN v /\ k \notin DOMAIN v)
        BY <3>1
      <4>. QED  BY <4>1, <4>2, <4>3, <4>4
    <3>6. \A m \in DOMAIN w : Mergeable(w[m], closed) /\ \E k \in 1..n : w[m] = e[k]
      BY <2>1, <2>3, <3>1, <3>3
    <3>. QED  BY <3>1, <3>4, <3>5, <3>6 DEF w
  <2>. HIDE DEF From
  <2>. QED  BY <2>1, <2>2, <2>3, <2>4
<1>19. L \in Good
  <2>1. Good = 0..L
    <3>. HIDE DEF From
    <3>1. Good \in SUBSET (0..L)
      OBVIOUS
    <3>. HIDE DEF Good
    <3>. QED  BY <1>10, <1>17, <1>18, <3>1, HandedOn
  <2>. QED  BY <1>10, <2>1
<1>. QED  BY <1>6, <1>19

-----------------------------------------------------------------------------
(* Types, births and queues.                                                *)

Supervising == {p \in Procs : kind[p] \in Supervisors}
Merging == {p \in Procs : kind[p] \in Mergers}
Launching == {"prepare", "claim", "label", "launch"}
Batch == {"snapshot", "pulls", "states", "consider"} \cup Launching

\* A process that was never started is nowhere known; a worker's branch is the
\* one of its issue; no two open pull requests have one number.
Started == {pid \in Pids : child[pid] # NoChild}
Sound ==
  /\ IsFiniteSet(Started) /\ IsFiniteSet(open) /\ IsFiniteSet(prs) /\ IsFiniteSet(trees)
  /\ alive \subseteq Started
  /\ \A pid \in Pids \ Started :
       file[pid] = "absent" /\ \A p \in Procs : mem[p][pid] = "absent"
  /\ \A pid \in Pids : child[pid].issue # NoIssue => child[pid].branch = BranchFor(child[pid].issue)
  /\ \A q, r \in prs : q.number = r.number => q = r

\* What a pass has read is finite, one record for a number.
Distinct(S) == IsFiniteSet(S) /\ \A v, w \in S : v.number = w.number => v = w

\* Who merges; what a batch still has to launch are issues, each once; what a
\* pass still has to merge are numbers, each once; and a worktree is on its way.
Queued ==
  \A p \in Procs :
    /\ pc[p] \in {"list", "queue", "merge"} => p \in Merging
    /\ p \in Supervising /\ pc[p] \in Batch => Members(todo[p]) \subseteq Issues /\ OnceEach(todo[p])
    /\ p \in Supervising /\ pc[p] \in Launching => todo[p] # << >> /\ slots[p] > 0
    /\ pc[p] = "queue" => Distinct(snap[p].prs)
    /\ pc[p] = "merge" => OnceEach(todo[p])
    /\ pc[p] \in {"ancestor", "drop"} => todo[p] # << >>

Base == TypeOK /\ Sound /\ Queued

\* The rest of a queue.
LEMMA Rest ==
  ASSUME NEW s \in Seq(Nat), s # << >>
  PROVE  /\ Head(s) \in Members(s) /\ Tail(s) \in Seq(Nat)
         /\ Members(Tail(s)) \subseteq Members(s)
         /\ OnceEach(s) => OnceEach(Tail(s)) /\ Head(s) \notin Members(Tail(s))
<1>1. /\ Len(s) \in Nat /\ Len(s) # 0 /\ DOMAIN s = 1..Len(s) /\ Head(s) = s[1]
      /\ Tail(s) \in Seq(Nat) /\ Len(Tail(s)) = Len(s) - 1 /\ DOMAIN Tail(s) = 1..(Len(s) - 1)
      /\ \A n \in 1..(Len(s) - 1) : Tail(s)[n] = s[n + 1]
  OBVIOUS
<1>. QED  BY SMTT(30), <1>1 DEF Members, OnceEach

\* A refreshed copy is a copy.
LEMMA RefreshType ==
  \A runs \in [Pids -> Statuses] : Refresh(runs) \in [Pids -> Statuses]
BY DEF Refresh, Statuses

\* A free process number, where there is one, is the next.
LEMMA FreePid ==
  ASSUME \E pid \in Pids : child[pid] = NoChild
  PROVE  NextPid \in Pids /\ child[NextPid] = NoChild
<1>. DEFINE T == {pid \in Pids : child[pid] = NoChild}
<1>1. T \in SUBSET Nat /\ T # {}
  BY ScenarioAssumption
<1>2. \E pid \in T : \A q \in T : pid <= q
  <2>. HIDE DEF T
  <2>. QED  BY <1>1, Least
<1>3. \E pid \in Pids : child[pid] = NoChild /\ \A q \in Pids : child[q] = NoChild => pid <= q
  BY <1>2
<1>. QED  BY <1>3 DEF NextPid

\* An issue's branch is a branch.
LEMMA BranchForIssue ==
  ASSUME TypeOK, NEW i \in Issues
  PROVE  BranchFor(i) \in Branches /\ BranchFor(i) # NoBranch
BY ScenarioAssumption, PlanningAssumption DEF TypeOK, BranchFor, branchArg, Branches, NoBranch

\* What a snapshot reads is what SnapRecord says.
LEMMA ViewTypes ==
  ASSUME TypeOK
  PROVE  /\ \A runs \in [Pids -> Statuses] : Records(runs) \subseteq RunRecord
         /\ \A unread : PrView(unread) \subseteq PrRecord
         /\ WorktreeView \subseteq [branch : Branches, files : SUBSET AllFiles]
<1>1. \A b \in Branches : commits[b] \subseteq AllFiles /\ commits[b] \cup dirty[b] \subseteq AllFiles
  BY DEF TypeOK
<1>2. WorktreeView \subseteq [branch : Branches, files : SUBSET AllFiles]
  BY <1>1 DEF TypeOK, WorktreeView
<1>3. ASSUME NEW unread, NEW v \in PrView(unread) PROVE v \in PrRecord
  <2>1. PICK q \in prs :
          v = [number |-> q.number, branch |-> q.branch, gate |-> q.gate, read |-> q.number \notin unread,
               closes |-> IF q.number \in unread THEN {} ELSE q.closes,
               depends |-> IF q.number \in unread THEN {} ELSE q.depends,
               files |-> IF q.number \in unread THEN {} ELSE commits[q.branch]]
    BY <1>3 DEF PrView
  <2>2. /\ q.number \in PrNumbers /\ q.branch \in Branches /\ q.gate \in Gates
        /\ q.closes \subseteq Issues /\ q.depends \subseteq Issues /\ commits[q.branch] \subseteq AllFiles
    BY <1>1 DEF TypeOK, PullRequest
  <2>3. (q.number \notin unread) \in BOOLEAN
    OBVIOUS
  <2>. QED  BY <2>1, <2>2, <2>3 DEF PrRecord
<1>4. ASSUME NEW runs \in [Pids -> Statuses] PROVE Records(runs) \subseteq RunRecord
  <2>. SUFFICES ASSUME NEW q \in Pids, child[q].issue # NoIssue
                PROVE  [issue |-> child[q].issue, branch |-> child[q].branch, status |-> runs[q],
                        labels |-> LabelsOf[child[q].issue]] \in RunRecord
    BY DEF Records
  <2>1. child[q].issue \in Issues /\ child[q].branch \in Branches \cup {NoBranch}
    BY DEF TypeOK
  <2>2. LabelsOf[child[q].issue] \in SUBSET AllLabels
    BY <2>1 DEF AllLabels
  <2>. QED  BY <2>1, <2>2 DEF RunRecord
<1>. QED  BY <1>2, <1>3, <1>4

\* What a pass reads of an open pull request.
ViewOf(q, unread) ==
  [number |-> q.number, branch |-> q.branch, gate |-> q.gate, read |-> q.number \notin unread,
   closes |-> IF q.number \in unread THEN {} ELSE q.closes,
   depends |-> IF q.number \in unread THEN {} ELSE q.depends,
   files |-> IF q.number \in unread THEN {} ELSE commits[q.branch]]
LEMMA Viewed ==
  \A unread :
    /\ PrView(unread) = {ViewOf(q, unread) : q \in prs}
    /\ \A q \in prs :
         /\ ViewOf(q, unread).number = q.number
         /\ q.number \notin unread => /\ ViewOf(q, unread).closes = q.closes
                                     /\ ViewOf(q, unread).depends = q.depends
         /\ q.number \in unread => ViewOf(q, unread).read = FALSE
<1>. TAKE unread
<1>1. PrView(unread) = {ViewOf(q, unread) : q \in prs}
  BY DEF PrView, ViewOf
<1>2. ASSUME NEW q \in prs
      PROVE  /\ ViewOf(q, unread).number = q.number
             /\ q.number \notin unread => /\ ViewOf(q, unread).closes = q.closes
                                         /\ ViewOf(q, unread).depends = q.depends
             /\ q.number \in unread => ~ViewOf(q, unread).read
  BY DEF ViewOf
<1>3. ASSUME NEW q \in prs, q.number \in unread PROVE ViewOf(q, unread).read = FALSE
  BY <1>3, Zenon DEF ViewOf
<1>. QED  BY <1>1, <1>2, <1>3

\* The pull requests as a pass sees them.
LEMMA ViewOnce ==
  ASSUME TypeOK, Sound, NEW unread
  PROVE  Distinct(PrView(unread))
<1>1. /\ PrView(unread) = {ViewOf(q, unread) : q \in prs}
      /\ \A q \in prs : ViewOf(q, unread).number = q.number
  BY Viewed
<1>2. IsFiniteSet(prs) /\ \A q, r \in prs : q.number = r.number => q = r
  BY DEF Sound
<1>3. IsFiniteSet(PrView(unread))
  <2>. DEFINE seen == [q \in prs |-> ViewOf(q, unread)]
  <2>1. seen \in Surjection(prs, PrView(unread))
    BY <1>1 DEF Surjection
  <2>. HIDE DEF seen
  <2>. QED  BY <1>2, <2>1, FS_Surjection
<1>. QED  BY <1>1, <1>2, <1>3 DEF Distinct

\* The numbers of a queue.
NumbersOf(w) == [n \in DOMAIN w |-> w[n].number]
\* What a pass will merge are numbers of pull requests it has read, each once.
LEMMA QueueTypes ==
  ASSUME NEW S \in SUBSET PrRecord, Distinct(S), NEW closed
  PROVE  /\ NumbersOf(MergeQueue(S, closed)) \in Seq(Nat)
         /\ OnceEach(NumbersOf(MergeQueue(S, closed)))
<1>. DEFINE queue == MergeQueue(S, closed)
<1>0. IsFiniteSet(S) /\ (\A q \in S : q.number \in Nat) /\ \A q, r \in S : q.number = r.number => q = r
  BY ScenarioAssumption DEF Distinct, PrRecord
<1>1. queue \in Seq(S) /\ OnceEach(queue)
  BY <1>0, QueueApart
<1>. HIDE DEF queue
<1>2. Len(queue) \in Nat /\ DOMAIN queue = 1..Len(queue) /\ \A n \in DOMAIN queue : queue[n] \in S
  BY <1>1
<1>3. NumbersOf(queue) \in Seq(Nat) /\ DOMAIN NumbersOf(queue) = DOMAIN queue
  BY <1>0, <1>2 DEF NumbersOf
<1>4. OnceEach(NumbersOf(queue))
  BY <1>0, <1>1, <1>2 DEF OnceEach, NumbersOf
<1>. QED  BY <1>3, <1>4 DEF queue

\* The queues of `stop` and `cleanup` are sequences of numbers.
LEMMA FiniteSets ==
  ASSUME TypeOK, Sound, NEW p \in Procs, NEW i, NEW dirt
  PROVE  /\ Sorted({pid \in Active(mem[p]) : i = NoIssue \/ child[pid].issue = i}, <) \in Seq(Nat)
         /\ Sorted(RemovableWorktrees(trees, commits, dirt), <) \in Seq(Nat)
<1>1. ASSUME NEW S, S \subseteq Nat, IsFiniteSet(S) PROVE Sorted(S, <) \in Seq(Nat)
  <2>. DEFINE s == Sorted(S, <)
  <2>1. s \in Seq(S)
    BY <1>1, SortedNumbers
  <2>. HIDE DEF s
  <2>2. s = [n \in 1..Len(s) |-> s[n]] /\ Len(s) \in Nat /\ \A n \in 1..Len(s) : s[n] \in S
    BY <2>1
  <2>3. \A n \in 1..Len(s) : s[n] \in Nat
    BY <1>1, <2>2
  <2>4. s \in Seq(Nat)
    BY <2>2, <2>3
  <2>. QED  BY <2>4 DEF s
<1>2. Active(mem[p]) \subseteq Started
  BY DEF Active, Sound
<1>. DEFINE T == {pid \in Active(mem[p]) : i = NoIssue \/ child[pid].issue = i}
            U == RemovableWorktrees(trees, commits, dirt)
<1>3. T \subseteq Started /\ T \subseteq Nat
  BY <1>2, ScenarioAssumption DEF Active
<1>4. U \subseteq trees /\ U \subseteq Nat
  BY PlanningAssumption DEF TypeOK, RemovableWorktrees, Branches
<1>. HIDE DEF T, U
<1>5. IsFiniteSet(T) /\ IsFiniteSet(U)
  BY <1>3, <1>4, FS_Subset DEF Sound
<1>6. Sorted(T, <) \in Seq(Nat)
  BY <1>1, <1>3, <1>5
<1>7. Sorted(U, <) \in Seq(Nat)
  BY <1>1, <1>4, <1>5
<1>. QED  BY <1>6, <1>7 DEF T, U

ByCommand(p) == Start(p) \/ Save(p) \/ Abort(p) \/ Supervise(p) \/ Converge(p) \/ Control(p)

\* The scenario stays what it is.
LEMMA Fixed ==
  ASSUME [Next]_vars
  PROVE  /\ scenario' = scenario /\ kind' = kind /\ Procs' = Procs /\ branchArg' = branchArg
         /\ MaxWorkers' = MaxWorkers /\ Supervising' = Supervising /\ Merging' = Merging
<1>1. scenario' = scenario
  BY ZenonT(60) DEF Next, vars, Start, Save, Abort, Supervise, Converge, Control, Worker, Regate, CloseIssue,
     Round, Fetch, Snapshot, SnapshotPrs, SnapshotStates, Consider, Prepare, ClaimComment, ClaimLabel,
     Launch, LaunchNowhere, List, ListFails, Queue, Merge, MergeRefused, MergeDone, ChooseTargets, Signal,
     PmRound, LaunchPm, ReadForCleanup, CheckStatus, CheckMerged, RemoveWorktree, Unclaim, Edit, Commit,
     OpenPr, Exit
<1>. QED  BY <1>1 DEF kind, Procs, branchArg, MaxWorkers, Supervising, Merging

\* The scenario is one of those assumed.
LEMMA ScenarioTypes ==
  ASSUME TypeOK
  PROVE  /\ MaxWorkers \in Nat \ {0} /\ branchArg \in {NoBranch, Given} /\ "nobody" \notin Procs
         /\ \A p \in Procs : kind[p] \in Kinds
         /\ Branches \subseteq Nat \ {0} /\ Issues \subseteq Branches /\ Pids \subseteq Nat \ {0}
BY ScenarioAssumption, PlanningAssumption
   DEF TypeOK, MaxWorkers, branchArg, Procs, kind, Branches

\* The two halves of the types.
CommandsOK ==
  /\ pc \in [Procs -> Places] /\ mem \in [Procs -> [Pids -> Statuses]]
  /\ todo \in [Procs -> Seq(Nat)] /\ slots \in [Procs -> Nat] /\ rounds \in [Procs -> Nat]
  /\ snap \in [Procs -> SnapRecord]
WorldOK ==
  /\ file \in [Pids -> Statuses] /\ alive \subseteq Pids
  /\ child \in [Pids -> [issue : Issues \cup {NoIssue}, branch : Branches \cup {NoBranch},
                         by : Procs \cup {"nobody"}]]
  /\ claimed \subseteq Issues /\ claimOn \in [Issues -> Branches \cup {NoBranch}]
  /\ open \subseteq Issues /\ prs \subseteq PullRequest /\ merged \subseteq MergeRecord
  /\ trees \subseteq Branches /\ evicted \subseteq Pids /\ late \subseteq Branches
  /\ dirty \in [Branches -> SUBSET AllFiles] /\ commits \in [Branches -> SUBSET AllFiles]
  /\ faults \in Nat

\* The types of what commands know and of the rest.
LEMMA Halves == TypeOK <=> scenario \in Scenarios /\ CommandsOK /\ WorldOK
BY DEF TypeOK, CommandsOK, WorldOK

\* What is about to be launched.
LEMMA Heads ==
  ASSUME TypeOK, Queued, NEW p \in Procs
  PROVE  /\ p \in Supervising /\ pc[p] \in Launching =>
              /\ todo[p] # << >> /\ Head(todo[p]) \in Issues
              /\ BranchFor(Head(todo[p])) \in Branches
         /\ todo[p] # << >> => Tail(todo[p]) \in Seq(Nat)
<1>1. todo[p] \in Seq(Nat)
  BY DEF TypeOK
<1>2. ASSUME todo[p] # << >> PROVE Tail(todo[p]) \in Seq(Nat) /\ Head(todo[p]) \in Members(todo[p])
  BY <1>1, <1>2, Rest
<1>3. ASSUME p \in Supervising, pc[p] \in Launching PROVE todo[p] # << >> /\ Members(todo[p]) \subseteq Issues
  BY <1>3 DEF Queued, Batch
<1>. QED  BY <1>2, <1>3, BranchForIssue

\* Copies of what has been read stay such copies.
LEMMA SnapTypes ==
  ASSUME NEW s \in SnapRecord
  PROVE  /\ \A A \in SUBSET RunRecord, W \in SUBSET [branch : Branches, files : SUBSET AllFiles] :
              [s EXCEPT !.active = A, !.worktrees = W] \in SnapRecord
         /\ \A Q \in SUBSET PrRecord : [s EXCEPT !.prs = Q] \in SnapRecord
         /\ \A C \in SUBSET Issues : [s EXCEPT !.closed = C] \in SnapRecord
         /\ \A Q \in SUBSET PrRecord, M \in SUBSET PrNumbers :
              [s EXCEPT !.prs = Q, !.merged = M] \in SnapRecord
         /\ \A K \in SUBSET Issues : [s EXCEPT !.claims = K] \in SnapRecord
         /\ s.claims \subseteq Issues /\ s.prs \subseteq PrRecord /\ s.merged \subseteq PrNumbers
BY DEF SnapRecord

\* The number of runs a command counts.
LEMMA Counted ==
  ASSUME TypeOK, Sound, NEW p \in Procs
  PROVE  /\ Active(Refresh(mem[p])) \subseteq Active(mem[p]) /\ Active(mem[p]) \subseteq Started
         /\ IsFiniteSet(Active(mem[p])) /\ Cardinality(Active(Refresh(mem[p]))) \in Nat
         /\ Cardinality(Active(mem[p])) \in Nat
         /\ Cardinality(Active(Refresh(mem[p]))) <= Cardinality(Active(mem[p]))
<1>1. Active(Refresh(mem[p])) \subseteq Active(mem[p])
  BY DEF Active, Refresh
<1>2. Active(mem[p]) \subseteq Started
  BY DEF Active, Sound
<1>3. IsFiniteSet(Active(mem[p])) /\ IsFiniteSet(Active(Refresh(mem[p])))
  BY <1>1, <1>2, FS_Subset DEF Sound
<1>. QED  BY <1>1, <1>2, <1>3, FS_Subset, FS_CardinalityType

\* What a command does to its own state.
LEMMA CommandTypes ==
  ASSUME TypeOK, Sound, Queued, [Next]_vars, NEW p \in Procs, ByCommand(p)
  PROVE  CommandsOK'
<1>0. /\ CommandsOK /\ Procs' = Procs /\ MaxWorkers \in Nat /\ kind[p] \in Kinds
      /\ \A runs \in [Pids -> Statuses] : Refresh(runs) \in [Pids -> Statuses]
      /\ file \in [Pids -> Statuses] /\ alive \subseteq Pids
  BY Fixed, ScenarioTypes, RefreshType, Halves DEF WorldOK
<1>a. NoSnap \in SnapRecord /\ None \in [Pids -> Statuses]
  BY DEF NoSnap, SnapRecord, None, Statuses
<1>t. \A q \in Procs : todo[q] # << >> => Tail(todo[q]) \in Seq(Nat)
  BY Heads
<1>. USE DEF AtStep, Goto, CommandsOK, Places
<1>1. CASE Start(p)
  <2>. DEFINE next == CASE kind[p] \in Supervisors \cup {"pm"} -> "round" [] kind[p] = "merge" -> "list"
                        [] kind[p] = "stop" -> "choose" [] kind[p] = "status" -> "save"
                        [] kind[p] = "cleanup" -> "read"
  <2>1. next \in Places
    BY <1>0 DEF Kinds, Supervisors
  <2>. HIDE DEF next
  <2>2. pc' = [pc EXCEPT ![p] = next]
    BY <1>1 DEF Start, next
  <2>3. pc' \in [Procs -> Places]
    BY <1>0, <2>1, <2>2
  <2>4. mem' \in [Procs -> [Pids -> Statuses]]
    BY <1>0, <1>1 DEF Start
  <2>. QED  BY <1>0, <1>1, <2>3, <2>4 DEF Start
<1>2. CASE Save(p)
  <2>1. \E next \in Places : pc' = [pc EXCEPT ![p] = next]
    BY <1>2 DEF Save
  <2>. QED  BY <1>0, <1>2, <1>a, <2>1 DEF Save
<1>3. CASE Abort(p)
  BY <1>0, <1>3, <1>a DEF Abort
<1>4. CASE Round(p)
  <2>. DEFINE now == Refresh(mem[p])
              used == Cardinality(Active(now))
  <2>1. now \in [Pids -> Statuses] /\ used \in Nat
    BY <1>0, Counted
  <2>2. slots' = [slots EXCEPT ![p] = IF used < MaxWorkers THEN MaxWorkers - used ELSE 0]
    BY <1>4 DEF Round
  <2>3. mem' = [mem EXCEPT ![p] = now] /\ \E next \in Places : pc' = [pc EXCEPT ![p] = next]
    BY <1>4 DEF Round
  <2>. HIDE DEF now, used
  <2>4. slots' \in [Procs -> Nat]
    BY <1>0, <2>1, <2>2
  <2>. QED  BY <1>0, <1>4, <2>1, <2>3, <2>4 DEF Round
<1>5. CASE Fetch(p)
  <2>. DEFINE next == Candidates(open, claimed, slots[p])
  <2>1. next \in Seq(open)
    BY <1>0, CandidatesOnce DEF Sound, WorldOK, TypeOK
  <2>2. todo' = [todo EXCEPT ![p] = next] /\ \E place \in Places : pc' = [pc EXCEPT ![p] = place]
    BY <1>5 DEF Fetch
  <2>. HIDE DEF next
  <2>3. next = [n \in 1..Len(next) |-> next[n]] /\ Len(next) \in Nat /\ \A n \in 1..Len(next) : next[n] \in open
    BY <2>1
  <2>4. \A n \in 1..Len(next) : next[n] \in Nat
    BY <2>3, PlanningAssumption DEF TypeOK
  <2>5. next \in Seq(Nat)
    BY <2>3, <2>4
  <2>. QED  BY <1>0, <1>5, <2>2, <2>5 DEF Fetch
<1>6. CASE Snapshot(p)
  <2>1. PICK listed \in BOOLEAN :
          snap' = [snap EXCEPT ![p] = [@ EXCEPT
            !.active = {r \in Records(Refresh(mem[p])) : r.status = "running"},
            !.worktrees = IF listed THEN WorktreeView ELSE {}]]
    BY <1>6 DEF Snapshot
  <2>2. /\ {r \in Records(Refresh(mem[p])) : r.status = "running"} \subseteq RunRecord
        /\ (IF listed THEN WorktreeView ELSE {}) \subseteq [branch : Branches, files : SUBSET AllFiles]
    BY <1>0, ViewTypes
  <2>3. [snap[p] EXCEPT
            !.active = {r \in Records(Refresh(mem[p])) : r.status = "running"},
            !.worktrees = IF listed THEN WorktreeView ELSE {}] \in SnapRecord
    BY <1>0, <2>2, SnapTypes
  <2>4. snap' \in [Procs -> SnapRecord]
    BY <1>0, <2>1, <2>3
  <2>. QED  BY <1>0, <1>6, <2>4 DEF Snapshot
<1>24. CASE SnapshotPrs(p)
  <2>1. snap' = snap \/ \E unread : snap' = [snap EXCEPT ![p] = [@ EXCEPT !.prs = PrView(unread)]]
    BY <1>24 DEF SnapshotPrs
  <2>2. \A unread : [snap[p] EXCEPT !.prs = PrView(unread)] \in SnapRecord
    BY <1>0, ViewTypes, SnapTypes
  <2>3. snap' \in [Procs -> SnapRecord]
    <3>1. ASSUME NEW unread, snap' = [snap EXCEPT ![p] = [@ EXCEPT !.prs = PrView(unread)]]
          PROVE  snap' \in [Procs -> SnapRecord]
      <4>. DEFINE new == [snap[p] EXCEPT !.prs = PrView(unread)]
      <4>1. new \in SnapRecord /\ snap' = [snap EXCEPT ![p] = new]
        BY <1>0, <2>2, <3>1
      <4>. HIDE DEF new
      <4>. QED  BY <1>0, <4>1
    <3>. QED  BY <1>0, <2>1, <3>1
  <2>. QED  BY <1>0, <1>24, <2>3 DEF SnapshotPrs
<1>25. CASE SnapshotStates(p)
  <2>1. PICK closed \in SUBSET Issues : snap' = [snap EXCEPT ![p] = [@ EXCEPT !.closed = closed]]
    BY <1>25 DEF SnapshotStates
  <2>2. [snap[p] EXCEPT !.closed = closed] \in SnapRecord
    BY <1>0, SnapTypes
  <2>3. snap' \in [Procs -> SnapRecord]
    BY <1>0, <2>1, <2>2
  <2>. QED  BY <1>0, <1>25, <2>3 DEF SnapshotStates
<1>7. CASE Consider(p)
  <2>1. mem' \in [Procs -> [Pids -> Statuses]] /\ pc' \in [Procs -> Places]
    BY <1>0, <1>7 DEF Consider
  <2>2. todo' = todo \/ (todo[p] # << >> /\ todo' = [todo EXCEPT ![p] = Tail(@)])
    BY <1>7 DEF Consider
  <2>3. todo' \in [Procs -> Seq(Nat)]
    BY <1>0, <1>t, <2>2
  <2>. QED  BY <1>0, <1>7, <2>1, <2>3 DEF Consider
<1>8. CASE Prepare(p)
  BY <1>0, <1>8 DEF Prepare
<1>9. CASE ClaimComment(p)
  BY <1>0, <1>9 DEF ClaimComment
<1>10. CASE ClaimLabel(p)
  BY <1>0, <1>10 DEF ClaimLabel
<1>11. CASE Launch(p)
  <2>1. todo[p] # << >> /\ Tail(todo[p]) \in Seq(Nat)
    BY <1>t, <1>11, Heads DEF Launch, Supervising, Launching
  <2>2. todo' \in [Procs -> Seq(Nat)]
    BY <1>0, <1>11, <2>1 DEF Launch
  <2>3. mem' \in [Procs -> [Pids -> Statuses]]
    BY <1>0, <1>11 DEF Launch, Spawn, Statuses
  <2>4. slots[p] > 0
    BY <1>11 DEF Launch, Queued, Supervising, Launching
  <2>5. slots' \in [Procs -> Nat]
    BY <1>0, <1>11, <2>4 DEF Launch
  <2>. QED  BY <1>0, <1>11, <2>2, <2>3, <2>5 DEF Launch
<1>12. CASE LaunchNowhere(p)
  BY <1>0, <1>12 DEF LaunchNowhere
<1>13. CASE List(p)
  <2>. DEFINE seen == {m.number : m \in merged}
  <2>1. PICK unread : snap' = [snap EXCEPT ![p] = [@ EXCEPT !.prs = PrView(unread), !.merged = seen]]
    BY <1>13 DEF List
  <2>2. [snap[p] EXCEPT !.prs = PrView(unread), !.merged = seen] \in SnapRecord
    <3>1. seen \subseteq PrNumbers /\ PrView(unread) \subseteq PrRecord
      BY <1>0, ViewTypes DEF TypeOK, MergeRecord
    <3>. HIDE DEF seen
    <3>. QED  BY <1>0, <3>1, SnapTypes
  <2>. HIDE DEF seen
  <2>3. snap' \in [Procs -> SnapRecord]
    BY <1>0, <2>1, <2>2
  <2>. QED  BY <1>0, <1>13, <2>3 DEF List
<1>26. CASE ListFails(p)
  BY <1>0, <1>26 DEF ListFails
<1>27. CASE Queue(p)
  <2>1. PICK closed : todo' = [todo EXCEPT ![p] = NumbersOf(MergeQueue(snap[p].prs, closed))]
    BY <1>27 DEF Queue, NumbersOf
  <2>2. Distinct(snap[p].prs) /\ snap[p].prs \subseteq PrRecord
    BY <1>0, <1>27, SnapTypes DEF Queue, Queued
  <2>3. NumbersOf(MergeQueue(snap[p].prs, closed)) \in Seq(Nat)
    BY <2>2, QueueTypes
  <2>. QED  BY <1>0, <1>27, <2>1, <2>3 DEF Queue
<1>14. CASE Merge(p)
  BY <1>0, <1>14, <1>t DEF Merge
<1>15. CASE MergeRefused(p)
  BY <1>0, <1>15 DEF MergeRefused
<1>16. CASE MergeDone(p)
  BY <1>0, <1>16, <1>a DEF MergeDone
<1>17. CASE ChooseTargets(p)
  <2>1. PICK i \in Issues \cup {NoIssue} :
          todo' = [todo EXCEPT ![p] = Sorted({pid \in Active(mem[p]) : i = NoIssue \/ child[pid].issue = i}, <)]
    BY <1>17 DEF ChooseTargets
  <2>2. Sorted({pid \in Active(mem[p]) : i = NoIssue \/ child[pid].issue = i}, <) \in Seq(Nat)
    BY FiniteSets
  <2>3. todo' \in [Procs -> Seq(Nat)]
    BY <1>0, <2>1, <2>2
  <2>. QED  BY <1>0, <1>17, <2>3 DEF ChooseTargets
<1>18. CASE Signal(p)
  <2>1. todo' = todo \/ (todo[p] # << >> /\ todo' = [todo EXCEPT ![p] = Tail(@)])
    BY <1>18 DEF Signal
  <2>2. todo' \in [Procs -> Seq(Nat)]
    BY <1>0, <1>t, <2>1
  <2>3. mem' = mem \/ mem' = [mem EXCEPT ![p][Head(todo[p])] = "stopping"]
    BY <1>18 DEF Signal
  <2>4. mem' \in [Procs -> [Pids -> Statuses]]
    <3>. DEFINE row == [mem[p] EXCEPT ![Head(todo[p])] = "stopping"]
    <3>1. row \in [Pids -> Statuses]
      BY <1>0 DEF Statuses
    <3>2. mem' = mem \/ mem' = [mem EXCEPT ![p] = row]
      BY <2>3
    <3>. HIDE DEF row
    <3>. QED  BY <1>0, <3>1, <3>2
  <2>5. pc' = pc \/ \E next \in Places : pc' = [pc EXCEPT ![p] = next]
    BY <1>18 DEF Signal
  <2>. QED  BY <1>0, <1>18, <2>2, <2>4, <2>5 DEF Signal
<1>19. CASE ReadForCleanup(p)
  <2>1. PICK lost \in {"nothing", "prs", "details", "claims", "worktrees", "status"},
               unread \in SUBSET (Numbers \cup Branches) :
          /\ snap' = [snap EXCEPT ![p].claims =
               IF lost = "claims" THEN {}
               ELSE StaleClaims(claimed, claimOn, Records(mem[p]),
                                IF lost = "prs" THEN {}
                                ELSE PrView(IF lost = "details" THEN unread ELSE {}), Issues \ open)]
          /\ todo' = [todo EXCEPT ![p] =
               IF lost = "worktrees" THEN << >>
               ELSE Sorted(RemovableWorktrees(trees, commits,
                 [b \in Branches |-> IF lost = "status" /\ b \in unread THEN {} ELSE dirty[b]]), <)]
    BY <1>19 DEF ReadForCleanup
  <2>. DEFINE clean == [b \in Branches |-> IF lost = "status" /\ b \in unread THEN {} ELSE dirty[b]]
              plan == Sorted(RemovableWorktrees(trees, commits, clean), <)
              stale == StaleClaims(claimed, claimOn, Records(mem[p]),
                                   IF lost = "prs" THEN {}
                                   ELSE PrView(IF lost = "details" THEN unread ELSE {}), Issues \ open)
              claims == IF lost = "claims" THEN {} ELSE stale
  <2>2. plan \in Seq(Nat)
    <3>. HIDE DEF clean
    <3>. QED  BY FiniteSets
  <2>3. stale \subseteq Issues
    BY DEF StaleClaims, TypeOK
  <2>4. todo' \in [Procs -> Seq(Nat)]
    <3>. HIDE DEF plan, stale
    <3>1. todo' = [todo EXCEPT ![p] = IF lost = "worktrees" THEN << >> ELSE plan]
      BY <2>1, Zenon DEF plan
    <3>. QED  BY <1>0, <2>2, <3>1
  <2>. HIDE DEF plan, stale
  <2>5. [snap[p] EXCEPT !.claims = claims] \in SnapRecord
    BY <1>0, <2>3, SnapTypes
  <2>6. snap' = [snap EXCEPT ![p] = [snap[p] EXCEPT !.claims = claims]]
    BY <1>0, <2>1 DEF stale
  <2>. HIDE DEF claims
  <2>. QED  BY <1>0, <1>19, <2>4, <2>5, <2>6 DEF ReadForCleanup
<1>20. CASE CheckStatus(p)
  <2>1. pc' = pc \/ pc' = [pc EXCEPT ![p] = "ancestor"]
    BY <1>20 DEF CheckStatus
  <2>2. todo' = todo \/ (todo[p] # << >> /\ todo' = [todo EXCEPT ![p] = Tail(@)])
    BY <1>20 DEF CheckStatus
  <2>3. todo' \in [Procs -> Seq(Nat)]
    BY <1>0, <1>t, <2>2
  <2>. QED  BY <1>0, <1>20, <2>1, <2>3 DEF CheckStatus
<1>28. CASE CheckMerged(p)
  <2>1. todo[p] # << >> /\ pc' = [pc EXCEPT ![p] = IF pc'[p] = "drop" THEN "drop" ELSE "remove"]
    BY <1>0, <1>28 DEF CheckMerged, Queued
  <2>2. todo' = todo \/ todo' = [todo EXCEPT ![p] = Tail(@)]
    BY <1>28 DEF CheckMerged
  <2>3. todo' \in [Procs -> Seq(Nat)]
    BY <1>0, <1>t, <2>1, <2>2
  <2>. QED  BY <1>0, <1>28, <2>1, <2>3 DEF CheckMerged
<1>29. CASE RemoveWorktree(p)
  <2>1. todo[p] # << >>
    BY <1>29 DEF RemoveWorktree, Queued
  <2>. QED  BY <1>0, <1>29, <1>t, <2>1 DEF RemoveWorktree
<1>21. CASE Unclaim(p)
  <2>1. snap' = snap \/ \E K \in SUBSET Issues : snap' = [snap EXCEPT ![p] = [snap[p] EXCEPT !.claims = K]]
    <3>1. \A i : snap[p].claims \ {i} \in SUBSET Issues
      BY <1>0, SnapTypes
    <3>. QED  BY <1>0, <1>21, <3>1 DEF Unclaim
  <2>2. snap' \in [Procs -> SnapRecord]
    <3>1. \A K \in SUBSET Issues : [snap[p] EXCEPT !.claims = K] \in SnapRecord
      BY <1>0, SnapTypes
    <3>. QED  BY <1>0, <2>1, <3>1
  <2>3. pc' = pc \/ \E next \in Places : pc' = [pc EXCEPT ![p] = next]
    BY <1>21 DEF Unclaim
  <2>. QED  BY ZenonT(60), <1>0, <1>21, <2>2, <2>3 DEF Unclaim
<1>22. CASE PmRound(p)
  <2>1. mem' \in [Procs -> [Pids -> Statuses]]
    BY <1>0, <1>22 DEF PmRound
  <2>2. \E next \in Places : pc' = [pc EXCEPT ![p] = next]
    BY <1>22 DEF PmRound
  <2>. QED  BY <1>0, <1>22, <2>1, <2>2 DEF PmRound
<1>23. CASE LaunchPm(p)
  BY <1>0, <1>23 DEF LaunchPm, Spawn, Statuses
<1>. QED
  BY <1>1, <1>2, <1>3, <1>4, <1>5, <1>6, <1>7, <1>8, <1>9, <1>10, <1>11, <1>12, <1>13, <1>14,
     <1>15, <1>16, <1>17, <1>18, <1>19, <1>20, <1>21, <1>22, <1>23, <1>24, <1>25, <1>26, <1>27,
     <1>28, <1>29
     DEF ByCommand, Supervise, Converge, Control

\* What a merge records.
LEMMA MergeTypes ==
  ASSUME TypeOK, NEW p \in Procs, NEW q \in prs
  PROVE  /\ MergeOf(q, p) \in MergeRecord
         /\ MergeOf(q, p).number = q.number /\ MergeOf(q, p).seen = snap[p].merged
         /\ MergeOf(q, p).closes = q.closes /\ MergeOf(q, p).depends = q.depends
         /\ MergeOf(q, p).listed = UNION {v.files : v \in {w \in snap[p].prs : w.number = q.number}}
<1>. DEFINE views == {v \in snap[p].prs : v.number = q.number}
            listed == UNION {v.files : v \in views}
            read == \A v \in views : v.read
            m == [number |-> q.number, branch |-> q.branch, closes |-> q.closes, depends |-> q.depends,
                  files |-> commits[q.branch], listed |-> listed, read |-> read, seen |-> snap[p].merged]
<1>1. snap[p] \in SnapRecord /\ snap[p].prs \subseteq PrRecord /\ snap[p].merged \subseteq PrNumbers
  BY SnapTypes DEF TypeOK
<1>2. listed \subseteq AllFiles
  BY <1>1 DEF PrRecord
<1>3. read \in BOOLEAN
  OBVIOUS
<1>4. /\ q.number \in PrNumbers /\ q.branch \in Branches /\ q.closes \subseteq Issues
      /\ q.depends \subseteq Issues /\ commits[q.branch] \subseteq AllFiles
  BY DEF TypeOK, PullRequest
<1>5. MergeOf(q, p) = m
  BY DEF MergeOf
<1>. HIDE DEF listed, read
<1>6. m \in MergeRecord
  BY <1>1, <1>2, <1>3, <1>4 DEF MergeRecord
<1>. QED  BY <1>5, <1>6 DEF listed

\* What a command does to the rest.
LEMMA WorldTypes ==
  ASSUME TypeOK, Sound, Queued, [Next]_vars, NEW p \in Procs, ByCommand(p)
  PROVE  WorldOK'
<1>0. WorldOK /\ CommandsOK /\ Procs' = Procs /\ Issues \subseteq Branches
  BY Fixed, ScenarioTypes, Halves
<1>h. p \in Supervising /\ pc[p] \in Launching =>
        Head(todo[p]) \in Issues /\ BranchFor(Head(todo[p])) \in Branches
  BY Heads
<1>s. ASSUME kind[p] \in Supervisors PROVE p \in Supervising
  BY <1>s DEF Supervising
<1>. USE DEF AtStep, WorldOK, children, github, git
<1>1. CASE \/ Start(p) \/ Abort(p) \/ Round(p) \/ Fetch(p) \/ Snapshot(p) \/ SnapshotPrs(p)
           \/ SnapshotStates(p) \/ Consider(p) \/ LaunchNowhere(p) \/ List(p) \/ ListFails(p) \/ Queue(p)
           \/ MergeRefused(p) \/ MergeDone(p) \/ ChooseTargets(p) \/ Signal(p) \/ PmRound(p)
           \/ ReadForCleanup(p) \/ CheckStatus(p)
  <2>1. faults' = faults \/ faults' = faults + 1
    BY <1>1 DEF Start, Abort, Round, Fetch, Snapshot, SnapshotPrs, SnapshotStates, Consider, LaunchNowhere, List, ListFails, Queue,
       MergeRefused, MergeDone, ChooseTargets, Signal, PmRound, ReadForCleanup,
       CheckStatus, Call, Fails
  <2>2. UNCHANGED <<file, children, github, git>>
    BY <1>1 DEF Start, Abort, Round, Fetch, Snapshot, SnapshotPrs, SnapshotStates, Consider, LaunchNowhere, List, ListFails, Queue,
       MergeRefused, MergeDone, ChooseTargets, Signal, PmRound, ReadForCleanup,
       CheckStatus
  <2>. QED  BY <1>0, <2>1, <2>2
<1>2. CASE Save(p)
  BY <1>0, <1>2 DEF Save, CommandsOK
<1>3. CASE Prepare(p)
  BY <1>0, <1>3, <1>h, <1>s DEF Prepare, Launching
<1>4. CASE ClaimComment(p)
  BY <1>0, <1>4, <1>h, <1>s DEF ClaimComment, Launching
<1>5. CASE ClaimLabel(p)
  BY <1>0, <1>5, <1>h, <1>s DEF ClaimLabel, Launching, Call, Fails
<1>6. CASE Launch(p) \/ LaunchPm(p)
  <2>1. PICK i \in Issues \cup {NoIssue}, b \in Branches \cup {NoBranch} : Spawn(p, i, b)
    BY <1>0, <1>6, <1>h, <1>s DEF Launch, LaunchPm, Launching
  <2>2. NextPid \in Pids /\ child' = [child EXCEPT ![NextPid] = [issue |-> i, branch |-> b, by |-> p]]
        /\ alive' = alive \cup {NextPid}
    BY <2>1, FreePid DEF Spawn
  <2>3. child' \in [Pids -> [issue : Issues \cup {NoIssue}, branch : Branches \cup {NoBranch},
                             by : Procs \cup {"nobody"}]]
    BY <1>0, <2>2
  <2>. QED  BY <1>0, <1>6, <2>2, <2>3 DEF Launch, LaunchPm
<1>7. CASE Merge(p)
  <2>1. UNCHANGED <<file, child, alive, claimed, claimOn, trees, dirty, evicted, late, faults>>
    BY <1>7 DEF Merge
  <2>2. ASSUME NEW q \in prs, prs' = prs \ {q}, open' = open \ q.closes,
               merged' = merged \cup {MergeOf(q, p)}, commits' = [commits EXCEPT ![q.branch] = {}]
        PROVE  WorldOK'
    <3>1. MergeOf(q, p) \in MergeRecord
      BY <1>0, <2>2, MergeTypes DEF CommandsOK
    <3>. QED  BY <1>0, <2>1, <2>2, <3>1
  <2>3. CASE UNCHANGED <<prs, open, merged, commits>>
    BY <1>0, <2>1, <2>3
  <2>. QED  BY <1>7, <2>2, <2>3 DEF Merge
<1>8. CASE CheckMerged(p) \/ RemoveWorktree(p)
  BY <1>0, <1>8 DEF CheckMerged, RemoveWorktree, Fails
<1>9. CASE Unclaim(p)
  BY <1>0, <1>9 DEF Unclaim, Fails
<1>. QED
  BY <1>1, <1>2, <1>3, <1>4, <1>5, <1>6, <1>7, <1>8, <1>9 DEF ByCommand, Supervise, Converge, Control

\* What workers and people do to the types.
LEMMA WorkerTypes ==
  ASSUME TypeOK, Sound, Queued, [Next]_vars,
         UNCHANGED vars \/ (\E pid \in Pids : Worker(pid)) \/ Regate \/ \E i \in Issues : CloseIssue(i)
  PROVE  CommandsOK' /\ WorldOK'
<1>0. WorldOK /\ CommandsOK /\ Procs' = Procs
  BY Fixed, Halves
<1>1. UNCHANGED command
  BY DEF vars, Worker, Edit, Commit, OpenPr, Exit, Regate, CloseIssue
<1>2. CommandsOK'
  BY <1>0, <1>1 DEF CommandsOK, command
<1>. USE DEF WorldOK, children, github, git
<1>3. CASE UNCHANGED vars
  <2>1. UNCHANGED <<file, child, alive>> /\ UNCHANGED <<claimed, claimOn, open, prs, merged>>
        /\ UNCHANGED <<trees, dirty, commits, evicted, late, faults>>
    BY <1>3 DEF vars
  <2>. QED  BY <1>0, <1>2, <2>1
<1>4. ASSUME NEW pid \in Pids, Edit(pid) PROVE WorldOK'
  <2>. DEFINE i == child[pid].issue
  <2>1. i \in Issues /\ Touches[i] \subseteq AllFiles
    BY <1>0, <1>4 DEF Edit, AtWork, AllFiles
  <2>. QED  BY <1>0, <1>4, <2>1 DEF Edit, AtWork
<1>5. ASSUME NEW pid \in Pids, Commit(pid) PROVE WorldOK'
  BY <1>0, <1>5 DEF Commit, AtWork
<1>6. ASSUME NEW pid \in Pids, OpenPr(pid) PROVE WorldOK'
  <2>. DEFINE i == child[pid].issue
              b == child[pid].branch
  <2>1. i \in Issues /\ b \in Branches /\ Cites[i] \subseteq Issues
    BY <1>0, <1>6, PlanningAssumption DEF OpenPr, AtWork
  <2>2. PICK n \in PrNumbers, gate \in {"draft", "red"}, depends \in {{}, Cites[i]} :
          prs' = prs \cup {[number |-> n, branch |-> b, closes |-> {i}, depends |-> depends, gate |-> gate]}
    BY <1>6 DEF OpenPr
  <2>. HIDE DEF i, b
  <2>3. prs' \subseteq PullRequest
    BY <1>0, <2>1, <2>2 DEF PullRequest, Gates
  <2>. QED  BY <1>0, <1>6, <2>3 DEF OpenPr
<1>7. ASSUME NEW pid \in Pids, Exit(pid) PROVE WorldOK'
  BY <1>0, <1>7 DEF Exit
<1>8. CASE Regate
  <2>1. prs' \subseteq PullRequest
    BY <1>0, <1>8 DEF Regate, PullRequest, Gates
  <2>2. UNCHANGED <<file, child, alive>> /\ UNCHANGED <<claimed, claimOn, open, merged>>
        /\ UNCHANGED <<trees, dirty, commits, evicted, late, faults>>
    BY <1>8 DEF Regate
  <2>. QED  BY <1>0, <1>2, <2>1, <2>2
<1>9. ASSUME NEW i \in Issues, CloseIssue(i) PROVE WorldOK'
  BY <1>0, <1>9 DEF CloseIssue
<1>. QED  BY <1>2, <1>3, <1>4, <1>5, <1>6, <1>7, <1>8, <1>9 DEF Worker

\* Every step keeps the types.
LEMMA TypesStep ==
  ASSUME TypeOK, Sound, Queued, [Next]_vars
  PROVE  TypeOK'
<1>1. scenario' \in Scenarios
  BY Fixed DEF TypeOK
<1>2. CommandsOK' /\ WorldOK'
  BY CommandTypes, WorldTypes, WorkerTypes DEF Next, ByCommand
<1>. QED  BY <1>1, <1>2 DEF TypeOK, CommandsOK, WorldOK

\* A step starts at most one process, of a free number.
Absent(pid) == file[pid] = "absent" /\ \A p \in Procs : mem[p][pid] = "absent"
Spawns(p, i) ==
  /\ NextPid \in Pids /\ child[NextPid] = NoChild
  /\ child' = [child EXCEPT ![NextPid] =
                 [issue |-> i, branch |-> IF i = NoIssue THEN NoBranch ELSE BranchFor(i), by |-> p]]
  /\ alive' = alive \cup {NextPid}
  /\ mem' = [mem EXCEPT ![p] = [@ EXCEPT ![NextPid] = "running"]]

\* The two steps that start a process.
LEMMA Spawning ==
  ASSUME NEW p \in Procs
  PROVE  /\ TypeOK /\ Queued /\ Launch(p) =>
              /\ p \in Supervising /\ Head(todo[p]) \in Issues /\ Spawns(p, Head(todo[p]))
         /\ LaunchPm(p) => Spawns(p, NoIssue)
<1>1. ASSUME TypeOK, Queued, Launch(p)
      PROVE  p \in Supervising /\ Head(todo[p]) \in Issues /\ Spawns(p, Head(todo[p]))
  <2>1. p \in Supervising /\ pc[p] \in Launching
    BY <1>1 DEF Launch, AtStep, Supervising, Launching
  <2>2. Head(todo[p]) \in Issues /\ Head(todo[p]) # NoIssue
    BY <1>1, <2>1, Heads, PlanningAssumption DEF NoIssue
  <2>3. Spawn(p, Head(todo[p]), BranchFor(Head(todo[p])))
    BY <1>1 DEF Launch
  <2>. QED  BY <2>1, <2>2, <2>3, FreePid DEF Spawn, Spawns
<1>2. ASSUME LaunchPm(p) PROVE Spawns(p, NoIssue)
  BY <1>2, FreePid DEF LaunchPm, Spawn, Spawns
<1>. QED  BY <1>1, <1>2

\* The steps that start none.
LEMMA Childless ==
  ASSUME TypeOK, Sound, Queued, [Next]_vars, ~\E p \in Procs : Launch(p) \/ LaunchPm(p)
  PROVE  /\ child' = child /\ alive' \subseteq alive
         /\ \A pid \in Pids \ Started : Absent(pid)'
<1>0. /\ Procs' = Procs /\ \A pid \in Pids \ Started : Absent(pid)
      /\ mem \in [Procs -> [Pids -> Statuses]] /\ alive \subseteq Started
      /\ \A runs : \A pid \in Pids : runs[pid] = "absent" => Refresh(runs)[pid] = "absent"
      /\ \A pid \in Pids : None[pid] = "absent"
  BY Fixed DEF Sound, Absent, TypeOK, Refresh, None
<1>. DEFINE Kept == /\ child' = child /\ alive' \subseteq alive
                    /\ \A pid \in Pids \ Started : Absent(pid)'
<1>. USE DEF Absent
<1>1. ASSUME NEW p \in Procs, Start(p) PROVE Kept
  BY <1>0, <1>1 DEF Start, children
<1>2. ASSUME NEW p \in Procs, Save(p) PROVE Kept
  BY <1>0, <1>2 DEF Save, children
<1>3. ASSUME NEW p \in Procs, Abort(p) PROVE Kept
  BY <1>0, <1>3 DEF Abort, children
<1>4. ASSUME NEW p \in Procs, Round(p) \/ Snapshot(p) \/ Consider(p) \/ PmRound(p) PROVE Kept
  <2>1. mem' = [mem EXCEPT ![p] = Refresh(@)] /\ UNCHANGED <<file, child, alive>>
    BY <1>4 DEF Round, Snapshot, Consider, PmRound, children
  <2>. QED  BY <1>0, <2>1
<1>5. ASSUME NEW p \in Procs, Signal(p) PROVE Kept
  <2>1. UNCHANGED <<file, child, alive>>
    BY <1>5 DEF Signal, children
  <2>2. \/ mem' = mem
        \/ Head(todo[p]) \in alive /\ mem' = [mem EXCEPT ![p] = [@ EXCEPT ![Head(todo[p])] = "stopping"]]
    BY <1>5 DEF Signal
  <2>. QED  BY <1>0, <2>1, <2>2
<1>6. CASE UNCHANGED <<file, mem, child>> /\ alive' \subseteq alive
  BY <1>0, <1>6
<1>7. ASSUME NEW p \in Procs,
             \/ Fetch(p) \/ SnapshotPrs(p) \/ SnapshotStates(p) \/ Prepare(p) \/ ClaimComment(p)
             \/ ClaimLabel(p) \/ LaunchNowhere(p) \/ Converge(p) \/ ChooseTargets(p) \/ ReadForCleanup(p)
             \/ CheckStatus(p) \/ CheckMerged(p) \/ RemoveWorktree(p) \/ Unclaim(p)
      PROVE  Kept
  <2>1. UNCHANGED <<file, mem, child, alive>>
    BY <1>7 DEF Fetch, SnapshotPrs, SnapshotStates, Prepare, ClaimComment, ClaimLabel, LaunchNowhere, Converge,
       List, ListFails, Queue, Merge, MergeRefused, MergeDone, ChooseTargets, ReadForCleanup, CheckStatus,
       CheckMerged, RemoveWorktree, Unclaim, children
  <2>. QED  BY <1>6, <2>1
<1>8. ASSUME NEW pid \in Pids, Worker(pid) PROVE Kept
  <2>1. UNCHANGED <<file, mem, child>> /\ alive' \subseteq alive
    BY <1>8 DEF Worker, Edit, Commit, OpenPr, Exit, children, command
  <2>. QED  BY <1>6, <2>1
<1>9. CASE Regate \/ (\E i \in Issues : CloseIssue(i)) \/ UNCHANGED vars
  <2>1. UNCHANGED <<file, mem, child, alive>>
    BY <1>9 DEF Regate, CloseIssue, vars, children, command
  <2>. QED  BY <1>6, <2>1
<1>. HIDE DEF Kept
<1>. QED  BY <1>1, <1>2, <1>3, <1>4, <1>5, <1>7, <1>8, <1>9 DEF Kept, Next, Supervise, Control

\* A step that starts a process keeps the others that never started unknown.
LEMMA SpawnedTypes ==
  ASSUME TypeOK, Sound, [Next]_vars, NEW p \in Procs, NEW i \in Issues \cup {NoIssue}, Spawns(p, i),
         file' = file
  PROVE  /\ Started' = Started \cup {NextPid} /\ NextPid \in Pids \ Started
         /\ alive' \subseteq Started'
         /\ \A pid \in Pids \ Started' : Absent(pid)'
         /\ \A pid \in Pids : child'[pid].issue # NoIssue => child'[pid].branch = BranchFor(child'[pid].issue)
<1>0. /\ Procs' = Procs /\ "nobody" \notin Procs /\ child[NextPid] = NoChild /\ NextPid \in Pids
      /\ mem \in [Procs -> [Pids -> Statuses]] /\ DOMAIN child = Pids
      /\ child' = [child EXCEPT ![NextPid] =
                     [issue |-> i, branch |-> IF i = NoIssue THEN NoBranch ELSE BranchFor(i), by |-> p]]
  BY Fixed, ScenarioTypes DEF TypeOK, Spawns
<1>. DEFINE new == [issue |-> i, branch |-> IF i = NoIssue THEN NoBranch ELSE BranchFor(i), by |-> p]
<1>1. new # NoChild
  <2>1. new.by # NoChild.by
    BY <1>0 DEF NoChild
  <2>. QED  BY <2>1
<1>2. Started' = Started \cup {NextPid} /\ NextPid \in Pids \ Started
  <2>. HIDE DEF new
  <2>1. child' = [child EXCEPT ![NextPid] = new]
    BY <1>0 DEF new
  <2>2. NoChild' = NoChild
    BY DEF NoChild
  <2>. QED  BY <1>0, <1>1, <2>1, <2>2 DEF Started
<1>3. alive' \subseteq Started'
  BY <1>2 DEF Spawns, Sound
<1>4. \A pid \in Pids \ Started' : Absent(pid)'
  BY <1>0, <1>2 DEF Spawns, Sound, Absent
<1>5. \A pid \in Pids : child'[pid].issue # NoIssue => child'[pid].branch = BranchFor(child'[pid].issue)
  BY <1>0 DEF Sound
<1>. QED  BY <1>2, <1>3, <1>4, <1>5

Births ==
  /\ IsFiniteSet(Started) /\ alive \subseteq Started /\ \A pid \in Pids \ Started : Absent(pid)
  /\ \A pid \in Pids : child[pid].issue # NoIssue => child[pid].branch = BranchFor(child[pid].issue)

\* Every step keeps what is known of processes that never started.
LEMMA BirthsStep ==
  ASSUME TypeOK, Sound, Queued, [Next]_vars
  PROVE  Births'
<1>0. Births
  BY DEF Sound, Births, Absent
<1>b. \A i : BranchFor(i)' = BranchFor(i)
  BY Fixed DEF BranchFor
<1>1. ASSUME NEW p \in Procs, Launch(p) \/ LaunchPm(p) PROVE Births'
  <2>1. PICK i \in Issues \cup {NoIssue} : Spawns(p, i)
    BY <1>1, Spawning
  <2>2. file' = file
    BY <1>1 DEF Launch, LaunchPm
  <2>3. IsFiniteSet(Started \cup {NextPid})
    BY <1>0, FS_AddElement DEF Births
  <2>. QED  BY <1>b, <2>1, <2>2, <2>3, SpawnedTypes DEF Births
<1>2. ASSUME ~\E p \in Procs : Launch(p) \/ LaunchPm(p) PROVE Births'
  <2>1. child' = child /\ alive' \subseteq alive /\ \A pid \in Pids \ Started : Absent(pid)'
    BY <1>2, Childless
  <2>2. Started' = Started
    BY <2>1 DEF Started, NoChild
  <2>. QED  BY <1>0, <1>b, <2>1, <2>2 DEF Births
<1>. QED  BY <1>1, <1>2

\* What happens to the pull requests, the open issues and the worktrees.
Github ==
  /\ IsFiniteSet(open) /\ IsFiniteSet(prs) /\ IsFiniteSet(trees)
  /\ \A q, r \in prs : q.number = r.number => q = r

\* Every step keeps GitHub's sets finite, with one open pull request a number.
LEMMA GithubStep ==
  ASSUME TypeOK, Sound, Queued, [Next]_vars
  PROVE  Github'
<1>0. Github
  BY DEF Sound, Github
<1>1. ASSUME NEW p \in Procs, Merge(p) PROVE Github'
  <2>1. prs' \subseteq prs /\ open' \subseteq open /\ trees' = trees
    BY <1>1 DEF Merge
  <2>2. IsFiniteSet(prs') /\ IsFiniteSet(open')
    BY <1>0, <2>1, FS_Subset DEF Github
  <2>. QED  BY <1>0, <2>1, <2>2 DEF Github
<1>2. ASSUME NEW p \in Procs, Prepare(p) PROVE Github'
  <2>1. PICK b : prs' = prs /\ open' = open /\ trees' = trees \cup {b}
    BY <1>2 DEF Prepare, github
  <2>2. IsFiniteSet(trees')
    BY <1>0, <2>1, FS_AddElement DEF Github
  <2>. QED  BY <1>0, <2>1, <2>2 DEF Github
<1>3. ASSUME NEW p \in Procs, RemoveWorktree(p) PROVE Github'
  <2>1. prs' = prs /\ open' = open /\ trees' \subseteq trees
    BY <1>3 DEF RemoveWorktree, github
  <2>2. IsFiniteSet(trees')
    BY <1>0, <2>1, FS_Subset DEF Github
  <2>. QED  BY <1>0, <2>1, <2>2 DEF Github
<1>4. ASSUME NEW pid \in Pids, OpenPr(pid) PROVE Github'
  <2>1. PICK q : /\ prs' = prs \cup {q} /\ open' = open /\ trees' = trees
                 /\ \A r \in prs : r.number # q.number
    <3>1. PICK n \in PrNumbers, gate \in {"draft", "red"}, depends \in {{}, Cites[child[pid].issue]} :
            /\ Unused(n)
            /\ prs' = prs \cup {[number |-> n, branch |-> child[pid].branch, closes |-> {child[pid].issue},
                                 depends |-> depends, gate |-> gate]}
      BY <1>4 DEF OpenPr
    <3>2. \A r \in prs : r.number # n
      BY <3>1, ScenarioAssumption DEF Unused, TypeOK, PullRequest
    <3>. DEFINE q == [number |-> n, branch |-> child[pid].branch, closes |-> {child[pid].issue},
                      depends |-> depends, gate |-> gate]
    <3>3. q.number = n /\ prs' = prs \cup {q}
      BY <3>1
    <3>4. open' = open /\ trees' = trees
      BY <1>4 DEF OpenPr, git
    <3>. HIDE DEF q
    <3>. QED  BY <3>2, <3>3, <3>4
  <2>2. IsFiniteSet(prs')
    BY <1>0, <2>1, FS_AddElement DEF Github
  <2>. QED  BY <1>0, <2>1, <2>2 DEF Github
<1>5. CASE Regate
  <2>1. PICK q \in prs : \E r :
          prs' = (prs \ {q}) \cup {r} /\ open' = open /\ trees' = trees /\ r.number = q.number
    <3>1. PICK q \in prs, gate \in {"red", "dirty", "green"} :
            prs' = (prs \ {q}) \cup {[q EXCEPT !.gate = gate]}
      BY <1>5 DEF Regate
    <3>. DEFINE r == [q EXCEPT !.gate = gate]
    <3>2. q \in PullRequest
      BY DEF TypeOK
    <3>3. r.number = q.number /\ prs' = (prs \ {q}) \cup {r}
      BY <3>1, <3>2 DEF PullRequest
    <3>4. open' = open /\ trees' = trees
      BY <1>5 DEF Regate, git
    <3>. HIDE DEF r
    <3>. QED  BY <3>3, <3>4
  <2>2. IsFiniteSet(prs')
    <3>1. IsFiniteSet(prs \ {q})
      BY <1>0, FS_RemoveElement DEF Github
    <3>. QED  BY <2>1, <3>1, FS_AddElement
  <2>. QED  BY <1>0, <2>1, <2>2 DEF Github
<1>6. ASSUME NEW i \in Issues, CloseIssue(i) PROVE Github'
  <2>1. prs' = prs /\ open' \subseteq open /\ trees' = trees
    BY <1>6 DEF CloseIssue, git
  <2>2. IsFiniteSet(open')
    BY <1>0, <2>1, FS_Subset DEF Github
  <2>. QED  BY <1>0, <2>1, <2>2 DEF Github
<1>7. CASE UNCHANGED <<open, prs, trees>>
  BY <1>0, <1>7 DEF Github
<1>8. ASSUME NEW p \in Procs,
             \/ Start(p) \/ Save(p) \/ Abort(p) \/ (Control(p) /\ ~RemoveWorktree(p))
             \/ (Supervise(p) /\ ~Prepare(p)) \/ (Converge(p) /\ ~Merge(p))
      PROVE  Github'
  <2>1. UNCHANGED <<open, prs, trees>>
    BY <1>8 DEF Start, Save, Abort, Supervise, Converge, Control, Round, Fetch, Snapshot, SnapshotPrs,
       SnapshotStates, Consider, ClaimComment, ClaimLabel, Launch, LaunchNowhere, List, ListFails, Queue,
       MergeRefused, MergeDone, ChooseTargets, Signal, PmRound, LaunchPm, ReadForCleanup, CheckStatus,
       CheckMerged, Unclaim, github, git
  <2>. QED  BY <1>7, <2>1
<1>9. ASSUME NEW pid \in Pids, Edit(pid) \/ Commit(pid) \/ Exit(pid) PROVE Github'
  BY <1>7, <1>9 DEF Edit, Commit, Exit, github, git
<1>10. CASE UNCHANGED vars
  BY <1>7, <1>10 DEF vars, github, git
<1>. QED
  BY <1>1, <1>2, <1>3, <1>4, <1>5, <1>6, <1>8, <1>9, <1>10 DEF Next, Worker

\* Both halves of Sound.
LEMMA SoundStep ==
  ASSUME TypeOK, Sound, Queued, [Next]_vars
  PROVE  Sound'
BY BirthsStep, GithubStep DEF Births, Github, Sound, Absent

\* A command's step leaves what the others know.
Same(q) ==
  /\ pc'[q] = pc[q] /\ mem'[q] = mem[q] /\ todo'[q] = todo[q] /\ slots'[q] = slots[q]
  /\ snap'[q] = snap[q]

\* What the other commands know stays.
LEMMA Frame ==
  ASSUME TypeOK, NEW p \in Procs, ByCommand(p), NEW q \in Procs, q # p
  PROVE  Same(q)
<1>0. /\ DOMAIN pc = Procs /\ DOMAIN mem = Procs /\ DOMAIN todo = Procs /\ DOMAIN slots = Procs
      /\ DOMAIN snap = Procs
  BY DEF TypeOK
<1>. USE DEF Same, AtStep, Goto
<1>1. CASE Start(p) \/ Save(p) \/ Abort(p)
  BY <1>0, <1>1 DEF Start, Save, Abort
<1>2. CASE Round(p) \/ Fetch(p) \/ Consider(p) \/ Prepare(p) \/ ClaimComment(p) \/ ClaimLabel(p)
  BY <1>0, <1>2 DEF Round, Fetch, Consider, Prepare, ClaimComment, ClaimLabel
<1>3. CASE Snapshot(p) \/ SnapshotPrs(p) \/ SnapshotStates(p)
  BY <1>0, <1>3 DEF Snapshot, SnapshotPrs, SnapshotStates
<1>4. CASE Launch(p) \/ LaunchPm(p)
  BY <1>0, <1>4 DEF Launch, LaunchPm, Spawn
<1>5. CASE LaunchNowhere(p) \/ List(p) \/ ListFails(p) \/ Queue(p) \/ Merge(p) \/ MergeRefused(p) \/ MergeDone(p)
  BY <1>0, <1>5 DEF LaunchNowhere, List, ListFails, Queue, Merge, MergeRefused, MergeDone
<1>6. CASE ChooseTargets(p) \/ Signal(p) \/ PmRound(p)
  BY <1>0, <1>6 DEF ChooseTargets, Signal, PmRound
<1>7. CASE ReadForCleanup(p) \/ CheckStatus(p) \/ CheckMerged(p) \/ RemoveWorktree(p) \/ Unclaim(p)
  BY <1>0, <1>7 DEF ReadForCleanup, CheckStatus, CheckMerged, RemoveWorktree, Unclaim
<1>. QED
  BY <1>1, <1>2, <1>3, <1>4, <1>5, <1>6, <1>7 DEF ByCommand, Supervise, Converge, Control

\* The workers and the people leave what all commands know.
LEMMA Elsewhere ==
  ASSUME [Next]_vars, ~\E p \in Procs : ByCommand(p)
  PROVE  UNCHANGED command /\ file' = file /\ \A q \in Procs : Same(q)
<1>1. UNCHANGED command /\ file' = file
  BY DEF Next, ByCommand, vars, Worker, Edit, Commit, OpenPr, Exit, Regate, CloseIssue
<1>. QED  BY <1>1 DEF command, Same

QueuedFor(p) ==
  /\ pc[p] \in {"list", "queue", "merge"} => p \in Merging
  /\ p \in Supervising /\ pc[p] \in Batch => Members(todo[p]) \subseteq Issues /\ OnceEach(todo[p])
  /\ p \in Supervising /\ pc[p] \in Launching => todo[p] # << >> /\ slots[p] > 0
  /\ pc[p] = "queue" => Distinct(snap[p].prs)
  /\ pc[p] = "merge" => OnceEach(todo[p])
  /\ pc[p] \in {"ancestor", "drop"} => todo[p] # << >>

\* Every step keeps the queues.
LEMMA QueuedStep ==
  ASSUME TypeOK, Sound, Queued, [Next]_vars
  PROVE  Queued'
<1>0. /\ Procs' = Procs /\ Supervising' = Supervising /\ Merging' = Merging
      /\ \A q \in Procs : QueuedFor(q) /\ todo[q] \in Seq(Nat) /\ slots[q] \in Nat
      /\ DOMAIN pc = Procs /\ DOMAIN todo = Procs /\ DOMAIN slots = Procs /\ DOMAIN snap = Procs
  BY Fixed DEF Queued, QueuedFor, TypeOK
<1>s. \A q \in Procs : Same(q) => QueuedFor(q)'
  BY <1>0 DEF Same, QueuedFor, Distinct
<1>q. SUFFICES ASSUME NEW q \in Procs PROVE QueuedFor(q)'
  BY <1>0 DEF Queued, QueuedFor
<1>1. CASE ~\E p \in Procs : ByCommand(p)
  BY <1>s, <1>1, Elsewhere
<1>2. ASSUME NEW p \in Procs, ByCommand(p), q # p PROVE QueuedFor(q)'
  BY <1>s, <1>2, Frame
<1>3. ASSUME ByCommand(q) PROVE QueuedFor(q)'
  <2>. USE DEF AtStep, Goto, Batch, Launching, QueuedFor
  <2>1. CASE Start(q) \/ Save(q) \/ Abort(q) \/ Round(q) \/ LaunchNowhere(q) \/ MergeRefused(q)
             \/ MergeDone(q) \/ ChooseTargets(q) \/ Signal(q) \/ ReadForCleanup(q) \/ RemoveWorktree(q)
             \/ Unclaim(q) \/ PmRound(q) \/ LaunchPm(q)
    <3>1. \/ pc'[q] \notin {"list", "queue", "merge", "ancestor", "drop"} \cup Batch
          \/ pc'[q] = "list" /\ q \in Merging
          \/ q \notin Supervising /\ pc'[q] \notin {"list", "queue", "merge", "ancestor", "drop"}
      <4>1. CASE Start(q)
        <5>1. pc'[q] = CASE kind[q] \in Supervisors \cup {"pm"} -> "round" [] kind[q] = "merge" -> "list"
                         [] kind[q] = "stop" -> "choose" [] kind[q] = "status" -> "save"
                         [] kind[q] = "cleanup" -> "read"
          BY <1>0, <4>1 DEF Start
        <5>2. kind[q] \in Kinds
          BY ScenarioTypes
        <5>. QED  BY <5>1, <5>2 DEF Kinds, Supervisors, Merging, Mergers
      <4>2. CASE Save(q)
        BY <1>0, <4>2 DEF Save, Merging, Mergers
      <4>3. CASE Abort(q) \/ Round(q) \/ LaunchNowhere(q) \/ MergeRefused(q) \/ MergeDone(q)
        BY <1>0, <4>3 DEF Abort, Round, LaunchNowhere, MergeRefused, MergeDone
      <4>4. CASE ChooseTargets(q) \/ Signal(q) \/ ReadForCleanup(q)
        BY <1>0, <4>4 DEF ChooseTargets, Signal, ReadForCleanup
      <4>5. CASE RemoveWorktree(q) \/ Unclaim(q)
        BY <1>0, <4>5 DEF RemoveWorktree, Unclaim
      <4>6. CASE PmRound(q) \/ LaunchPm(q)
        BY <1>0, <4>6 DEF PmRound, LaunchPm, Supervising, Supervisors
      <4>. QED  BY <2>1, <4>1, <4>2, <4>3, <4>4, <4>5, <4>6
    <3>. QED  BY <1>0, <3>1
  <2>2. CASE Fetch(q)
    <3>. DEFINE next == Candidates(open, claimed, slots[q])
    <3>1. next \in Seq(open) /\ OnceEach(next) /\ open \subseteq Issues
      BY <1>0, CandidatesOnce DEF TypeOK, Sound
    <3>2. Members(next) \subseteq Issues
      BY <3>1 DEF Members
    <3>. HIDE DEF next
    <3>3. todo'[q] = next /\ pc'[q] \in {"save", "snapshot"}
      BY <1>0, <2>2 DEF Fetch, next
    <3>. QED  BY <1>0, <3>1, <3>2, <3>3
  <2>3. CASE Snapshot(q) \/ SnapshotPrs(q) \/ SnapshotStates(q)
    <3>1. pc[q] \in Batch /\ pc'[q] \in {"pulls", "states", "consider"} /\ todo' = todo
      BY <1>0, <2>3 DEF Snapshot, SnapshotPrs, SnapshotStates
    <3>. QED  BY <1>0, <3>1
  <2>4. CASE Consider(q)
    <3>1. \/ todo'[q] = todo[q] /\ pc'[q] = "save"
          \/ todo'[q] = todo[q] /\ pc'[q] = "prepare" /\ todo[q] # << >> /\ slots[q] # 0
          \/ todo[q] # << >> /\ todo'[q] = Tail(todo[q]) /\ pc'[q] = pc[q]
      BY <1>0, <2>4 DEF Consider
    <3>2. slots' = slots /\ pc[q] = "consider"
      BY <2>4 DEF Consider
    <3>3. todo[q] # << >> => /\ Members(Tail(todo[q])) \subseteq Members(todo[q])
                             /\ OnceEach(todo[q]) => OnceEach(Tail(todo[q]))
      BY <1>0, Rest
    <3>4. CASE todo'[q] = todo[q] /\ pc'[q] = "save"
      BY <1>0, <3>4
    <3>5. CASE todo'[q] = todo[q] /\ pc'[q] = "prepare" /\ todo[q] # << >> /\ slots[q] # 0
      BY <1>0, <3>2, <3>5
    <3>6. CASE todo[q] # << >> /\ todo'[q] = Tail(todo[q]) /\ pc'[q] = pc[q]
      BY <1>0, <3>2, <3>3, <3>6
    <3>. QED  BY <3>1, <3>4, <3>5, <3>6
  <2>5. CASE Prepare(q) \/ ClaimComment(q) \/ ClaimLabel(q)
    <3>1. /\ pc[q] \in Launching /\ pc'[q] \in Launching
          /\ todo' = todo /\ slots' = slots
      BY <1>0, <2>5 DEF Prepare, ClaimComment, ClaimLabel
    <3>. QED  BY <1>0, <3>1
  <2>6. CASE Launch(q)
    <3>1. /\ pc[q] = "launch" /\ q \in Supervising /\ pc'[q] = "consider" /\ todo'[q] = Tail(todo[q])
      BY <1>0, <2>6 DEF Launch, Supervising
    <3>2. todo[q] # << >>
      BY <1>0, <3>1
    <3>3. /\ Members(Tail(todo[q])) \subseteq Members(todo[q])
          /\ OnceEach(todo[q]) => OnceEach(Tail(todo[q]))
      BY <1>0, <3>2, Rest
    <3>. QED  BY <1>0, <3>1, <3>3
  <2>7. CASE List(q)
    <3>1. PICK unread : snap' = [snap EXCEPT ![q] = [@ EXCEPT !.prs = PrView(unread),
                                                            !.merged = {m.number : m \in merged}]]
      BY <2>7 DEF List
    <3>2. Distinct(PrView(unread)) /\ snap[q] \in SnapRecord
      BY ViewOnce DEF TypeOK
    <3>3. snap'[q].prs = PrView(unread)
      BY <1>0, <3>1, <3>2 DEF SnapRecord
    <3>4. pc'[q] = "queue" /\ q \in Merging
      BY <1>0, <2>7 DEF List, Merging
    <3>. QED  BY <1>0, <3>2, <3>3, <3>4 DEF Distinct
  <2>9. CASE ListFails(q)
    <3>1. pc'[q] = "merge" /\ todo'[q] = << >> /\ q \in Merging
      BY <1>0, <2>9 DEF ListFails, Merging
    <3>. QED  BY <1>0, <3>1 DEF OnceEach
  <2>10. CASE Queue(q)
    <3>1. PICK closed : todo' = [todo EXCEPT ![q] = NumbersOf(MergeQueue(snap[q].prs, closed))]
      BY <2>10 DEF Queue, NumbersOf
    <3>2. Distinct(snap[q].prs) /\ snap[q].prs \subseteq PrRecord
      BY <1>0, <2>10, SnapTypes DEF Queue, TypeOK
    <3>3. OnceEach(NumbersOf(MergeQueue(snap[q].prs, closed)))
      BY <3>2, QueueTypes
    <3>4. todo'[q] = NumbersOf(MergeQueue(snap[q].prs, closed)) /\ pc'[q] = "merge" /\ q \in Merging
      BY <1>0, <2>10, <3>1 DEF Queue
    <3>. QED  BY <1>0, <3>3, <3>4
  <2>11. CASE CheckStatus(q) \/ CheckMerged(q)
    <3>1. \/ pc'[q] = "remove"
          \/ pc'[q] \in {"ancestor", "drop"} /\ todo'[q] = todo[q] /\ todo[q] # << >>
      BY <1>0, <2>11 DEF CheckStatus, CheckMerged
    <3>. QED  BY <1>0, <3>1
  <2>8. CASE Merge(q)
    <3>1. todo[q] # << >> /\ todo'[q] = Tail(todo[q]) /\ pc'[q] = "merge" /\ pc[q] = "merge"
      BY <1>0, <2>8 DEF Merge
    <3>2. /\ Members(Tail(todo[q])) \subseteq Members(todo[q])
          /\ OnceEach(todo[q]) => OnceEach(Tail(todo[q]))
      BY <1>0, <3>1, Rest
    <3>. QED  BY <1>0, <3>1, <3>2
  <2>. QED
    BY <1>3, <2>1, <2>2, <2>3, <2>4, <2>5, <2>6, <2>7, <2>8, <2>9, <2>10, <2>11
       DEF ByCommand, Supervise, Converge, Control
<1>. QED  BY <1>1, <1>2, <1>3

\* Every step keeps the base of the other invariants.
LEMMA BaseStep ==
  ASSUME Base, [Next]_vars
  PROVE  Base'
BY TypesStep, SoundStep, QueuedStep DEF Base

\* It holds at first.
LEMMA BaseInit ==
  ASSUME Init
  PROVE  Base
<1>1. /\ scenario \in Scenarios /\ scenario.open \subseteq Issues /\ IsFiniteSet(scenario.open)
      /\ IsFiniteSet({}) /\ open = scenario.open
  BY ScenarioAssumption, FS_EmptySet DEF Init
<1>2. CommandsOK
  BY DEF Init, CommandsOK, Places, None, Statuses, NoSnap, SnapRecord
<1>3. WorldOK
  BY <1>1 DEF Init, WorldOK, None, Statuses, NoChild, NoIssue, NoBranch
<1>4. TypeOK
  BY <1>1, <1>2, <1>3, Halves
<1>5. Started = {}
  BY DEF Init, Started
<1>6. Sound
  <2>1. /\ file = None /\ \A p \in Procs : mem[p] = None
        /\ prs = {} /\ trees = {} /\ alive = {} /\ child = [pid \in Pids |-> NoChild]
    BY DEF Init
  <2>. QED  BY <1>1, <1>5, <2>1 DEF Sound, None, NoChild
<1>7. Queued
  BY DEF Init, Queued, Batch, Launching
<1>. QED  BY <1>4, <1>6, <1>7 DEF Base

\* It holds always.
LEMMA BaseAlways == Spec => []Base
<1>1. Init => Base
  BY BaseInit
<1>2. Base /\ [Next]_vars => Base'
  BY BaseStep
<1>. QED  BY <1>1, <1>2, PTL DEF Spec

\* The values stay what they should be, whatever commands run together.
THEOREM TypeCorrect == Spec => []TypeOK
<1>1. Base => TypeOK
  BY DEF Base
<1>. QED  BY <1>1, BaseAlways, PTL

-----------------------------------------------------------------------------
(* The limit on workers.                                                    *)

\* The workers that a copy of the state knows to run, and the slots left.
Remembered(runs) == {pid \in Editors : runs[pid] = "running"}
Filling == {"fetch"} \cup Batch
Limited ==
  /\ Cardinality(Remembered(file)) <= MaxWorkers
  /\ \A p \in Procs :
       /\ Cardinality(Remembered(mem[p])) <= MaxWorkers
       /\ p \in Supervising /\ pc[p] \in Filling => Cardinality(Active(mem[p])) + slots[p] <= MaxWorkers

\* Sets of runs have a size, and fewer are not more.
LEMMA Fewer ==
  ASSUME TypeOK, Sound
  PROVE  /\ \A S \in SUBSET Started : IsFiniteSet(S) /\ Cardinality(S) \in Nat
         /\ \A S \in SUBSET Started : \A T \in SUBSET S : Cardinality(T) <= Cardinality(S)
<1>1. \A S \in SUBSET Started : IsFiniteSet(S) /\ Cardinality(S) \in Nat
  BY FS_Subset, FS_CardinalityType DEF Sound
<1>2. ASSUME NEW S \in SUBSET Started, NEW T \in SUBSET S PROVE Cardinality(T) <= Cardinality(S)
  BY <1>1, FS_Subset
<1>. QED  BY <1>1, <1>2

\* Workers and active runs are among the processes that were started.
LEMMA Known ==
  ASSUME TypeOK, Sound
  PROVE  /\ Editors \subseteq Started /\ \A runs : Remembered(runs) \subseteq Started
         /\ \A p \in Procs : Active(mem[p]) \subseteq Started
BY DEF Sound, Editors, Remembered, Active

\* What a step that starts no process makes of the copies.
Weaker(now, was) == \A pid \in Pids : now[pid] = "running" => was[pid] = "running"

\* Where copies of the state come from, and the free slots with them.
LEMMA Copies ==
  ASSUME TypeOK, [Next]_vars, ~\E p \in Procs : Launch(p) \/ LaunchPm(p)
  PROVE  /\ file' = file \/ \E p \in Procs : file' = mem[p]
         /\ \A q \in Procs : Weaker(mem'[q], mem[q]) \/ Weaker(mem'[q], file)
         /\ \A q \in Supervising : pc'[q] \in Filling =>
              /\ Weaker(mem'[q], mem[q])
              /\ \/ pc[q] \in Filling /\ slots'[q] = slots[q]
                 \/ /\ Cardinality(Active(mem'[q])) < MaxWorkers
                    /\ slots'[q] = MaxWorkers - Cardinality(Active(mem'[q]))
<1>0. /\ mem \in [Procs -> [Pids -> Statuses]] /\ file \in [Pids -> Statuses]
      /\ DOMAIN pc = Procs /\ DOMAIN slots = Procs
      /\ \A runs : Weaker(Refresh(runs), runs) /\ Weaker(runs, runs) /\ Weaker(None, runs)
  BY DEF TypeOK, Weaker, Refresh, None
<1>. DEFINE Stays(q) == /\ Weaker(mem'[q], mem[q])
                        /\ pc'[q] \in Filling => pc[q] \in Filling /\ slots'[q] = slots[q]
            Fine(q) == /\ Weaker(mem'[q], mem[q]) \/ Weaker(mem'[q], file)
                       /\ q \in Supervising /\ pc'[q] \in Filling =>
                            /\ Weaker(mem'[q], mem[q])
                            /\ \/ pc[q] \in Filling /\ slots'[q] = slots[q]
                               \/ /\ Cardinality(Active(mem'[q])) < MaxWorkers
                                  /\ slots'[q] = MaxWorkers - Cardinality(Active(mem'[q]))
<1>a. \A q \in Procs : Stays(q) => Fine(q)
  OBVIOUS
<1>s. \A q \in Procs : Same(q) => Stays(q)
  BY <1>0 DEF Same
<1>1. ASSUME NEW p \in Procs, Save(p) PROVE file' = mem[p] /\ Stays(p)
  BY <1>0, <1>1 DEF Save, Goto, Filling, Batch, Launching
<1>2. ASSUME NEW p \in Procs, Start(p) PROVE file' = file /\ Fine(p)
  <2>1. file' = file /\ DOMAIN pc = Procs
    BY <1>0, <1>2 DEF Start
  <2>2. pc'[p] \notin Filling
    <3>1. pc'[p] = CASE kind[p] \in Supervisors \cup {"pm"} -> "round" [] kind[p] = "merge" -> "list"
                     [] kind[p] = "stop" -> "choose" [] kind[p] = "status" -> "save"
                     [] kind[p] = "cleanup" -> "read"
      BY <1>0, <1>2 DEF Start, Goto
    <3>2. kind[p] \in Kinds
      BY ScenarioTypes
    <3>. QED  BY <3>1, <3>2 DEF Kinds, Supervisors, Filling, Batch, Launching
  <2>3. mem'[p] = mem[p] \/ mem'[p] = Refresh(file)
    BY <1>0, <1>2 DEF Start
  <2>. QED  BY <1>0, <2>1, <2>2, <2>3
<1>3. ASSUME NEW p \in Procs, Abort(p) PROVE file' = file /\ Stays(p)
  BY <1>0, <1>3 DEF Abort, Goto, Filling, Batch, Launching
<1>4. ASSUME NEW p \in Procs, Round(p) PROVE file' = file /\ Fine(p)
  <2>. DEFINE now == Refresh(mem[p])
              used == Cardinality(Active(now))
  <2>1. /\ mem'[p] = now /\ file' = file
        /\ slots'[p] = IF used < MaxWorkers THEN MaxWorkers - used ELSE 0
        /\ pc'[p] = IF used < MaxWorkers THEN "fetch" ELSE "save"
    BY <1>0, <1>4 DEF Round, Goto
  <2>. HIDE DEF now, used
  <2>2. used = Cardinality(Active(mem'[p])) /\ Weaker(mem'[p], mem[p])
    BY <1>0, <2>1 DEF used, now
  <2>3. pc'[p] \in Filling => used < MaxWorkers
    BY <2>1 DEF Filling, Batch, Launching
  <2>. QED  BY <2>1, <2>2, <2>3
<1>5. ASSUME NEW p \in Procs, Snapshot(p) \/ Consider(p) PROVE file' = file /\ Stays(p)
  <2>1. /\ mem' = [mem EXCEPT ![p] = Refresh(@)] /\ slots' = slots /\ file' = file
        /\ pc[p] \in {"snapshot", "consider"}
    BY <1>5 DEF Snapshot, Consider, AtStep
  <2>. QED  BY <1>0, <2>1 DEF Filling, Batch
<1>6. ASSUME NEW p \in Procs,
             \/ Fetch(p) \/ SnapshotPrs(p) \/ SnapshotStates(p) \/ Prepare(p) \/ ClaimComment(p)
             \/ ClaimLabel(p)
      PROVE  file' = file /\ Stays(p)
  <2>1. mem' = mem /\ slots' = slots /\ file' = file /\ pc[p] \in Filling
    BY <1>6 DEF Fetch, SnapshotPrs, SnapshotStates, Prepare, ClaimComment, ClaimLabel, AtStep, Filling, Batch, Launching
  <2>. QED  BY <1>0, <2>1
<1>7. ASSUME NEW p \in Procs,
             \/ LaunchNowhere(p) \/ Converge(p) \/ ChooseTargets(p) \/ ReadForCleanup(p)
             \/ CheckStatus(p) \/ CheckMerged(p) \/ RemoveWorktree(p) \/ Unclaim(p)
      PROVE  file' = file /\ Stays(p)
  <2>1. mem' = mem /\ file' = file
    BY <1>7 DEF LaunchNowhere, Converge, List, ListFails, Queue, Merge, MergeRefused, MergeDone,
       ChooseTargets, ReadForCleanup, CheckStatus, CheckMerged, RemoveWorktree, Unclaim
  <2>2. pc'[p] \notin Filling
    BY <1>0, <1>7 DEF LaunchNowhere, Converge, List, ListFails, Queue, Merge, MergeRefused, MergeDone,
       ChooseTargets, ReadForCleanup, CheckStatus, CheckMerged, RemoveWorktree, Unclaim, Goto, AtStep,
       Filling, Batch, Launching
  <2>. QED  BY <1>0, <2>1, <2>2
<1>8. ASSUME NEW p \in Procs, Signal(p) PROVE file' = file /\ Stays(p)
  <2>1. file' = file /\ pc'[p] \notin Filling
    BY <1>0, <1>8 DEF Signal, Goto, AtStep, Filling, Batch, Launching
  <2>2. mem'[p] = mem[p] \/ mem'[p] = [mem[p] EXCEPT ![Head(todo[p])] = "stopping"]
    BY <1>0, <1>8 DEF Signal
  <2>3. Weaker(mem'[p], mem[p])
    BY <1>0, <2>2 DEF Weaker
  <2>. QED  BY <2>1, <2>3
<1>9. ASSUME NEW p \in Procs, PmRound(p) PROVE file' = file /\ Fine(p)
  <2>1. file' = file /\ mem'[p] = Refresh(mem[p]) /\ p \notin Supervising
    BY <1>0, <1>9 DEF PmRound, AtStep, Supervising, Supervisors
  <2>. QED  BY <1>0, <2>1
<1>10. CASE ~\E p \in Procs : ByCommand(p)
  <2>1. file' = file /\ \A q \in Procs : Fine(q)
    <3>. HIDE DEF Fine, Stays
    <3>. QED  BY <1>a, <1>s, <1>10, Elsewhere
  <2>. QED  BY <2>1 DEF Supervising
<1>11. ASSUME NEW p \in Procs, ByCommand(p)
       PROVE  (file' = file \/ \E q \in Procs : file' = mem[q]) /\ \A q \in Procs : Fine(q)
  <2>. HIDE DEF Fine, Stays
  <2>1. \A q \in Procs : q # p => Fine(q)
    BY <1>a, <1>s, <1>11, Frame
  <2>2. (file' = file \/ file' = mem[p]) /\ Fine(p)
    BY <1>a, <1>1, <1>2, <1>3, <1>4, <1>5, <1>6, <1>7, <1>8, <1>9, <1>11
       DEF ByCommand, Supervise, Control
  <2>. QED  BY <2>1, <2>2
<1>. QED
  <2>1. CASE \E p \in Procs : ByCommand(p)
    <3>1. (file' = file \/ \E q \in Procs : file' = mem[q]) /\ \A q \in Procs : Fine(q)
      <4>. HIDE DEF Fine
      <4>. QED  BY <1>11, <2>1
    <3>. QED  BY <3>1 DEF Supervising
  <2>. QED  BY <1>10, <2>1

\* Every step keeps the copies within the limit.
LEMMA LimitedStep ==
  ASSUME Base, Limited, [Next]_vars
  PROVE  Limited'
<1>0. /\ TypeOK /\ Sound /\ Queued /\ Procs' = Procs /\ Supervising' = Supervising
      /\ MaxWorkers' = MaxWorkers /\ MaxWorkers \in Nat
      /\ mem \in [Procs -> [Pids -> Statuses]] /\ slots \in [Procs -> Nat]
  BY Fixed, ScenarioTypes DEF Base, TypeOK
<1>. DEFINE Among(E, runs) == {pid \in E : runs[pid] = "running"}
<1>a. /\ Remembered(file)' = Among(Editors', file')
      /\ \A q : Remembered(mem[q])' = Among(Editors', mem'[q]) /\ Active(mem[q])' = Active(mem'[q])
      /\ \A runs : Remembered(runs) = Among(Editors, runs)
  BY DEF Remembered, Active
<1>b. /\ Editors \subseteq Started /\ \A runs : Among(Editors, runs) \in SUBSET Started
      /\ \A q \in Procs : Active(mem[q]) \in SUBSET Started
      /\ \A S \in SUBSET Started : IsFiniteSet(S) /\ Cardinality(S) \in Nat
      /\ \A S \in SUBSET Started : \A T \in SUBSET S : Cardinality(T) <= Cardinality(S)
  BY <1>0, <1>a, Known, Fewer
<1>c. SUFFICES /\ Cardinality(Among(Editors', file')) <= MaxWorkers
               /\ \A q \in Procs :
                    /\ Cardinality(Among(Editors', mem'[q])) <= MaxWorkers
                    /\ q \in Supervising /\ pc'[q] \in Filling =>
                         Cardinality(Active(mem'[q])) + slots'[q] <= MaxWorkers
  BY <1>0, <1>a DEF Limited
<1>d. /\ Cardinality(Among(Editors, file)) <= MaxWorkers
      /\ \A q \in Procs :
           /\ Cardinality(Among(Editors, mem[q])) <= MaxWorkers
           /\ q \in Supervising /\ pc[q] \in Filling =>
                Cardinality(Active(mem[q])) + slots[q] <= MaxWorkers
  BY <1>a DEF Limited
<1>1. CASE ~\E p \in Procs : Launch(p) \/ LaunchPm(p)
  <2>1. child' = child /\ alive' \subseteq alive
    BY <1>0, <1>1, Childless
  <2>2. Editors' \subseteq Editors /\ Editors \subseteq Pids
    BY <1>0, <2>1 DEF Editors, TypeOK
  <2>3. ASSUME NEW now, NEW was, Weaker(now, was), Cardinality(Among(Editors, was)) <= MaxWorkers
        PROVE  Cardinality(Among(Editors', now)) <= MaxWorkers
    <3>1. Among(Editors', now) \in SUBSET Among(Editors, was)
      BY <2>2, <2>3 DEF Weaker
    <3>. DEFINE T == Among(Editors', now)  S == Among(Editors, was)
    <3>2. T \in SUBSET S /\ S \in SUBSET Started
      BY <1>b, <3>1
    <3>. HIDE DEF T, S
    <3>3. T \in SUBSET Started
      BY <3>2
    <3>4. Cardinality(T) <= Cardinality(S) /\ Cardinality(T) \in Nat /\ Cardinality(S) \in Nat
      BY <1>b, <3>2, <3>3
    <3>5. Cardinality(S) <= MaxWorkers
      BY <2>3 DEF S
    <3>6. Cardinality(T) <= MaxWorkers
      BY <1>0, <3>4, <3>5
    <3>. QED  BY <3>6 DEF T
  <2>4. /\ file' = file \/ \E p \in Procs : file' = mem[p]
        /\ \A q \in Procs : Weaker(mem'[q], mem[q]) \/ Weaker(mem'[q], file)
        /\ \A q \in Supervising : pc'[q] \in Filling =>
             /\ Weaker(mem'[q], mem[q])
             /\ \/ pc[q] \in Filling /\ slots'[q] = slots[q]
                \/ /\ Cardinality(Active(mem'[q])) < MaxWorkers
                   /\ slots'[q] = MaxWorkers - Cardinality(Active(mem'[q]))
    BY <1>0, <1>1, Copies
  <2>. HIDE DEF Among
  <2>5. Cardinality(Among(Editors', file')) <= MaxWorkers
    <3>1. \A runs : Weaker(runs, runs)
      BY DEF Weaker
    <3>. QED  BY <1>d, <2>3, <2>4, <3>1
  <2>6. ASSUME NEW q \in Procs PROVE Cardinality(Among(Editors', mem'[q])) <= MaxWorkers
    BY <1>d, <2>3, <2>4
  <2>7. ASSUME NEW q \in Supervising, pc'[q] \in Filling
        PROVE  Cardinality(Active(mem'[q])) + slots'[q] <= MaxWorkers
    <3>0. q \in Procs
      BY DEF Supervising
    <3>1. Active(mem'[q]) \in SUBSET Active(mem[q]) /\ Active(mem[q]) \in SUBSET Started
      BY <1>b, <2>4, <2>7, <3>0 DEF Weaker, Active
    <3>2. /\ Cardinality(Active(mem'[q])) <= Cardinality(Active(mem[q]))
          /\ Cardinality(Active(mem'[q])) \in Nat /\ Cardinality(Active(mem[q])) \in Nat
      <4>1. Active(mem'[q]) \in SUBSET Started
        BY <3>1
      <4>. QED  BY <1>b, <3>1, <4>1
    <3>3. CASE pc[q] \in Filling /\ slots'[q] = slots[q]
      <4>1. Cardinality(Active(mem[q])) + slots[q] <= MaxWorkers /\ slots[q] \in Nat
        BY <1>0, <1>d, <3>0, <3>3
      <4>. QED  BY <1>0, <3>2, <3>3, <4>1
    <3>4. CASE slots'[q] = MaxWorkers - Cardinality(Active(mem'[q]))
      BY <1>0, <3>2, <3>4
    <3>. QED  BY <2>4, <2>7, <3>3, <3>4
  <2>. QED  BY <2>5, <2>6, <2>7
<1>2. ASSUME NEW p \in Procs, Launch(p) \/ LaunchPm(p)
      PROVE  /\ Cardinality(Among(Editors', file')) <= MaxWorkers
             /\ \A q \in Procs :
                  /\ Cardinality(Among(Editors', mem'[q])) <= MaxWorkers
                  /\ q \in Supervising /\ pc'[q] \in Filling =>
                       Cardinality(Active(mem'[q])) + slots'[q] <= MaxWorkers
  <2>1. PICK i \in Issues \cup {NoIssue} :
          Spawns(p, i) /\ (Launch(p) \/ (LaunchPm(p) /\ i = NoIssue))
    <3>1. CASE Launch(p)
      BY <1>0, <3>1, Spawning
    <3>2. CASE LaunchPm(p)
      BY <3>2, Spawning
    <3>. QED  BY <1>2, <3>1, <3>2
  <2>2. file' = file /\ ByCommand(p) /\ NextPid \in Pids \ Started
    BY <1>0, <1>2, <2>1, SpawnedTypes DEF Launch, LaunchPm, ByCommand, Supervise, Control
  <2>. DEFINE new == NextPid
  <2>3. /\ Editors' \subseteq Editors \cup {new} /\ i = NoIssue => new \notin Editors'
        /\ \A pid \in Editors' : pid # new => pid \in Editors
    BY <1>0, <2>1 DEF Spawns, Editors, TypeOK
  <2>4. file[new] = "absent" /\ \A q \in Procs : mem[q][new] = "absent"
    BY <1>0, <2>2 DEF Sound
  <2>5. /\ mem'[p] = [mem[p] EXCEPT ![new] = "running"] /\ \A q \in Procs : q # p => mem'[q] = mem[q]
    BY <1>0, <2>1 DEF Spawns
  <2>. HIDE DEF new
  <2>6. ASSUME NEW runs, runs[new] = "absent", Cardinality(Among(Editors, runs)) <= MaxWorkers
        PROVE  Cardinality(Among(Editors', runs)) <= MaxWorkers
    <3>. DEFINE T == Among(Editors', runs)  S == Among(Editors, runs)
    <3>1. T \in SUBSET S /\ S \in SUBSET Started
      BY <1>b, <2>3, <2>6
    <3>. HIDE DEF T, S
    <3>2. T \in SUBSET Started
      BY <3>1
    <3>3. Cardinality(T) <= Cardinality(S) /\ Cardinality(T) \in Nat /\ Cardinality(S) \in Nat
      BY <1>b, <3>1, <3>2
    <3>4. Cardinality(S) <= MaxWorkers
      BY <2>6 DEF S
    <3>5. Cardinality(T) <= MaxWorkers
      BY <1>0, <3>3, <3>4
    <3>. QED  BY <3>5 DEF T
  <2>7. ASSUME NEW q \in Procs, q # p
        PROVE  /\ Cardinality(Among(Editors', mem'[q])) <= MaxWorkers
               /\ q \in Supervising /\ pc'[q] \in Filling =>
                    Cardinality(Active(mem'[q])) + slots'[q] <= MaxWorkers
    <3>1. mem'[q] = mem[q] /\ pc'[q] = pc[q] /\ slots'[q] = slots[q]
      BY <1>0, <2>2, <2>7, Frame DEF Same
    <3>. HIDE DEF Among
    <3>. QED  BY <1>d, <2>4, <2>6, <3>1
  <2>8. CASE i = NoIssue /\ LaunchPm(p)
    <3>1. Among(Editors', mem'[p]) = Among(Editors', mem[p])
      BY <1>0, <2>3, <2>5, <2>8
    <3>2. pc'[p] \notin Filling
      BY <1>0, <2>8 DEF LaunchPm, Goto, Filling, Batch, Launching, TypeOK
    <3>. HIDE DEF Among
    <3>. QED  BY <1>d, <2>2, <2>4, <2>6, <2>7, <3>1, <3>2
  <2>9. CASE Launch(p)
    <3>. DEFINE A == Active(mem[p])
    <3>1. /\ Active(mem'[p]) = A \cup {new} /\ new \notin A
      BY <1>0, <2>2, <2>4, <2>5 DEF Active, new
    <3>2. Among(Editors', mem'[p]) \in SUBSET (A \cup {new})
      BY <1>0, <2>3, <2>5 DEF Active, Editors, TypeOK
    <3>3. p \in Supervising /\ pc[p] \in Filling /\ pc[p] \in Launching /\ slots'[p] = slots[p] - 1
      BY <1>0, <2>9 DEF Launch, AtStep, Filling, Batch, Launching, Supervising
    <3>4. slots[p] \in Nat /\ slots[p] > 0 /\ Cardinality(A) + slots[p] <= MaxWorkers
      BY <1>0, <1>d, <3>3 DEF Queued
    <3>. DEFINE B == A \cup {new}  C == Among(Editors', mem'[p])
    <3>5. A \in SUBSET Started
      BY <1>b
    <3>. HIDE DEF A
    <3>6. IsFiniteSet(B) /\ Cardinality(B) = Cardinality(A) + 1 /\ Cardinality(A) \in Nat
      BY <1>b, <3>1, <3>5, FS_AddElement
    <3>. HIDE DEF B, C
    <3>7. Cardinality(C) <= Cardinality(B) /\ Cardinality(C) \in Nat
      <4>1. C \in SUBSET B
        BY <3>2 DEF B, C
      <4>2. IsFiniteSet(C) /\ Cardinality(C) <= Cardinality(B)
        BY <3>6, <4>1, FS_Subset
      <4>. QED  BY <4>2, FS_CardinalityType
    <3>8. Cardinality(C) <= MaxWorkers /\ Cardinality(B) + slots'[p] <= MaxWorkers
      BY <1>0, <3>3, <3>4, <3>6, <3>7
    <3>9. /\ Cardinality(Among(Editors', mem'[p])) <= MaxWorkers
          /\ Cardinality(Active(mem'[p])) + slots'[p] <= MaxWorkers
      BY <3>1, <3>8 DEF B, C
    <3>. HIDE DEF Among
    <3>. QED  BY <1>d, <2>2, <2>4, <2>6, <2>7, <3>9
  <2>. QED  BY <2>1, <2>8, <2>9
<1>. QED  BY <1>1, <1>2

\* They are within it at first.
LEMMA LimitedInit ==
  ASSUME Init
  PROVE  Limited
<1>1. Remembered(file) = {} /\ \A p \in Procs : Remembered(mem[p]) = {}
  BY DEF Init, Remembered, Editors
<1>2. MaxWorkers \in Nat
  BY BaseInit, ScenarioTypes DEF Base
<1>3. \A p \in Procs : pc[p] \notin Filling
  BY DEF Init, Filling, Batch, Launching
<1>. QED  BY <1>1, <1>2, <1>3, FS_EmptySet DEF Limited

\* The workers one supervisor has launched and remembers stay within its limit,
\* whatever the other commands do to state.json and whatever fails.
THEOREM WithinLimit == Spec => []WorkersWithinLimit
<1>1. Init => Base /\ Limited
  BY BaseInit, LimitedInit
<1>2. Base /\ Limited /\ [Next]_vars => (Base /\ Limited)'
  BY BaseStep, LimitedStep
<1>3. Base /\ Limited => WorkersWithinLimit
  BY DEF Limited, WorkersWithinLimit, Remembered
<1>. QED  BY <1>1, <1>2, <1>3, PTL DEF Spec

-----------------------------------------------------------------------------
(* Pull requests and merges.                                                *)

\* Issues are closed, never opened.
LEMMA Closing ==
  ASSUME [Next]_vars
  PROVE  open' \subseteq open
<1>. USE DEF github
<1>1. ASSUME NEW p \in Procs, Start(p) \/ Save(p) \/ Abort(p) PROVE open' = open
  BY <1>1 DEF Start, Save, Abort
<1>2. ASSUME NEW p \in Procs, Supervise(p) PROVE open' = open
  BY <1>2 DEF Supervise, Round, Fetch, Snapshot, SnapshotPrs, SnapshotStates, Consider, Prepare,
     ClaimComment, ClaimLabel, Launch, LaunchNowhere
<1>3. ASSUME NEW p \in Procs, Converge(p) PROVE open' \subseteq open
  BY <1>3 DEF Converge, List, ListFails, Queue, Merge, MergeRefused, MergeDone
<1>4. ASSUME NEW p \in Procs, Control(p) PROVE open' = open
  BY <1>4 DEF Control, ChooseTargets, Signal, PmRound, LaunchPm, ReadForCleanup, CheckStatus, CheckMerged,
     RemoveWorktree, Unclaim
<1>5. ASSUME NEW pid \in Pids, Worker(pid) PROVE open' = open
  BY <1>5 DEF Worker, Edit, Commit, OpenPr, Exit
<1>6. CASE Regate \/ (\E i \in Issues : CloseIssue(i)) \/ UNCHANGED vars
  BY <1>6 DEF Regate, CloseIssue, vars
<1>. QED  BY <1>1, <1>2, <1>3, <1>4, <1>5, <1>6 DEF Next

\* Pull requests and merges, between two states: the body of a pull request
\* stays, and its number is never given again.
SameBody(r, q) == r.number = q.number /\ r.closes = q.closes /\ r.depends = q.depends
LEMMA PullRequestStep ==
  ASSUME Base, [Next]_vars
  PROVE  \/ prs' = prs /\ merged' = merged
         \/ \E q : /\ prs' = prs \cup {q} /\ merged' = merged
                   /\ \A r \in prs \cup merged : r.number # q.number
         \/ \E q \in prs : \E r :
              prs' = (prs \ {q}) \cup {r} /\ merged' = merged /\ SameBody(r, q)
         \/ \E p \in Procs : Merge(p)
<1>0. TypeOK
  BY DEF Base
<1>. USE DEF github
<1>1. ASSUME NEW p \in Procs, Start(p) \/ Save(p) \/ Abort(p) PROVE prs' = prs /\ merged' = merged
  BY <1>1 DEF Start, Save, Abort
<1>2. ASSUME NEW p \in Procs, Supervise(p) PROVE prs' = prs /\ merged' = merged
  BY <1>2 DEF Supervise, Round, Fetch, Snapshot, SnapshotPrs, SnapshotStates, Consider, Prepare,
     ClaimComment, ClaimLabel, Launch, LaunchNowhere
<1>3. ASSUME NEW p \in Procs, Converge(p), ~Merge(p) PROVE prs' = prs /\ merged' = merged
  BY <1>3 DEF Converge, List, ListFails, Queue, MergeRefused, MergeDone
<1>4. ASSUME NEW p \in Procs, Control(p) PROVE prs' = prs /\ merged' = merged
  BY <1>4 DEF Control, ChooseTargets, Signal, PmRound, LaunchPm, ReadForCleanup, CheckStatus, CheckMerged,
     RemoveWorktree, Unclaim
<1>5. ASSUME NEW pid \in Pids, OpenPr(pid)
      PROVE  \E q : /\ prs' = prs \cup {q} /\ merged' = merged
                    /\ \A r \in prs \cup merged : r.number # q.number
  <2>1. PICK n \in PrNumbers, gate \in {"draft", "red"}, depends \in {{}, Cites[child[pid].issue]} :
          /\ Unused(n)
          /\ prs' = prs \cup {[number |-> n, branch |-> child[pid].branch, closes |-> {child[pid].issue},
                               depends |-> depends, gate |-> gate]}
    BY <1>5 DEF OpenPr
  <2>. DEFINE q == [number |-> n, branch |-> child[pid].branch, closes |-> {child[pid].issue},
                    depends |-> depends, gate |-> gate]
  <2>2. q.number = n /\ prs' = prs \cup {q} /\ merged' = merged
    BY <1>5, <2>1 DEF OpenPr
  <2>3. \A r \in prs \cup merged : r.number \in Nat /\ r.number # n
    BY <1>0, <2>1, ScenarioAssumption DEF Unused, TypeOK, PullRequest, MergeRecord
  <2>. HIDE DEF q
  <2>. QED  BY <2>2, <2>3
<1>6. ASSUME NEW pid \in Pids, Edit(pid) \/ Commit(pid) \/ Exit(pid) PROVE prs' = prs /\ merged' = merged
  BY <1>6 DEF Edit, Commit, Exit
<1>7. CASE Regate
  <2>1. PICK q \in prs, gate \in {"red", "dirty", "green"} :
          prs' = (prs \ {q}) \cup {[q EXCEPT !.gate = gate]}
    BY <1>7 DEF Regate
  <2>. DEFINE r == [q EXCEPT !.gate = gate]
  <2>2. q \in PullRequest
    BY <1>0 DEF TypeOK
  <2>3. SameBody(r, q) /\ prs' = (prs \ {q}) \cup {r} /\ merged' = merged
    BY <1>7, <2>1, <2>2 DEF PullRequest, Regate, SameBody
  <2>. HIDE DEF r
  <2>. QED  BY <2>3
<1>8. CASE (\E i \in Issues : CloseIssue(i)) \/ UNCHANGED vars
  BY <1>8 DEF CloseIssue, vars
<1>9. CASE \E p \in Procs : ByCommand(p)
  BY <1>1, <1>2, <1>3, <1>4, <1>9 DEF ByCommand, Converge
<1>10. CASE \E pid \in Pids : Worker(pid)
  BY <1>5, <1>6, <1>10 DEF Worker
<1>. QED  BY <1>7, <1>8, <1>9, <1>10 DEF Next, ByCommand

\* What a merge does.
Listed(p, n) == UNION {v.files : v \in {w \in snap[p].prs : w.number = n}}
LEMMA MergeStep ==
  ASSUME Base, NEW p \in Procs, Merge(p)
  PROVE  /\ pc[p] = "merge" /\ pc'[p] = "merge" /\ p \in Merging /\ todo[p] # << >> /\ OnceEach(todo[p])
         /\ Head(todo[p]) \in Members(todo[p]) /\ Members(todo'[p]) \subseteq Members(todo[p])
         /\ Head(todo[p]) \notin Members(todo'[p]) /\ snap' = snap /\ late' = late
         /\ \/ prs' = prs /\ merged' = merged /\ commits' = commits
            \/ \E q \in prs : \E m :
                 /\ q.number = Head(todo[p]) /\ SameBody(m, q)
                 /\ m.read => \A v \in snap[p].prs : v.number = q.number => v.read
                 /\ m.listed = Listed(p, q.number) /\ m.seen = snap[p].merged
                 /\ prs' = prs \ {q} /\ merged' = merged \cup {m}
                 /\ commits' = [commits EXCEPT ![q.branch] = {}]
<1>1. TypeOK /\ Queued /\ todo[p] \in Seq(Nat) /\ DOMAIN todo = Procs
  BY DEF Base, TypeOK
<1>2. /\ pc[p] = "merge" /\ pc'[p] = "merge" /\ todo[p] # << >> /\ todo'[p] = Tail(todo[p]) /\ snap' = snap
      /\ late' = late
  BY <1>1 DEF Merge, AtStep
<1>3. p \in Merging /\ OnceEach(todo[p])
  BY <1>1, <1>2 DEF Queued
<1>4. /\ Head(todo[p]) \in Members(todo[p]) /\ Members(todo'[p]) \subseteq Members(todo[p])
      /\ Head(todo[p]) \notin Members(todo'[p])
  BY <1>1, <1>2, <1>3, Rest
<1>5. ASSUME NEW q \in prs, q.number = Head(todo[p]), prs' = prs \ {q}, merged' = merged \cup {MergeOf(q, p)},
             commits' = [commits EXCEPT ![q.branch] = {}]
      PROVE  \E m : /\ SameBody(m, q)
                    /\ m.read => \A v \in snap[p].prs : v.number = q.number => v.read
                    /\ m.listed = Listed(p, q.number) /\ m.seen = snap[p].merged
                    /\ merged' = merged \cup {m}
  <2>. DEFINE m == MergeOf(q, p)
  <2>1. SameBody(m, q) /\ m.seen = snap[p].merged /\ m.listed = Listed(p, q.number)
    BY <1>1, MergeTypes DEF SameBody, Listed
  <2>2. m.read => \A v \in snap[p].prs : v.number = q.number => v.read
    BY DEF MergeOf
  <2>. HIDE DEF m
  <2>. QED  BY <1>5, <2>1, <2>2 DEF m
<1>6. \/ prs' = prs /\ merged' = merged /\ commits' = commits
      \/ \E q \in prs : /\ q.number = Head(todo[p]) /\ prs' = prs \ {q}
                        /\ merged' = merged \cup {MergeOf(q, p)}
                        /\ commits' = [commits EXCEPT ![q.branch] = {}]
  BY DEF Merge
<1>7. CASE prs' = prs /\ merged' = merged /\ commits' = commits
  BY <1>2, <1>3, <1>4, <1>7
<1>8. CASE \E q \in prs : /\ q.number = Head(todo[p]) /\ prs' = prs \ {q}
                          /\ merged' = merged \cup {MergeOf(q, p)}
                          /\ commits' = [commits EXCEPT ![q.branch] = {}]
  <2>1. PICK q \in prs : /\ q.number = Head(todo[p]) /\ prs' = prs \ {q}
                         /\ merged' = merged \cup {MergeOf(q, p)}
                         /\ commits' = [commits EXCEPT ![q.branch] = {}]
    BY <1>8
  <2>2. PICK m : /\ SameBody(m, q)
                 /\ m.read => \A v \in snap[p].prs : v.number = q.number => v.read
                 /\ m.listed = Listed(p, q.number) /\ m.seen = snap[p].merged
                 /\ merged' = merged \cup {m}
    BY <1>5, <2>1
  <2>. QED  BY <1>2, <1>3, <1>4, <2>1, <2>2
<1>. QED  BY <1>6, <1>7, <1>8

\* The body of an open pull request was there before, or its number is new; a
\* number that has been given stays given.
LEMMA Bodies ==
  ASSUME Base, [Next]_vars
  PROVE  /\ \A r \in prs' : \/ \E q \in prs : SameBody(r, q)
                            \/ \A q \in prs \cup merged : q.number # r.number
         /\ \A q \in prs \cup merged : \E r \in prs' \cup merged' : r.number = q.number
<1>1. CASE prs' = prs /\ merged' = merged
  BY <1>1 DEF SameBody
<1>2. ASSUME NEW q, prs' = prs \cup {q}, merged' = merged, \A r \in prs \cup merged : r.number # q.number
      PROVE  /\ \A r \in prs' : \/ \E x \in prs : SameBody(r, x)
                                \/ \A x \in prs \cup merged : x.number # r.number
             /\ \A x \in prs \cup merged : \E r \in prs' \cup merged' : r.number = x.number
  BY <1>2 DEF SameBody
<1>3. ASSUME NEW q \in prs, NEW s, prs' = (prs \ {q}) \cup {s}, merged' = merged, SameBody(s, q)
      PROVE  /\ \A r \in prs' : \E x \in prs : SameBody(r, x)
             /\ \A x \in prs \cup merged : \E r \in prs' \cup merged' : r.number = x.number
  BY <1>3 DEF SameBody
<1>4. ASSUME NEW p \in Procs, Merge(p)
      PROVE  /\ \A r \in prs' : \E x \in prs : SameBody(r, x)
             /\ \A x \in prs \cup merged : \E r \in prs' \cup merged' : r.number = x.number
  <2>1. \/ prs' = prs /\ merged' = merged
        \/ \E q \in prs : \E m : SameBody(m, q) /\ prs' = prs \ {q} /\ merged' = merged \cup {m}
    BY <1>4, MergeStep
  <2>. QED  BY <2>1 DEF SameBody
<1>. QED  BY <1>1, <1>2, <1>3, <1>4, PullRequestStep

\* Where the queue of a pass comes from.
LEMMA PassStep ==
  ASSUME Base, [Next]_vars, NEW p \in Procs, pc'[p] \in {"queue", "merge"}
  PROVE  \/ List(p) /\ pc'[p] = "queue"
         \/ ListFails(p) /\ pc'[p] = "merge" /\ Members(todo'[p]) = {}
         \/ Queue(p) /\ pc'[p] = "merge"
         \/ Merge(p)
         \/ pc'[p] = pc[p] /\ todo'[p] = todo[p] /\ snap'[p] = snap[p]
<1>0. TypeOK /\ DOMAIN pc = Procs /\ DOMAIN todo = Procs
  BY DEF Base, TypeOK
<1>. USE DEF AtStep, Goto
<1>1. ASSUME ~\E q \in Procs : ByCommand(q) PROVE Same(p)
  BY <1>1, Elsewhere
<1>2. ASSUME NEW q \in Procs, ByCommand(q), q # p PROVE Same(p)
  BY <1>0, <1>2, Frame
<1>3. ASSUME ByCommand(p), ~Merge(p)
      PROVE  \/ List(p) /\ pc'[p] = "queue"
             \/ ListFails(p) /\ pc'[p] = "merge" /\ todo'[p] = << >>
             \/ Queue(p) /\ pc'[p] = "merge"
  <2>1. CASE Start(p)
    <3>1. pc'[p] = CASE kind[p] \in Supervisors \cup {"pm"} -> "round" [] kind[p] = "merge" -> "list"
                     [] kind[p] = "stop" -> "choose" [] kind[p] = "status" -> "save"
                     [] kind[p] = "cleanup" -> "read"
      BY <1>0, <2>1 DEF Start
    <3>2. kind[p] \in Kinds
      BY <1>0, ScenarioTypes
    <3>. QED  BY <3>1, <3>2 DEF Kinds, Supervisors
  <2>2. CASE Save(p) \/ Abort(p) \/ MergeRefused(p) \/ MergeDone(p)
    BY <1>0, <2>2 DEF Save, Abort, MergeRefused, MergeDone
  <2>3. CASE Supervise(p)
    BY <1>0, <2>3 DEF Supervise, Round, Fetch, Snapshot, SnapshotPrs, SnapshotStates, Consider, Prepare,
       ClaimComment, ClaimLabel, Launch, LaunchNowhere
  <2>4. CASE Control(p)
    BY <1>0, <2>4 DEF Control, ChooseTargets, Signal, PmRound, LaunchPm, ReadForCleanup, CheckStatus,
       CheckMerged, RemoveWorktree, Unclaim
  <2>5. CASE List(p) \/ ListFails(p) \/ Queue(p)
    BY <1>0, <2>5 DEF List, ListFails, Queue
  <2>. QED  BY <1>3, <2>1, <2>2, <2>3, <2>4, <2>5 DEF ByCommand, Converge
<1>4. Members(<< >>) = {}
  BY DEF Members
<1>5. CASE Same(p)
  BY <1>5 DEF Same
<1>. QED  BY <1>1, <1>2, <1>3, <1>4, <1>5

\* What a pass has read and what it makes of it.
LEMMA PassReads ==
  ASSUME Base, NEW p \in Procs
  PROVE  /\ List(p) =>
              /\ UNCHANGED <<prs, merged, open>>
              /\ \E unread : snap'[p].prs = PrView(unread)
              /\ snap'[p].merged = {m.number : m \in merged}
         /\ Queue(p) =>
              /\ UNCHANGED <<prs, merged, open, snap>> /\ pc[p] = "queue"
              /\ \A n \in Members(todo'[p]) : \E v \in snap[p].prs :
                   v.number = n /\ PrDependencies(v) \cap open = {} /\ Listed(p, n) = v.files
              /\ \A m, n \in Members(todo'[p]) : m # n => Listed(p, m) \cap Listed(p, n) = {}
<1>0. TypeOK /\ Queued /\ DOMAIN pc = Procs /\ DOMAIN todo = Procs /\ DOMAIN snap = Procs /\ snap[p] \in SnapRecord
  BY DEF Base, TypeOK
<1>1. ASSUME List(p)
      PROVE  /\ UNCHANGED <<prs, merged, open>>
             /\ \E unread : snap'[p].prs = PrView(unread)
             /\ snap'[p].merged = {m.number : m \in merged}
  <2>1. UNCHANGED <<prs, merged, open>>
    BY <1>1 DEF List, github
  <2>2. PICK unread : snap' = [snap EXCEPT ![p] = [@ EXCEPT !.prs = PrView(unread),
                                                          !.merged = {m.number : m \in merged}]]
    BY <1>1 DEF List
  <2>3. snap'[p].prs = PrView(unread) /\ snap'[p].merged = {m.number : m \in merged}
    BY <1>0, <2>2 DEF SnapRecord
  <2>. QED  BY <2>1, <2>3
<1>2. ASSUME Queue(p)
      PROVE  /\ UNCHANGED <<prs, merged, open, snap>> /\ pc[p] = "queue"
             /\ \A n \in Members(todo'[p]) : \E v \in snap[p].prs :
                  v.number = n /\ PrDependencies(v) \cap open = {} /\ Listed(p, n) = v.files
             /\ \A m, n \in Members(todo'[p]) : m # n => Listed(p, m) \cap Listed(p, n) = {}
  <2>1. UNCHANGED <<prs, merged, open, snap>> /\ pc[p] = "queue"
    BY <1>2 DEF Queue, AtStep, github
  <2>2. PICK closed \in SUBSET (Issues \ open) :
          todo' = [todo EXCEPT ![p] = NumbersOf(MergeQueue(snap[p].prs, closed))]
    BY <1>2 DEF Queue, NumbersOf
  <2>. DEFINE queue == MergeQueue(snap[p].prs, closed)
  <2>3. Distinct(snap[p].prs) /\ snap[p].prs \subseteq PrRecord
    BY <1>0, <2>1, SnapTypes DEF Queued
  <2>4. /\ queue \in Seq(snap[p].prs) /\ Apart(queue)
        /\ \A k \in DOMAIN queue : Mergeable(queue[k], closed)
    BY <2>3, QueueApart, ScenarioAssumption DEF Distinct, PrRecord
  <2>5. todo'[p] = NumbersOf(queue)
    BY <1>0, <2>2
  <2>. HIDE DEF queue
  <2>6. \A k \in DOMAIN queue : queue[k] \in snap[p].prs
    BY <2>4
  <2>7. \A v \in snap[p].prs : Listed(p, v.number) = v.files
    <3>. SUFFICES ASSUME NEW v \in snap[p].prs PROVE Listed(p, v.number) = v.files
      OBVIOUS
    <3>1. {w \in snap[p].prs : w.number = v.number} = {v}
      BY <2>3 DEF Distinct
    <3>. QED  BY <3>1 DEF Listed
  <2>8. \A n \in Members(todo'[p]) : \E k \in DOMAIN queue : queue[k].number = n
    BY <2>5 DEF Members, NumbersOf
  <2>9. ASSUME NEW k \in DOMAIN queue
        PROVE  PrDependencies(queue[k]) \cap open = {} /\ Listed(p, queue[k].number) = queue[k].files
    BY <2>2, <2>4, <2>6, <2>7 DEF Mergeable
  <2>10. \A m, n \in Members(todo'[p]) : m # n => Listed(p, m) \cap Listed(p, n) = {}
    BY <2>4, <2>8, <2>9 DEF Apart
  <2>. QED  BY <2>1, <2>6, <2>8, <2>9, <2>10
<1>. QED  BY <1>1, <1>2

-----------------------------------------------------------------------------
(* Dependencies.                                                            *)

\* What was read as closed stays closed, and what is about to be launched has
\* its dependencies among it.
ClosedFor(p) ==
  /\ snap[p].closed \cap open = {}
  /\ p \in Supervising /\ pc[p] \in Launching =>
       DependencyNumbers(Head(todo[p])) \subseteq snap[p].closed

\* Of what it may merge a pass has read the body, unless that could not be read;
\* and the dependencies of what it is going to merge are closed.
Awaited(p) ==
  CASE pc[p] = "queue" -> {v.number : v \in snap[p].prs}
    [] pc[p] = "merge" -> Members(todo[p])
    [] OTHER -> {}
AsRead(v) ==
  /\ \E q \in prs \cup merged : q.number = v.number
  /\ v.read => \A q \in prs : q.number = v.number => q.closes = v.closes /\ q.depends = v.depends
ReadFor(p) ==
  \A n \in Awaited(p) : \E v \in snap[p].prs :
    v.number = n /\ AsRead(v) /\ (pc[p] = "merge" => PrDependencies(v) \cap open = {})

Closed == DependenciesFirst /\ \A p \in Procs : ClosedFor(p) /\ ReadFor(p)

\* What one command has read as closed stays closed.
LEMMA ClosedForStep ==
  ASSUME Base, Closed, [Next]_vars, NEW q \in Procs
  PROVE  ClosedFor(q)'
<1>0. /\ TypeOK /\ Sound /\ Queued /\ Procs' = Procs /\ Supervising' = Supervising
      /\ DOMAIN pc = Procs /\ DOMAIN todo = Procs /\ DOMAIN snap = Procs
      /\ snap[q] \in SnapRecord /\ ClosedFor(q) /\ open' \subseteq open
      /\ \A i : DependencyNumbers(i)' = DependencyNumbers(i)
  BY Fixed, Closing DEF Base, TypeOK, Closed, DependencyNumbers
<1>s. /\ Same(q) => ClosedFor(q)'
      /\ snap'[q].closed = snap[q].closed /\ pc'[q] \notin Launching => ClosedFor(q)'
      /\ snap'[q] = NoSnap /\ pc'[q] \notin Launching => ClosedFor(q)'
      /\ snap'[q] = snap[q] /\ q \notin Supervising => ClosedFor(q)'
  BY <1>0 DEF Same, ClosedFor, NoSnap
<1>n. NoSnap.closed = {}
  BY DEF NoSnap
<1>1. CASE ~\E p \in Procs : ByCommand(p)
  BY <1>s, <1>1, Elsewhere
<1>2. ASSUME NEW p \in Procs, ByCommand(p), q # p PROVE ClosedFor(q)'
  BY <1>0, <1>s, <1>2, Frame
<1>3. ASSUME ByCommand(q) PROVE ClosedFor(q)'
  <2>. USE DEF AtStep, Goto, Launching
  <2>1. CASE Start(q)
    <3>1. pc'[q] = CASE kind[q] \in Supervisors \cup {"pm"} -> "round" [] kind[q] = "merge" -> "list"
                     [] kind[q] = "stop" -> "choose" [] kind[q] = "status" -> "save"
                     [] kind[q] = "cleanup" -> "read"
      BY <1>0, <2>1 DEF Start
    <3>2. kind[q] \in Kinds /\ snap' = snap
      BY <1>0, <2>1, ScenarioTypes DEF Start
    <3>3. pc'[q] \notin Launching
      BY <3>1, <3>2 DEF Kinds, Supervisors
    <3>. QED  BY <1>s, <3>2, <3>3
  <2>2. CASE Save(q) \/ Abort(q) \/ MergeDone(q)
    <3>1. snap'[q] = NoSnap /\ pc'[q] \notin Launching
      BY <1>0, <2>2 DEF Save, Abort, MergeDone
    <3>. QED  BY <1>s, <3>1
  <2>3. CASE Round(q) \/ Fetch(q) \/ LaunchNowhere(q) \/ ListFails(q) \/ Queue(q) \/ Merge(q) \/ MergeRefused(q)
             \/ ChooseTargets(q) \/ Signal(q) \/ CheckStatus(q) \/ CheckMerged(q) \/ RemoveWorktree(q)
             \/ Launch(q) \/ LaunchPm(q)
    <3>1. snap'[q] = snap[q] /\ pc'[q] \notin Launching
      BY <1>0, <2>3 DEF Round, Fetch, LaunchNowhere, ListFails, Queue, Merge, MergeRefused, ChooseTargets,
         Signal, CheckStatus, CheckMerged, RemoveWorktree, Launch, LaunchPm
    <3>. QED  BY <1>s, <3>1
  <2>4. CASE Snapshot(q)
    <3>1. \E A, W : snap' = [snap EXCEPT ![q] = [@ EXCEPT !.active = A, !.worktrees = W]]
      BY <2>4 DEF Snapshot
    <3>2. snap'[q].closed = snap[q].closed
      BY <1>0, <3>1 DEF SnapRecord
    <3>3. pc'[q] = "pulls"
      BY <1>0, <2>4 DEF Snapshot
    <3>. QED  BY <1>s, <3>2, <3>3
  <2>9. CASE SnapshotPrs(q)
    <3>1. snap' = snap \/ \E Q : snap' = [snap EXCEPT ![q] = [@ EXCEPT !.prs = Q]]
      BY <2>9 DEF SnapshotPrs
    <3>2. snap'[q].closed = snap[q].closed
      BY <1>0, <3>1 DEF SnapRecord
    <3>3. pc'[q] = "states"
      BY <1>0, <2>9 DEF SnapshotPrs
    <3>. QED  BY <1>s, <3>2, <3>3
  <2>10. CASE SnapshotStates(q)
    <3>1. PICK closed \in SUBSET (Issues \ open) : snap' = [snap EXCEPT ![q] = [@ EXCEPT !.closed = closed]]
      BY <2>10 DEF SnapshotStates
    <3>2. snap'[q].closed = closed
      BY <1>0, <3>1 DEF SnapRecord
    <3>3. pc'[q] = "consider"
      BY <1>0, <2>10 DEF SnapshotStates
    <3>. QED  BY <1>0, <3>2, <3>3 DEF ClosedFor
  <2>5. CASE Consider(q)
    <3>1. /\ snap' = snap
          /\ \/ pc'[q] \notin Launching
             \/ todo'[q] = todo[q] /\ ~LaunchBlocked(Head(todo[q]), BranchFor(Head(todo[q])), snap[q])
      BY <1>0, <2>5 DEF Consider
    <3>. QED  BY <1>0, <1>s, <3>1 DEF ClosedFor, LaunchBlocked, DependencyClear
  <2>6. CASE Prepare(q) \/ ClaimComment(q) \/ ClaimLabel(q)
    <3>1. snap' = snap /\ todo' = todo /\ pc[q] \in Launching
      BY <2>6 DEF Prepare, ClaimComment, ClaimLabel
    <3>. QED  BY <1>0, <3>1 DEF ClosedFor
  <2>7. CASE PmRound(q)
    BY <1>s, <2>7 DEF PmRound, Supervising, Supervisors
  <2>8. CASE List(q) \/ ReadForCleanup(q) \/ Unclaim(q)
    <3>1. pc'[q] \notin Launching
      BY <1>0, <2>8 DEF List, ReadForCleanup, Unclaim
    <3>2. \/ snap' = snap
          \/ \E Q, M : snap' = [snap EXCEPT ![q] = [@ EXCEPT !.prs = Q, !.merged = M]]
          \/ \E K : snap' = [snap EXCEPT ![q] = [@ EXCEPT !.claims = K]]
      BY <2>8 DEF List, ReadForCleanup, Unclaim
    <3>3. snap'[q].closed = snap[q].closed
      BY <1>0, <3>2 DEF SnapRecord
    <3>. QED  BY <1>s, <3>1, <3>3
  <2>. QED
    BY <1>3, <2>1, <2>2, <2>3, <2>4, <2>5, <2>6, <2>7, <2>8, <2>9, <2>10
       DEF ByCommand, Supervise, Converge, Control
<1>. QED  BY <1>1, <1>2, <1>3

\* What a pass has read of what it may merge stays true.
LEMMA ReadForStep ==
  ASSUME Base, Closed, [Next]_vars, NEW p \in Procs
  PROVE  ReadFor(p)'
<1>0. /\ TypeOK /\ Sound /\ Queued /\ open' \subseteq open /\ ReadFor(p)
      /\ \A v : PrDependencies(v)' = PrDependencies(v)
  BY Closing DEF Base, Closed, PrDependencies
<1>1. \A v : AsRead(v) => AsRead(v)'
  <2>. SUFFICES ASSUME NEW v, AsRead(v) PROVE AsRead(v)'
    OBVIOUS
  <2>1. /\ \A r \in prs' : \/ \E q \in prs : SameBody(r, q)
                           \/ \A q \in prs \cup merged : q.number # r.number
        /\ \A q \in prs \cup merged : \E r \in prs' \cup merged' : r.number = q.number
    BY Bodies
  <2>2. \E r \in prs' \cup merged' : r.number = v.number
    BY <2>1 DEF AsRead
  <2>3. ASSUME v.read, NEW r \in prs', r.number = v.number PROVE r.closes = v.closes /\ r.depends = v.depends
    <3>1. \E q \in prs : SameBody(r, q)
      BY <2>1, <2>3 DEF AsRead
    <3>. QED  BY <2>3, <3>1 DEF AsRead, SameBody
  <2>. QED  BY <2>2, <2>3 DEF AsRead
<1>2. ASSUME Awaited(p)' \subseteq Awaited(p), pc'[p] = "merge" => pc[p] = "merge", snap'[p] = snap[p]
      PROVE  ReadFor(p)'
  BY <1>0, <1>1, <1>2 DEF ReadFor
<1>3. CASE pc'[p] \notin {"queue", "merge"}
  BY <1>3 DEF ReadFor, Awaited
<1>4. CASE List(p) /\ pc'[p] = "queue"
  <2>1. PICK unread : snap'[p].prs = PrView(unread) /\ UNCHANGED <<prs, merged>>
    BY <1>4, PassReads
  <2>2. ASSUME NEW v \in PrView(unread) PROVE AsRead(v)'
    <3>1. PICK q \in prs : v = ViewOf(q, unread)
      BY Viewed
    <3>2. /\ v.number = q.number /\ (q.number \notin unread => v.closes = q.closes /\ v.depends = q.depends)
          /\ (q.number \in unread => v.read = FALSE)
      BY <3>1, Viewed
    <3>3. \A r \in prs : r.number = q.number => r = q
      BY <1>0 DEF Sound
    <3>. QED  BY <2>1, <3>2, <3>3 DEF AsRead
  <2>3. Awaited(p)' = {v.number : v \in snap'[p].prs}
    BY <1>4 DEF Awaited
  <2>. QED  BY <1>4, <2>1, <2>2, <2>3 DEF ReadFor
<1>5. CASE ListFails(p) /\ pc'[p] = "merge" /\ Members(todo'[p]) = {}
  BY <1>5 DEF ReadFor, Awaited
<1>6. CASE Queue(p) /\ pc'[p] = "merge"
  <2>1. /\ UNCHANGED <<open, snap>> /\ pc[p] = "queue"
        /\ \A n \in Members(todo'[p]) : \E v \in snap[p].prs : v.number = n /\ PrDependencies(v) \cap open = {}
    BY <1>6, PassReads
  <2>2. Awaited(p)' = Members(todo'[p])
    BY <1>6 DEF Awaited
  <2>3. Awaited(p) = {v.number : v \in snap[p].prs} /\ Distinct(snap[p].prs)
    BY <1>0, <2>1 DEF Awaited, Queued
  <2>4. \A v \in snap[p].prs : AsRead(v)
    BY <1>0, <2>3 DEF ReadFor, Distinct
  <2>. QED  BY <1>0, <1>1, <2>1, <2>2, <2>4 DEF ReadFor
<1>7. CASE Merge(p)
  <2>1. /\ pc[p] = "merge" /\ pc'[p] = "merge" /\ Members(todo'[p]) \subseteq Members(todo[p]) /\ snap' = snap
    BY <1>7, MergeStep
  <2>2. Awaited(p) = Members(todo[p]) /\ Awaited(p)' = Members(todo'[p])
    BY <2>1 DEF Awaited
  <2>. QED  BY <1>2, <2>1, <2>2
<1>8. CASE pc'[p] = pc[p] /\ todo'[p] = todo[p] /\ snap'[p] = snap[p]
  <2>1. Awaited(p)' = Awaited(p)
    BY <1>8 DEF Awaited, Members
  <2>. QED  BY <1>2, <1>8, <2>1
<1>. QED  BY <1>3, <1>4, <1>5, <1>6, <1>7, <1>8, PassStep

\* Who starts processes, and for what.
LEMMA ChildStep ==
  ASSUME Base, [Next]_vars
  PROVE  \/ child' = child
         \/ \E p \in Procs : Launch(p) /\ p \in Supervising /\ Spawns(p, Head(todo[p]))
         \/ \E p \in Procs : LaunchPm(p) /\ Spawns(p, NoIssue)
<1>1. TypeOK /\ Sound /\ Queued
  BY DEF Base
<1>. QED  BY <1>1, Spawning, Childless

\* Every step keeps the dependencies of what runs or is merged closed.
LEMMA ClosedStep ==
  ASSUME Base, Closed, [Next]_vars
  PROVE  Closed'
<1>0. /\ TypeOK /\ Procs' = Procs /\ open' \subseteq open /\ DependenciesFirst
      /\ \A i : DependencyNumbers(i)' = DependencyNumbers(i)
      /\ \A m : PrDependencies(m)' = PrDependencies(m)
      /\ DOMAIN child = Pids
  BY Fixed, Closing DEF Base, TypeOK, Closed, DependencyNumbers, PrDependencies
<1>1. \A p \in Procs' : ClosedFor(p)' /\ ReadFor(p)'
  BY <1>0, ClosedForStep, ReadForStep
<1>2. \A pid \in Pids : child'[pid].issue # NoIssue =>
        DependencyNumbers(child'[pid].issue) \cap open' = {}
  <2>1. CASE child' = child
    BY <1>0, <2>1 DEF DependenciesFirst
  <2>2. ASSUME NEW p \in Procs, Launch(p), p \in Supervising, Spawns(p, Head(todo[p]))
        PROVE  \A pid \in Pids : child'[pid].issue # NoIssue =>
                 DependencyNumbers(child'[pid].issue) \cap open' = {}
    <3>1. DependencyNumbers(Head(todo[p])) \cap open = {}
      BY <2>2 DEF Closed, ClosedFor, Launch, AtStep, Launching
    <3>2. \A pid \in Pids : child'[pid].issue \in {child[pid].issue, Head(todo[p])}
      BY <1>0, <2>2 DEF Spawns
    <3>. QED  BY <1>0, <3>1, <3>2 DEF DependenciesFirst
  <2>3. ASSUME NEW p \in Procs, Spawns(p, NoIssue)
        PROVE  \A pid \in Pids : child'[pid].issue # NoIssue =>
                 DependencyNumbers(child'[pid].issue) \cap open' = {}
    <3>1. \A pid \in Pids : child'[pid].issue \in {child[pid].issue, NoIssue}
      BY <1>0, <2>3 DEF Spawns
    <3>. QED  BY <1>0, <3>1 DEF DependenciesFirst
  <2>. QED  BY <2>1, <2>2, <2>3, ChildStep
<1>3. \A m \in merged' : m.read => PrDependencies(m) \cap open' = {}
  <2>1. CASE merged' = merged
    BY <1>0, <2>1 DEF DependenciesFirst
  <2>2. ASSUME NEW p \in Procs, Merge(p)
        PROVE  \A m \in merged' : m.read => PrDependencies(m) \cap open' = {}
    <3>. SUFFICES ASSUME NEW q \in prs, NEW m, q.number = Head(todo[p]), SameBody(m, q), m.read,
                         \A v \in snap[p].prs : v.number = q.number => v.read
                  PROVE  PrDependencies(m) \cap open = {}
      <4>1. \/ merged' = merged
            \/ \E q \in prs : \E m :
                 /\ q.number = Head(todo[p]) /\ SameBody(m, q) /\ merged' = merged \cup {m}
                 /\ m.read => \A v \in snap[p].prs : v.number = q.number => v.read
        BY <2>2, MergeStep
      <4>. QED  BY <1>0, <4>1 DEF DependenciesFirst
    <3>1. pc[p] = "merge" /\ q.number \in Awaited(p)
      BY <2>2, MergeStep DEF Awaited
    <3>2. PICK v \in snap[p].prs : v.number = q.number /\ AsRead(v) /\ PrDependencies(v) \cap open = {}
      BY <3>1 DEF Closed, ReadFor
    <3>3. q.closes = v.closes /\ q.depends = v.depends
      BY <3>2 DEF AsRead
    <3>. QED  BY <3>2, <3>3 DEF SameBody, PrDependencies
  <2>. QED  BY <2>1, <2>2, PullRequestStep
<1>4. DependenciesFirst'
  BY <1>0, <1>2, <1>3 DEF DependenciesFirst
<1>. QED  BY <1>1, <1>4 DEF Closed

\* At first nothing runs.
LEMMA ClosedInit ==
  ASSUME Init
  PROVE  Closed
BY DEF Init, Closed, ClosedFor, ReadFor, Awaited, DependenciesFirst, NoSnap, NoChild, Launching

\* A worker starts only after the issues its own names are closed, and a pull
\* request is merged only after those its body names are, if that could be read;
\* whatever pull requests are opened, merged and checked in between.
THEOREM DependenciesAlwaysFirst == Spec => []DependenciesFirst
<1>1. Init => Base /\ Closed
  BY BaseInit, ClosedInit
<1>2. Base /\ Closed /\ [Next]_vars => (Base /\ Closed)'
  BY BaseStep, ClosedStep
<1>3. Closed => DependenciesFirst
  BY DEF Closed
<1>. QED  BY <1>1, <1>2, <1>3, PTL DEF Spec

-----------------------------------------------------------------------------
(* Worktrees are removed without work in them.                              *)

\* A branch that was found merged has no commits since, or is known to have.
FoundMerged(p) == pc[p] = "drop" => commits[Head(todo[p])] = {} \/ Head(todo[p]) \in late

\* What a step does to the commits.
LEMMA WorkStep ==
  ASSUME Base, [Next]_vars
  PROVE  \/ commits' = commits /\ late' = late
         \/ \E p \in Procs : /\ CheckMerged(p) /\ commits' = commits
                             /\ late' = late \/ (commits[Head(todo[p])] = {} /\ late' = late \ {Head(todo[p])})
         \/ \E b \in Branches : /\ UNCHANGED command
                                /\ commits' = [commits EXCEPT ![b] = @ \cup dirty[b]]
                                /\ late' = IF Removing(b) THEN late \cup {b} ELSE late
         \/ late' = late /\ \E b \in Branches : commits' = [commits EXCEPT ![b] = {}]
<1>0. TypeOK /\ trees \subseteq Branches
  BY DEF Base, TypeOK
<1>. USE DEF git
<1>1. ASSUME NEW p \in Procs, Start(p) \/ Save(p) \/ Abort(p) PROVE commits' = commits /\ late' = late
  BY <1>1 DEF Start, Save, Abort
<1>2. ASSUME NEW p \in Procs, Supervise(p) PROVE commits' = commits /\ late' = late
  BY <1>2 DEF Supervise, Round, Fetch, Snapshot, SnapshotPrs, SnapshotStates, Consider, Prepare,
     ClaimComment, ClaimLabel, Launch, LaunchNowhere
<1>3. ASSUME NEW p \in Procs, Converge(p), ~Merge(p) PROVE commits' = commits /\ late' = late
  BY <1>3 DEF Converge, List, ListFails, Queue, MergeRefused, MergeDone
<1>4. ASSUME NEW p \in Procs, Control(p), ~CheckMerged(p) PROVE commits' = commits /\ late' = late
  BY <1>4 DEF Control, ChooseTargets, Signal, PmRound, LaunchPm, ReadForCleanup, CheckStatus, RemoveWorktree,
     Unclaim
<1>5. ASSUME NEW p \in Procs, CheckMerged(p)
      PROVE  /\ commits' = commits
             /\ late' = late \/ (commits[Head(todo[p])] = {} /\ late' = late \ {Head(todo[p])})
  BY <1>5 DEF CheckMerged
<1>6. ASSUME NEW p \in Procs, Merge(p)
      PROVE  /\ late' = late
             /\ commits' = commits \/ \E b \in Branches : commits' = [commits EXCEPT ![b] = {}]
  <2>1. \A q \in prs : q.branch \in Branches
    BY <1>0 DEF TypeOK, PullRequest
  <2>2. late' = late /\ (commits' = commits \/ \E q \in prs : commits' = [commits EXCEPT ![q.branch] = {}])
    BY <1>6, MergeStep
  <2>. QED  BY <2>1, <2>2
<1>7. ASSUME NEW pid \in Pids, Commit(pid)
      PROVE  \E b \in Branches : /\ UNCHANGED command
                                 /\ commits' = [commits EXCEPT ![b] = @ \cup dirty[b]]
                                 /\ late' = IF Removing(b) THEN late \cup {b} ELSE late
  BY <1>0, <1>7 DEF Commit, AtWork
<1>8. ASSUME NEW pid \in Pids, Edit(pid) \/ OpenPr(pid) \/ Exit(pid) PROVE commits' = commits /\ late' = late
  BY <1>8 DEF Edit, OpenPr, Exit
<1>9. CASE Regate \/ (\E i \in Issues : CloseIssue(i)) \/ UNCHANGED vars
  BY <1>9 DEF Regate, CloseIssue, vars
<1>10. CASE \E p \in Procs : ByCommand(p)
  BY <1>1, <1>2, <1>3, <1>4, <1>5, <1>6, <1>10 DEF ByCommand, Converge
<1>11. CASE \E pid \in Pids : Worker(pid)
  BY <1>7, <1>8, <1>11 DEF Worker
<1>. QED  BY <1>9, <1>10, <1>11 DEF Next, ByCommand

\* Who is about to remove a worktree was so before, or has just looked.
LEMMA DropStep ==
  ASSUME Base, [Next]_vars, NEW p \in Procs, pc'[p] = "drop"
  PROVE  /\ todo'[p] = todo[p] /\ todo[p] # << >> /\ Head(todo[p]) \in Nat
         /\ pc[p] = "drop" \/ commits[Head(todo[p])] = {}
<1>0. TypeOK /\ Queued /\ DOMAIN pc = Procs /\ DOMAIN todo = Procs /\ todo[p] \in Seq(Nat)
  BY DEF Base, TypeOK
<1>. USE DEF AtStep, Goto
<1>1. CASE ~\E q \in Procs : ByCommand(q)
  BY <1>0, <1>1, Elsewhere DEF Same, Queued
<1>2. ASSUME NEW q \in Procs, ByCommand(q), q # p PROVE Same(p)
  BY <1>0, <1>2, Frame
<1>3. ASSUME ByCommand(p) PROVE CheckMerged(p)
  <2>1. CASE Start(p)
    <3>1. pc'[p] = CASE kind[p] \in Supervisors \cup {"pm"} -> "round" [] kind[p] = "merge" -> "list"
                     [] kind[p] = "stop" -> "choose" [] kind[p] = "status" -> "save"
                     [] kind[p] = "cleanup" -> "read"
      BY <1>0, <2>1 DEF Start
    <3>2. kind[p] \in Kinds
      BY <1>0, ScenarioTypes
    <3>. QED  BY <3>1, <3>2 DEF Kinds, Supervisors
  <2>2. CASE Save(p) \/ Abort(p) \/ Converge(p)
    BY <1>0, <2>2 DEF Save, Abort, Converge, List, ListFails, Queue, Merge, MergeRefused, MergeDone
  <2>3. CASE Supervise(p)
    BY <1>0, <2>3 DEF Supervise, Round, Fetch, Snapshot, SnapshotPrs, SnapshotStates, Consider, Prepare,
       ClaimComment, ClaimLabel, Launch, LaunchNowhere
  <2>4. CASE Control(p) /\ ~CheckMerged(p)
    BY <1>0, <2>4 DEF Control, ChooseTargets, Signal, PmRound, LaunchPm, ReadForCleanup, CheckStatus,
       RemoveWorktree, Unclaim
  <2>. QED  BY <1>3, <2>1, <2>2, <2>3, <2>4 DEF ByCommand
<1>4. CASE CheckMerged(p)
  BY <1>0, <1>4 DEF CheckMerged, Queued
<1>5. CASE Same(p)
  BY <1>0, <1>5 DEF Same, Queued
<1>. QED  BY <1>0, <1>1, <1>2, <1>3, <1>4, <1>5, Elsewhere DEF Same

\* Every step keeps the branches that were found merged so, or records that not.
LEMMA FoundMergedStep ==
  ASSUME Base, \A p \in Procs : FoundMerged(p), [Next]_vars
  PROVE  \A p \in Procs : FoundMerged(p)'
<1>0. commits \in [Branches -> SUBSET AllFiles] /\ DOMAIN todo = Procs
  BY DEF Base, TypeOK
<1>. SUFFICES ASSUME NEW p \in Procs, pc'[p] = "drop"
              PROVE  commits'[Head(todo'[p])] = {} \/ Head(todo'[p]) \in late'
  BY DEF FoundMerged
<1>. DEFINE b == Head(todo[p])
<1>1. Head(todo'[p]) = b /\ (commits[b] = {} \/ b \in late)
  BY DropStep DEF FoundMerged
<1>2. CASE commits' = commits /\ late' = late
  BY <1>1, <1>2
<1>3. ASSUME NEW c, commits' = commits, late' = late \/ (commits[c] = {} /\ late' = late \ {c})
      PROVE  commits'[b] = {} \/ b \in late'
  BY <1>1, <1>3
<1>4. ASSUME NEW c \in Branches, UNCHANGED command, commits' = [commits EXCEPT ![c] = @ \cup dirty[c]],
             late' = IF Removing(c) THEN late \cup {c} ELSE late
      PROVE  commits'[b] = {} \/ b \in late'
  <2>1. pc[p] = "drop"
    BY <1>4 DEF command
  <2>2. b = c => Removing(c)
    BY <2>1 DEF Removing
  <2>. HIDE DEF b
  <2>3. CASE b = c
    BY <1>4, <2>2, <2>3
  <2>4. CASE b # c
    BY <1>0, <1>1, <1>4, <2>4
  <2>. QED  BY <2>3, <2>4
<1>5. ASSUME NEW c \in Branches, late' = late, commits' = [commits EXCEPT ![c] = {}]
      PROVE  commits'[b] = {} \/ b \in late'
  <2>. HIDE DEF b
  <2>. QED  BY <1>0, <1>1, <1>5
<1>. HIDE DEF b
<1>. QED  BY <1>1, <1>2, <1>3, <1>4, <1>5, WorkStep

\* What a step that removes a worktree has found.
LEMMA Removed ==
  ASSUME Base, \A p \in Procs : FoundMerged(p), [Next]_vars
  PROVE  \A b \in trees \ trees' : dirty[b] = {} /\ (commits[b] = {} \/ b \in late)
<1>. USE DEF git
<1>1. ASSUME NEW p \in Procs, Start(p) \/ Save(p) \/ Abort(p) PROVE trees' = trees
  BY <1>1 DEF Start, Save, Abort
<1>2. ASSUME NEW p \in Procs, Supervise(p) PROVE trees \subseteq trees'
  BY <1>2 DEF Supervise, Round, Fetch, Snapshot, SnapshotPrs, SnapshotStates, Consider, Prepare,
     ClaimComment, ClaimLabel, Launch, LaunchNowhere
<1>3. ASSUME NEW p \in Procs, Converge(p) PROVE trees' = trees
  BY <1>3 DEF Converge, List, ListFails, Queue, Merge, MergeRefused, MergeDone
<1>4. ASSUME NEW p \in Procs, Control(p), ~RemoveWorktree(p) PROVE trees' = trees
  BY <1>4 DEF Control, ChooseTargets, Signal, PmRound, LaunchPm, ReadForCleanup, CheckStatus, CheckMerged,
     Unclaim
<1>5. ASSUME NEW p \in Procs, RemoveWorktree(p)
      PROVE  \A b \in trees \ trees' : dirty[b] = {} /\ (commits[b] = {} \/ b \in late)
  <2>1. pc[p] = "drop" /\ \A b \in trees \ trees' : b = Head(todo[p]) /\ dirty[b] = {}
    BY <1>5 DEF RemoveWorktree, AtStep
  <2>. QED  BY <2>1 DEF FoundMerged
<1>6. ASSUME NEW pid \in Pids, Worker(pid) PROVE trees' = trees
  BY <1>6 DEF Worker, Edit, Commit, OpenPr, Exit
<1>7. CASE Regate \/ (\E i \in Issues : CloseIssue(i)) \/ UNCHANGED vars
  BY <1>7 DEF Regate, CloseIssue, vars
<1>. QED  BY <1>1, <1>2, <1>3, <1>4, <1>5, <1>6, <1>7 DEF Next

\* A worktree is removed only without uncommitted work, whatever could not be
\* read and whatever a worker did between the checks, and with nothing on its
\* branch that base lacks but what was committed after it was found merged.
THEOREM OnlyMergedRemoved == Spec => RemovesOnlyMerged
<1>. DEFINE Found == \A p \in Procs : FoundMerged(p)
<1>1. Init => Found
  BY DEF Init, FoundMerged
<1>2. Base /\ Found /\ [Next]_vars => Found'
  BY FoundMergedStep, Fixed
<1>3. Base /\ Found /\ [Next]_vars =>
        [\A b \in trees \ trees' : dirty[b] = {} /\ (commits[b] = {} \/ b \in late)]_vars
  BY Removed
<1>. QED  BY <1>1, <1>2, <1>3, BaseAlways, PTL DEF Spec, RemovesOnlyMerged

-----------------------------------------------------------------------------
(* One pass at a time.                                                      *)

OneMerger == \A p, q \in Merging : p = q

\* Of two merges one has seen the other, or the files of what they had read are
\* apart; and so are those of what a pass still has to merge from one another's
\* and from what has been merged since it began.
ListsApart ==
  \A m, n \in merged : m # n =>
    m.number \in n.seen \/ n.number \in m.seen \/ m.listed \cap n.listed = {}
Ahead(p) ==
  /\ pc[p] = "queue" => \A m \in merged : m.number \in snap[p].merged
  /\ pc[p] = "merge" =>
       /\ \A m, n \in Members(todo[p]) : m # n => Listed(p, m) \cap Listed(p, n) = {}
       /\ \A m \in merged, n \in Members(todo[p]) :
            m.number \in snap[p].merged \/ m.listed \cap Listed(p, n) = {}
Passing == OneMerger => ListsApart /\ \A p \in Procs : Ahead(p)

\* Every step keeps a pass apart from what is merged.
LEMMA PassingStep ==
  ASSUME Base, Passing, [Next]_vars
  PROVE  Passing'
<1>0. /\ Queued /\ Procs' = Procs /\ Merging' = Merging
      /\ \A p : snap'[p] = snap[p] => \A n : Listed(p, n)' = Listed(p, n)
  BY Fixed DEF Base, Listed
<1>1. SUFFICES ASSUME OneMerger
               PROVE  ListsApart' /\ \A p \in Procs : Ahead(p)'
  BY <1>0 DEF Passing, OneMerger
<1>2. ListsApart /\ \A p \in Procs : Ahead(p)
  BY <1>1 DEF Passing
<1>3. \A p, q \in Procs : pc[p] \in {"list", "queue", "merge"} /\ pc[q] \in {"list", "queue", "merge"} => p = q
  BY <1>0, <1>1 DEF Queued, OneMerger
<1>4. ASSUME NEW p \in Procs, Merge(p) PROVE ListsApart' /\ Ahead(p)'
  <2>1. /\ pc[p] = "merge" /\ pc'[p] = "merge" /\ Head(todo[p]) \in Members(todo[p])
        /\ Members(todo'[p]) \subseteq Members(todo[p]) /\ Head(todo[p]) \notin Members(todo'[p])
        /\ snap' = snap
        /\ \/ merged' = merged
           \/ \E m : /\ m.listed = Listed(p, Head(todo[p])) /\ m.seen = snap[p].merged
                     /\ merged' = merged \cup {m}
    BY <1>4, MergeStep
  <2>2. /\ \A m, n \in Members(todo[p]) : m # n => Listed(p, m) \cap Listed(p, n) = {}
        /\ \A m \in merged, n \in Members(todo[p]) :
             m.number \in snap[p].merged \/ m.listed \cap Listed(p, n) = {}
        /\ \A n : Listed(p, n)' = Listed(p, n)
    BY <1>0, <1>2, <2>1 DEF Ahead
  <2>3. CASE merged' = merged
    BY <1>2, <2>1, <2>2, <2>3 DEF ListsApart, Ahead
  <2>4. ASSUME NEW m, m.listed = Listed(p, Head(todo[p])), m.seen = snap[p].merged, merged' = merged \cup {m}
        PROVE  ListsApart' /\ Ahead(p)'
    <3>1. \A n \in merged : n.number \in m.seen \/ n.listed \cap m.listed = {}
      BY <2>1, <2>2, <2>4
    <3>2. ListsApart'
      BY <1>2, <2>4, <3>1 DEF ListsApart
    <3>3. \A n \in Members(todo'[p]) : m.listed \cap Listed(p, n) = {}
      BY <2>1, <2>2, <2>4
    <3>4. Ahead(p)'
      BY <2>1, <2>2, <2>4, <3>3 DEF Ahead
    <3>. QED  BY <3>2, <3>4
  <2>. QED  BY <2>1, <2>3, <2>4
<1>5. ASSUME ~\E p \in Procs : Merge(p) PROVE merged' = merged
  BY <1>5, PullRequestStep
<1>6. ListsApart'
  <2>1. CASE \E p \in Procs : Merge(p)
    BY <1>4, <2>1
  <2>2. CASE ~\E p \in Procs : Merge(p)
    BY <1>2, <1>5, <2>2 DEF ListsApart
  <2>. QED  BY <2>1, <2>2
<1>7. ASSUME NEW p \in Procs PROVE Ahead(p)'
  <2>1. CASE pc'[p] \notin {"queue", "merge"}
    BY <2>1 DEF Ahead
  <2>2. CASE Merge(p)
    BY <1>4, <2>2
  <2>3. CASE ListFails(p) /\ pc'[p] = "merge" /\ Members(todo'[p]) = {}
    BY <2>3 DEF Ahead
  <2>4. CASE List(p) /\ pc'[p] = "queue"
    BY <2>4, PassReads DEF Ahead
  <2>5. CASE Queue(p) /\ pc'[p] = "merge"
    <3>1. /\ merged' = merged /\ snap' = snap /\ pc[p] = "queue"
          /\ \A m, n \in Members(todo'[p]) : m # n => Listed(p, m) \cap Listed(p, n) = {}
      BY <2>5, PassReads
    <3>2. \A m \in merged : m.number \in snap[p].merged
      BY <1>2, <3>1 DEF Ahead
    <3>. QED  BY <1>0, <2>5, <3>1, <3>2 DEF Ahead
  <2>6. CASE pc'[p] \in {"queue", "merge"} /\ pc'[p] = pc[p] /\ todo'[p] = todo[p] /\ snap'[p] = snap[p] /\ ~Merge(p)
    <3>1. merged' = merged
      <4>1. \A q \in Procs : Merge(q) => pc[q] = "merge" /\ q # p
        BY <2>6 DEF Merge, AtStep
      <4>. QED  BY <1>3, <1>5, <2>6, <4>1
    <3>2. Ahead(p) /\ \A n : Listed(p, n)' = Listed(p, n)
      BY <1>0, <1>2, <2>6
    <3>. QED  BY <2>6, <3>1, <3>2 DEF Ahead
  <2>. QED  BY <2>1, <2>2, <2>3, <2>4, <2>5, <2>6, PassStep
<1>. QED  BY <1>6, <1>7

\* At first nothing is merged.
LEMMA PassingInit ==
  ASSUME Init
  PROVE  Passing
<1>1. merged = {} /\ \A p \in Procs : pc[p] \notin {"queue", "merge"}
  BY DEF Init
<1>. QED  BY <1>1 DEF Passing, ListsApart, Ahead

\* Two pull requests that change a common file are merged by different passes
\* of the one command that merges, unless one brought files its pass had not read.
THEOREM PassesApart == Spec => [](OneMerger => MergesApart)
<1>1. Init => Passing
  BY PassingInit
<1>2. Base /\ Passing /\ [Next]_vars => Passing'
  BY PassingStep
<1>3. Passing => (OneMerger => MergesApart)
  BY DEF Passing, ListsApart, MergesApart, AsListed
<1>. QED  BY <1>1, <1>2, <1>3, BaseAlways, PTL DEF Spec

-----------------------------------------------------------------------------
(* One editing agent owns one branch.                                       *)

\* One supervisor, a branch of its own for every issue, and worktrees that can
\* be listed.
Careful ==
  /\ \A p, q \in Supervising : p = q
  /\ branchArg = NoBranch
  /\ "worktrees" \notin scenario.fallible

\* An editor that still has its worktree: the supervisor has seen the worktree,
\* or will not launch another editor for the issue in this batch; and what it is
\* about to launch had no worktree when it looked.
Housed == Editors \ evicted
SeenTrees(p) == {t.branch : t \in snap[p].worktrees}
Placed == \A w \in Housed : child[w].branch \in trees
Going == {"pulls", "states", "consider"} \cup Launching
Foreseen(p) ==
  /\ pc[p] \in Going =>
       \A w \in Housed : child[w].branch \in Members(todo[p]) => child[w].branch \in SeenTrees(p)
  /\ pc[p] \in Launching => Head(todo[p]) \notin SeenTrees(p)
Settled == Careful => EditorsApart /\ Placed /\ \A p \in Supervising : Foreseen(p)

\* Steps that launch no editor take none its worktree away without evicting it.
LEMMA Housing ==
  ASSUME Base, [Next]_vars, ~\E p \in Procs : Launch(p)
  PROVE  /\ Editors' \subseteq Editors /\ evicted \subseteq evicted'
         /\ \A w \in Editors' : child'[w] = child[w]
         /\ \A w \in Housed' : child[w].branch \in trees => child[w].branch \in trees'
<1>0. TypeOK /\ Sound /\ Queued /\ alive \subseteq Started /\ DOMAIN child = Pids /\ evicted \subseteq Pids
  BY DEF Base, TypeOK, Sound
<1>1. /\ Editors' \subseteq Editors /\ \A w \in Editors' : child'[w] = child[w]
  <2>1. ASSUME NEW p \in Procs, LaunchPm(p)
        PROVE  Editors' \subseteq Editors /\ \A w \in Editors' : child'[w] = child[w]
    <3>1. Spawns(p, NoIssue)
      BY <2>1, Spawning
    <3>2. /\ NextPid \in Pids /\ child[NextPid] = NoChild /\ alive' = alive \cup {NextPid}
          /\ child' = [child EXCEPT ![NextPid] = [issue |-> NoIssue, branch |-> NoBranch, by |-> p]]
      BY <3>1 DEF Spawns
    <3>3. child'[NextPid].issue = NoIssue /\ \A w \in Pids \ {NextPid} : child'[w] = child[w]
      BY <1>0, <3>2
    <3>. QED  BY <1>0, <3>2, <3>3 DEF Editors, Started
  <2>2. CASE ~\E p \in Procs : LaunchPm(p)
    <3>1. child' = child /\ alive' \subseteq alive
      BY <1>0, <2>2, Childless
    <3>. QED  BY <3>1 DEF Editors
  <2>. QED  BY <2>1, <2>2
<1>2. CASE trees \subseteq trees' /\ evicted' = evicted
  BY <1>1, <1>2
<1>3. ASSUME NEW q \in Procs, RemoveWorktree(q), ~UNCHANGED <<trees, evicted>>
      PROVE  /\ evicted \subseteq evicted'
             /\ \A w \in Housed' : child[w].branch \in trees => child[w].branch \in trees'
  <2>. DEFINE b == Head(todo[q])
  <2>1. trees' = trees \ {b} /\ evicted' = evicted \cup {pid \in alive : child[pid].branch = b}
    BY <1>3 DEF RemoveWorktree
  <2>. HIDE DEF b
  <2>2. \A w \in Housed' : w \in alive /\ w \notin evicted'
    BY <1>1 DEF Housed, Editors
  <2>. QED  BY <2>1, <2>2
<1>4. \/ trees \subseteq trees' /\ evicted' = evicted
      \/ \E q \in Procs : RemoveWorktree(q) /\ ~UNCHANGED <<trees, evicted>>
  <2>. USE DEF git
  <2>1. ASSUME NEW p \in Procs, Start(p) \/ Save(p) \/ Abort(p) PROVE trees \subseteq trees' /\ evicted' = evicted
    BY <2>1 DEF Start, Save, Abort
  <2>2. ASSUME NEW p \in Procs, Supervise(p) PROVE trees \subseteq trees' /\ evicted' = evicted
    BY <2>2 DEF Supervise, Round, Fetch, Snapshot, SnapshotPrs, SnapshotStates, Consider, Prepare,
       ClaimComment, ClaimLabel, Launch, LaunchNowhere
  <2>3. ASSUME NEW p \in Procs, Converge(p) PROVE trees \subseteq trees' /\ evicted' = evicted
    BY <2>3 DEF Converge, List, ListFails, Queue, Merge, MergeRefused, MergeDone
  <2>4. ASSUME NEW p \in Procs, Control(p), ~RemoveWorktree(p) PROVE trees \subseteq trees' /\ evicted' = evicted
    BY <2>4 DEF Control, ChooseTargets, Signal, PmRound, LaunchPm, ReadForCleanup, CheckStatus, CheckMerged,
       Unclaim
  <2>5. ASSUME NEW pid \in Pids, Worker(pid) PROVE trees \subseteq trees' /\ evicted' = evicted
    BY <2>5 DEF Worker, Edit, Commit, OpenPr, Exit
  <2>6. CASE Regate \/ (\E i \in Issues : CloseIssue(i)) \/ UNCHANGED vars
    BY <2>6 DEF Regate, CloseIssue, vars
  <2>. QED  BY <2>1, <2>2, <2>3, <2>4, <2>5, <2>6 DEF Next
<1>. QED  BY <1>1, <1>2, <1>3, <1>4

\* The queue and the worktrees seen by a supervisor that goes through a batch.
LEMMA BatchStep ==
  ASSUME Base, [Next]_vars, NEW p \in Supervising, pc'[p] \in Going
  PROVE  \/ Launch(p)
         \/ pc'[p] = "pulls" /\ ("worktrees" \notin scenario.fallible => SeenTrees(p)' = trees)
         \/ /\ pc[p] \in Going /\ SeenTrees(p)' = SeenTrees(p)
            /\ Members(todo'[p]) \subseteq Members(todo[p])
            /\ pc'[p] \in Launching =>
                 /\ todo'[p] = todo[p]
                 /\ pc[p] \in Launching
                    \/ BranchFor(Head(todo[p])) \notin SeenTrees(p)
<1>0. /\ TypeOK /\ Queued /\ p \in Procs /\ DOMAIN pc = Procs /\ DOMAIN todo = Procs /\ DOMAIN snap = Procs
      /\ todo[p] \in Seq(Nat) /\ snap[p] \in SnapRecord /\ kind[p] \in Kinds
      /\ Procs' = Procs /\ kind[p] \in Supervisors
  BY Fixed, ScenarioTypes DEF Base, TypeOK, Supervising
<1>1. ASSUME ~\E q \in Procs : ByCommand(q) PROVE Same(p)
  BY <1>0, <1>1, Elsewhere
<1>2. ASSUME NEW q \in Procs, ByCommand(q), q # p PROVE Same(p)
  BY <1>0, <1>2, Frame
<1>t. snap'[p] = snap[p] => SeenTrees(p)' = SeenTrees(p)
  BY DEF SeenTrees
<1>. USE DEF AtStep, Goto, Launching, Going
<1>3. CASE Prepare(p) \/ ClaimComment(p) \/ ClaimLabel(p)
  BY <1>0, <1>t, <1>3 DEF Prepare, ClaimComment, ClaimLabel
<1>9. CASE SnapshotPrs(p) \/ SnapshotStates(p)
  <2>1. \/ snap' = snap
        \/ \E Q : snap' = [snap EXCEPT ![p] = [@ EXCEPT !.prs = Q]]
        \/ \E C : snap' = [snap EXCEPT ![p] = [@ EXCEPT !.closed = C]]
    BY <1>9 DEF SnapshotPrs, SnapshotStates
  <2>2. snap'[p].worktrees = snap[p].worktrees
    BY <1>0, <2>1 DEF SnapRecord
  <2>3. SeenTrees(p)' = SeenTrees(p)
    BY <2>2 DEF SeenTrees
  <2>. QED  BY <1>0, <1>9, <2>3 DEF SnapshotPrs, SnapshotStates
<1>4. CASE Consider(p)
  <2>1. /\ snap' = snap /\ pc[p] = "consider"
        /\ \/ pc'[p] = "save"
           \/ todo[p] # << >> /\ todo'[p] = Tail(todo[p]) /\ pc'[p] = "consider"
           \/ todo'[p] = todo[p] /\ ~LaunchBlocked(Head(todo[p]), BranchFor(Head(todo[p])), snap[p])
    BY <1>0, <1>4 DEF Consider
  <2>2. todo[p] # << >> => Members(Tail(todo[p])) \subseteq Members(todo[p])
    BY <1>0, Rest
  <2>3. ~LaunchBlocked(Head(todo[p]), BranchFor(Head(todo[p])), snap[p]) =>
          BranchFor(Head(todo[p])) \notin SeenTrees(p)
    BY DEF LaunchBlocked, BranchOrFileOverlap, SeenTrees
  <2>. QED  BY <1>t, <2>1, <2>2, <2>3
<1>5. CASE Snapshot(p)
  <2>1. PICK listed \in BOOLEAN :
          /\ Call(listed, "worktrees")
          /\ snap' = [snap EXCEPT ![p] = [@ EXCEPT
               !.active = {r \in Records(Refresh(mem[p])) : r.status = "running"},
               !.worktrees = IF listed THEN WorktreeView ELSE {}]]
    BY <1>5 DEF Snapshot
  <2>2. snap'[p].worktrees = IF listed THEN WorktreeView ELSE {}
    BY <1>0, <2>1 DEF SnapRecord
  <2>3. {t.branch : t \in WorktreeView} = trees
    <3>1. \A t \in WorktreeView : t.branch \in trees
      BY DEF WorktreeView
    <3>2. ASSUME NEW b \in trees PROVE \E t \in WorktreeView : t.branch = b
      <4>. DEFINE t == [branch |-> b, files |-> commits[b] \cup dirty[b]]
      <4>1. t.branch = b
        OBVIOUS
      <4>2. t \in WorktreeView
        BY Zenon DEF WorktreeView
      <4>. QED  BY <4>1, <4>2
    <3>. QED  BY <3>1, <3>2
  <2>4. pc'[p] = "pulls"
    BY <1>0, <1>5 DEF Snapshot
  <2>5. "worktrees" \notin scenario.fallible => SeenTrees(p)' = trees
    BY <2>1, <2>2, <2>3 DEF SeenTrees, Call
  <2>. QED  BY <2>4, <2>5
<1>6. CASE Start(p)
  <2>1. pc'[p] = CASE kind[p] \in Supervisors \cup {"pm"} -> "round" [] kind[p] = "merge" -> "list"
                   [] kind[p] = "stop" -> "choose" [] kind[p] = "status" -> "save"
                   [] kind[p] = "cleanup" -> "read"
    BY <1>0, <1>6 DEF Start
  <2>. QED  BY <1>0, <2>1
<1>7. CASE Save(p) \/ Abort(p) \/ Round(p) \/ Fetch(p) \/ LaunchNowhere(p) \/ Converge(p)
  BY <1>0, <1>7 DEF Save, Abort, Round, Fetch, LaunchNowhere, Converge, List, ListFails, Queue,
     Merge, MergeRefused, MergeDone
<1>8. CASE Control(p)
  BY <1>0, <1>8 DEF Supervisors, Control, ChooseTargets, Signal, PmRound, LaunchPm, ReadForCleanup, CheckStatus, CheckMerged,
     RemoveWorktree, Unclaim
<1>10. CASE Same(p)
  BY <1>t, <1>10 DEF Same
<1>. QED
  BY <1>0, <1>1, <1>2, <1>3, <1>4, <1>5, <1>6, <1>7, <1>8, <1>9, <1>10 DEF ByCommand, Supervise

\* Every step keeps the editors apart and the supervisor's view of them.
LEMMA SettledStep ==
  ASSUME Base, Settled, [Next]_vars
  PROVE  Settled'
<1>0. /\ TypeOK /\ Sound /\ Queued /\ Supervising' = Supervising /\ Careful' = Careful
      /\ DOMAIN todo = Procs /\ DOMAIN pc = Procs /\ DOMAIN child = Pids /\ alive \subseteq Started
      /\ todo \in [Procs -> Seq(Nat)]
  BY Fixed DEF Base, TypeOK, Careful, Sound
<1>1. SUFFICES ASSUME Careful
               PROVE  EditorsApart' /\ Placed' /\ \A p \in Supervising : Foreseen(p)'
  BY <1>0 DEF Settled
<1>2. /\ EditorsApart /\ Placed /\ \A p \in Supervising : Foreseen(p)
      /\ \A i : BranchFor(i) = i
  BY <1>1 DEF Settled, Careful, BranchFor
<1>3. CASE ~\E p \in Procs : Launch(p)
  <2>1. /\ Editors' \subseteq Editors /\ evicted \subseteq evicted'
        /\ \A w \in Editors' : child'[w] = child[w]
        /\ \A w \in Housed' : child[w].branch \in trees => child[w].branch \in trees'
        /\ Housed' \subseteq Housed /\ Housed' \subseteq Editors'
    BY <1>3, Housing DEF Housed
  <2>2. EditorsApart'
    BY <1>2, <2>1 DEF EditorsApart
  <2>3. Placed'
    BY <1>2, <2>1 DEF Placed
  <2>4. ASSUME NEW p \in Supervising PROVE Foreseen(p)'
    <3>1. CASE pc'[p] \notin Going
      BY <3>1 DEF Foreseen, Going
    <3>2. CASE pc'[p] = "pulls" /\ SeenTrees(p)' = trees
      BY <1>2, <2>1, <3>2 DEF Foreseen, Placed, Launching
    <3>3. CASE /\ pc[p] \in Going /\ SeenTrees(p)' = SeenTrees(p)
               /\ Members(todo'[p]) \subseteq Members(todo[p])
               /\ pc'[p] \in Launching =>
                    /\ todo'[p] = todo[p]
                    /\ pc[p] \in Launching
                       \/ BranchFor(Head(todo[p])) \notin SeenTrees(p)
      BY <1>2, <2>1, <3>3 DEF Foreseen
    <3>. QED  BY <1>1, <1>3, <3>1, <3>2, <3>3, BatchStep DEF Careful, Supervising
  <2>. QED  BY <2>2, <2>3, <2>4
<1>4. ASSUME NEW p \in Procs, Launch(p)
      PROVE  EditorsApart' /\ Placed' /\ \A q \in Supervising : Foreseen(q)'
  <2>. DEFINE i == Head(todo[p])
              new == NextPid
  <2>1. /\ p \in Supervising /\ pc[p] = "launch" /\ i \in Issues /\ i # NoIssue /\ i \in trees /\ Spawns(p, i)
        /\ UNCHANGED <<trees, evicted, snap>> /\ todo'[p] = Tail(todo[p]) /\ pc'[p] = "consider"
    BY <1>0, <1>2, <1>4, Spawning, PlanningAssumption DEF Launch, AtStep, Goto, git, NoIssue
  <2>2. /\ new \in Pids /\ new \notin alive /\ alive' = alive \cup {new}
        /\ child'[new].issue = i /\ child'[new].branch = i
        /\ \A w \in Pids \ {new} : child'[w] = child[w]
    BY <1>0, <1>2, <2>1 DEF Spawns, Started
  <2>3. Editors' = Editors \cup {new} /\ new \notin Editors /\ \A w \in Editors : child'[w] = child[w]
    BY <1>0, <2>1, <2>2 DEF Editors, Started
  <2>4. todo[p] # << >> /\ OnceEach(todo[p])
    BY <1>0, <2>1 DEF Queued, Launching, Batch
  <2>5. i \in Members(todo[p]) /\ Members(todo'[p]) \subseteq Members(todo[p]) /\ i \notin Members(todo'[p])
    BY <1>0, <2>1, <2>4, Rest
  <2>6. \A w \in Housed : child[w].branch # i
    BY <1>2, <2>1, <2>5 DEF Foreseen, Going, Launching
  <2>. HIDE DEF i, new
  <2>7. Housed' \subseteq Housed \cup {new} /\ Housed \subseteq Editors
    BY <2>1, <2>3 DEF Housed
  <2>8. EditorsApart'
    <3>1. \A w \in Editors : child[w].branch = i => w \in evicted
      BY <2>6 DEF Housed
    <3>. QED  BY <1>2, <2>1, <2>2, <2>3, <3>1 DEF EditorsApart
  <2>9. Placed'
    BY <1>2, <2>1, <2>2, <2>3, <2>7 DEF Placed
  <2>10. Foreseen(p)'
    <3>1. \A w \in Housed : child[w].branch \in Members(todo[p]) => child[w].branch \in SeenTrees(p)
      BY <1>2, <2>1 DEF Foreseen, Going, Launching
    <3>2. SeenTrees(p)' = SeenTrees(p) /\ pc'[p] \notin Launching
      BY <2>1 DEF SeenTrees, Launching
    <3>. QED  BY <2>2, <2>3, <2>5, <2>7, <3>1, <3>2 DEF Foreseen
  <2>. QED  BY <1>1, <2>1, <2>8, <2>9, <2>10 DEF Careful
<1>. QED  BY <1>3, <1>4

\* At first there is no editor.
LEMMA SettledInit ==
  ASSUME Init
  PROVE  Settled
<1>1. alive = {} /\ \A p \in Procs : pc[p] = "off"
  BY DEF Init
<1>. QED  BY <1>1 DEF Settled, EditorsApart, Placed, Housed, Editors, Foreseen, Going, Launching, Supervising

\* With one supervisor that can list its worktrees no two editing agents own a
\* branch, whatever is killed, lost or overwritten, until a cleanup takes the
\* worktree of one away.
THEOREM OneEditorPerBranch == Spec => [](Careful => EditorsApart)
<1>1. Init => Settled
  BY SettledInit
<1>2. Base /\ Base' /\ Settled /\ [Next]_vars => Settled'
  BY SettledStep
<1>3. Settled => (Careful => EditorsApart)
  BY DEF Settled
<1>. QED  BY <1>1, <1>2, <1>3, BaseAlways, PTL DEF Spec
=============================================================================
