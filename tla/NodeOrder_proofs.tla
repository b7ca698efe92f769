-------------------------- MODULE NodeOrder_proofs --------------------------
(***************************************************************************)
(* orderNodes is right for every graph and every selection, cyclic graphs  *)
(* included.                                                               *)
(***************************************************************************)
EXTENDS NodeOrder, FiniteSetTheorems, TLAPS

-----------------------------------------------------------------------------
(* The inductive invariant. *)

\* What is wanted is still to be taken or was taken, once.
Partition ==
  /\ Taken \cup remaining = Wanted /\ Taken \cap remaining = {}
  /\ IsFiniteSet(Taken) /\ Cardinality(Taken) = Len(ordered)

\* No knot goes through a node that was taken.
Untangled ==
  /\ \A n \in Taken : ~EphemeralCycle(project, project.deps[n])
  /\ \A S \in SUBSET Wanted : (\A n \in S : Upstream(n) \cap S # {}) => S \cap Taken = {}

\* In a pass without progress, what the pass has left behind must wait.
Stuck ==
  /\ 1..(index - 1) \subseteq Nodes
  /\ result = "none" /\ ~progressed =>
       \A n \in remaining : n < index => ~(Waits(n) \subseteq Taken)

\* A result is only given once, and rightly.
Ended ==
  /\ result = "ok" => remaining = {}
  /\ result = "CyclicModelDependency" => Knotted

IInv == TypeOK /\ Partition /\ Topological /\ Untangled /\ Stuck /\ Ended

-----------------------------------------------------------------------------
\* A wanted node waits exactly for what is upstream of it.
LEMMA WaitsAreUpstream == \A n : Waits(n) = Upstream(n)
BY DEF Waits, Upstream, Wanted, PhysicalDependencies

\* Taking a node adds it to what was taken, at the end.
LEMMA Taking ==
  ASSUME NEW S, NEW s \in Seq(S), NEW e \in S
  PROVE  LET t == Append(s, e) IN
         /\ t \in Seq(S) /\ Len(t) = Len(s) + 1
         /\ \A n \in 1..Len(s) : t[n] = s[n]
         /\ t[Len(s) + 1] = e
         /\ {t[n] : n \in 1..Len(t)} = {s[n] : n \in 1..Len(s)} \cup {e}
<1>. DEFINE t == Append(s, e)
<1>1. t \in Seq(S) /\ Len(t) = Len(s) + 1 /\ Len(s) \in Nat
      /\ \A n \in 1..Len(s) : t[n] = s[n]
      /\ t[Len(s) + 1] = e
  OBVIOUS
<1>2. 1..Len(t) = (1..Len(s)) \cup {Len(s) + 1}
  BY <1>1
<1>. QED  BY <1>1, <1>2

LEMMA Initially == Init => IInv
<1>. SUFFICES ASSUME Init PROVE IInv
  OBVIOUS
<1>1. Taken = {} /\ remaining = Wanted /\ ordered \in Seq(Wanted) /\ Len(ordered) = 0
  BY DEF Init, Taken, Schedulable, Wanted
<1>2. TypeOK
  <2>1. index \in Nat \ {0} /\ project \in Projects
    <3>1. index = 1 /\ project \in Projects
      BY DEF Init
    <3>. QED  BY <3>1
  <2>3. progressed \in BOOLEAN
    BY DEF Init
  <2>2. selected \subseteq Nodes /\ remaining \subseteq Wanted
    BY <1>1 DEF Init
  <2>. QED  BY <1>1, <2>1, <2>2, <2>3 DEF Init, TypeOK
<1>3. Partition
  BY <1>1, FS_EmptySet DEF Partition
<1>4. Topological /\ Untangled
  BY <1>1 DEF Topological, Untangled
<1>5. Stuck /\ Ended
  <2>1. index = 1 /\ 1..(index - 1) = {} /\ result = "none"
    BY DEF Init
  <2>2. \A n \in remaining : n \in Nat /\ ~(n < 1)
    <3>1. PICK last \in Nat : project.nodes = 1..last
      BY NumberedAssumption, FS_CardinalityType DEF Init
    <3>. QED  BY <3>1, <1>1, <1>2 DEF Wanted, TypeOK, Nodes
  <2>. QED  BY <2>1, <2>2 DEF Stuck, Ended
<1>. QED  BY <1>2, <1>3, <1>4, <1>5 DEF IInv

-----------------------------------------------------------------------------
\* The visit that takes a node.
LEMMA Takes ==
  ASSUME IInv, UNCHANGED <<project, selected, result>>, result = "none",
         index \in remaining, ~EphemeralCycle(project, project.deps[index]),
         Waits(index) \subseteq Taken, index' = index + 1,
         ordered' = Append(ordered, index), remaining' = remaining \ {index}, progressed' = TRUE
  PROVE  IInv'
<1>. USE DEF IInv
<1>1. index \in Wanted /\ index \in Nodes /\ index \in Nat \ {0} /\ ordered \in Seq(Wanted)
  BY DEF TypeOK, Wanted
<1>2. /\ Wanted' = Wanted /\ Nodes' = Nodes
      /\ \A n : Upstream(n)' = Upstream(n) /\ Waits(n)' = Waits(n)
  BY DEF Wanted, Nodes, Upstream, Waits
<1>3. /\ ordered' \in Seq(Wanted) /\ Len(ordered') = Len(ordered) + 1 /\ Len(ordered) \in Nat
      /\ \A n \in 1..Len(ordered) : ordered'[n] = ordered[n]
      /\ ordered'[Len(ordered) + 1] = index
      /\ Taken' = Taken \cup {index}
  BY <1>1, Taking DEF Taken
<1>4. TypeOK'
  BY <1>1, <1>2, <1>3 DEF TypeOK
<1>5. Partition'
  <2>1. index \notin Taken /\ IsFiniteSet(Taken) /\ Cardinality(Taken) = Len(ordered)
    BY DEF Partition
  <2>2. IsFiniteSet(Taken \cup {index}) /\ Cardinality(Taken \cup {index}) = Len(ordered) + 1
    BY <2>1, FS_AddElement
  <2>. QED  BY <2>2, <1>2, <1>3 DEF Partition
<1>6. Topological'
  <2>. SUFFICES ASSUME NEW n \in 1..(Len(ordered) + 1)
                PROVE  Upstream(ordered'[n]) \subseteq {ordered'[m] : m \in 1..(n - 1)}
    BY <1>2, <1>3 DEF Topological
  <2>1. \A m \in 1..(n - 1) : m \in 1..Len(ordered) /\ ordered'[m] = ordered[m]
    BY <1>3
  <2>2. CASE n \in 1..Len(ordered)
    <3>1. Upstream(ordered[n]) \subseteq {ordered[m] : m \in 1..(n - 1)}
      BY <2>2 DEF Topological
    <3>. QED  BY <3>1, <2>1, <2>2, <1>3
  <2>3. CASE n = Len(ordered) + 1
    <3>1. Upstream(index) \subseteq {ordered[m] : m \in 1..Len(ordered)}
      BY WaitsAreUpstream DEF Taken
    <3>. QED  BY <3>1, <2>1, <2>3, <1>3
  <2>4. n \in 1..Len(ordered) \/ n = Len(ordered) + 1
    BY <1>3
  <2>. QED  BY <2>2, <2>3, <2>4
<1>7. Untangled'
  <2>1. \A n \in Taken' : ~EphemeralCycle(project, project.deps[n])
    BY <1>3 DEF Untangled
  <2>2. ASSUME NEW S \in SUBSET Wanted, \A n \in S : Upstream(n) \cap S # {}
        PROVE  S \cap Taken' = {}
    <3>1. S \cap Taken = {}
      BY <2>2 DEF Untangled
    <3>2. index \notin S
      BY <3>1, <2>2, WaitsAreUpstream
    <3>. QED  BY <3>1, <3>2, <1>3
  <2>. QED  BY <2>1, <2>2, <1>2 DEF Untangled
<1>8. Stuck'
  <2>1. 1..(index' - 1) = 1..(index - 1) \cup {index}
    BY <1>1
  <2>. QED  BY <2>1, <1>1, <1>2 DEF Stuck
<1>9. Ended'
  BY DEF Ended
<1>. QED  BY <1>4, <1>5, <1>6, <1>7, <1>8, <1>9

\* A step that takes no node and changes no result.
LEMMA Leaves ==
  ASSUME IInv, UNCHANGED <<project, selected, ordered, remaining>>,
         index' \in Nat \ {0}, progressed' \in BOOLEAN,
         result' \in {"none", "ok", "CyclicModelDependency"}, Stuck', Ended'
  PROVE  IInv'
<1>1. /\ Wanted' = Wanted /\ Nodes' = Nodes /\ Taken' = Taken
      /\ \A n : Upstream(n)' = Upstream(n)
  BY DEF Wanted, Nodes, Upstream, Taken
<1>2. TypeOK'
  BY <1>1 DEF IInv, TypeOK
<1>3. Partition'
  BY <1>1 DEF IInv, Partition
<1>4. Topological'
  <2>1. ordered' = ordered /\ project' = project /\ selected' = selected
    OBVIOUS
  <2>. QED  BY <2>1 DEF IInv, Topological, Upstream, Wanted, PhysicalDependencies
<1>5. Untangled'
  BY <1>1 DEF IInv, Untangled
<1>. QED  BY <1>2, <1>3, <1>4, <1>5 DEF IInv

LEMMA VisitKeeps == IInv /\ Visit => IInv'
<1>. SUFFICES ASSUME IInv, Visit PROVE IInv'
  OBVIOUS
<1>1. /\ result = "none" /\ index \in Nodes /\ index \in Nat \ {0}
      /\ UNCHANGED <<project, selected>>
      /\ progressed \in BOOLEAN
  BY DEF Visit, IInv, TypeOK
<1>2. CASE index \in remaining /\ EphemeralCycle(project, project.deps[index])
  <2>1. result' = "CyclicModelDependency" /\ UNCHANGED <<remaining, ordered, index, progressed>>
    BY <1>2 DEF Visit
  <2>2. Knotted'
    BY <1>1, <1>2 DEF Knotted, Wanted, IInv, TypeOK
  <2>3. Stuck' /\ Ended'
    BY <1>1, <2>1, <2>2 DEF Stuck, Ended, IInv, Nodes
  <2>. QED  BY <1>1, <2>1, <2>3, Leaves
<1>3. CASE ~(index \in remaining /\ EphemeralCycle(project, project.deps[index]))
  <2>1. index' = index + 1 /\ UNCHANGED result
    BY <1>3 DEF Visit
  <2>2. CASE index \in remaining /\ Waits(index) \subseteq Taken
    <3>1. /\ ordered' = Append(ordered, index) /\ remaining' = remaining \ {index}
          /\ progressed' = TRUE
      BY <1>3, <2>2 DEF Visit
    <3>. QED  BY <1>1, <1>3, <2>1, <2>2, <3>1, Takes
  <2>3. CASE ~(index \in remaining /\ Waits(index) \subseteq Taken)
    <3>1. UNCHANGED <<remaining, ordered, progressed>>
      BY <1>3, <2>3 DEF Visit
    <3>2. Nodes' = Nodes /\ Taken' = Taken /\ \A n : Waits(n)' = Waits(n)
      BY <1>1, <3>1 DEF Nodes, Taken, Waits
    <3>3. \A n \in remaining : n \in Nat
      <4>1. PICK last \in Nat : project.nodes = 1..last
        BY NumberedAssumption, FS_CardinalityType DEF IInv, TypeOK
      <4>. QED  BY <4>1 DEF IInv, TypeOK, Wanted, Nodes
    <3>4. 1..(index' - 1) = 1..(index - 1) \cup {index}
      BY <1>1, <2>1
    <3>5. ASSUME ~progressed, NEW n \in remaining, n < index + 1
          PROVE  ~(Waits(n) \subseteq Taken)
      <4>1. n < index \/ n = index
        BY <3>3, <3>5, <1>1
      <4>. QED  BY <4>1, <3>5, <1>1, <2>3 DEF IInv, Stuck
    <3>6. 1..(index' - 1) \subseteq Nodes
      BY <3>4, <1>1 DEF IInv, Stuck
    <3>7. Stuck'
      BY <3>1, <3>2, <3>5, <3>6, <2>1 DEF Stuck
    <3>8. Ended'
      BY <2>1, <1>1 DEF Ended
    <3>. QED  BY <1>1, <2>1, <3>1, <3>7, <3>8, Leaves
  <2>. QED  BY <2>2, <2>3
<1>. QED  BY <1>2, <1>3

\* What a pass without progress leaves is a knot.
LEMMA EndPassKeeps == IInv /\ EndPass => IInv'
<1>. SUFFICES ASSUME IInv, EndPass PROVE IInv'
  OBVIOUS
<1>1. /\ result = "none" /\ index \notin Nodes /\ index' = 1 /\ progressed' = FALSE
      /\ UNCHANGED <<project, selected, remaining, ordered>>
  BY DEF EndPass
<1>2. index \in Nat \ {0} /\ progressed \in BOOLEAN /\ remaining \subseteq Wanted
  BY DEF IInv, TypeOK
<1>3. PICK last \in Nat : project.nodes = 1..last
  BY NumberedAssumption, FS_CardinalityType DEF IInv, TypeOK
<1>4. \A n \in remaining : n \in 1..last
  BY <1>2, <1>3 DEF IInv, TypeOK, Wanted, Nodes
<1>5. index = last + 1
  <2>1. 1..(index - 1) \subseteq 1..last
    BY <1>3 DEF IInv, Stuck, Nodes
  <2>2. index \notin 1..last
    BY <1>1, <1>3 DEF Nodes
  <2>3. index > 1 => (index - 1) \in 1..(index - 1)
    BY <1>2
  <2>. QED  BY <2>1, <2>2, <2>3, <1>2
<1>6. /\ result' \in {"none", "ok", "CyclicModelDependency"}
      /\ result' = "ok" => remaining = {}
      /\ result' = "CyclicModelDependency" => remaining # {} /\ ~progressed
  BY <1>1 DEF EndPass
<1>7. ASSUME remaining # {}, ~progressed PROVE Knotted
  <2>1. ASSUME NEW n \in remaining PROVE Upstream(n) \cap remaining # {}
    <3>1. ~(Upstream(n) \subseteq Taken)
      BY <1>1, <1>4, <1>5, <1>7, WaitsAreUpstream DEF IInv, Stuck
    <3>2. Upstream(n) \subseteq Taken \cup remaining
      BY DEF Upstream, IInv, Partition
    <3>. QED  BY <3>1, <3>2
  <2>. QED  BY <1>2, <1>7, <2>1 DEF Knotted
<1>8. Knotted' <=> Knotted
  BY <1>1 DEF Knotted, Wanted, Upstream
<1>9. Ended'
  BY <1>1, <1>6, <1>7, <1>8 DEF Ended
<1>10. Stuck'
  <2>1. 1..(index' - 1) = {}
    BY <1>1
  <2>2. \A n \in remaining' : ~(n < index')
    BY <1>1, <1>4
  <2>. QED  BY <2>1, <2>2 DEF Stuck
<1>11. index' \in Nat \ {0}
  <2>1. index' = 1
    BY <1>1
  <2>. QED  BY <2>1
<1>12. progressed' \in BOOLEAN
  BY <1>1
<1>. QED  BY <1>1, <1>6, <1>9, <1>10, <1>11, <1>12, Leaves

LEMMA Stays == IInv /\ UNCHANGED vars => IInv'
<1>. SUFFICES ASSUME IInv, UNCHANGED vars PROVE IInv'
  OBVIOUS
<1>1. UNCHANGED <<project, selected, ordered, remaining>> /\ UNCHANGED <<index, progressed, result>>
  BY DEF vars
<1>2. Stuck' /\ Ended'
  BY <1>1 DEF IInv, Stuck, Ended, Knotted, Taken, Nodes, Wanted, Upstream, Waits
<1>3. /\ index' \in Nat \ {0} /\ result' \in {"none", "ok", "CyclicModelDependency"}
      /\ progressed' \in BOOLEAN
  BY <1>1 DEF IInv, TypeOK
<1>. QED  BY <1>1, <1>2, <1>3, Leaves

\* The invariant holds for every graph and selection.
LEMMA Invariant == Spec => []IInv
<1>1. IInv /\ [Next]_vars => IInv'
  BY VisitKeeps, EndPassKeeps, Stays DEF Next, Done
<1>. QED  BY <1>1, Initially, PTL DEF Spec

-----------------------------------------------------------------------------
\* Every variable keeps its type.
THEOREM TypeCorrect == Spec => []TypeOK
<1>1. IInv => TypeOK
  BY DEF IInv
<1>. QED  BY <1>1, Invariant, PTL

\* The order orderNodes returns is topological, also through ephemeral models.
THEOREM AlwaysTopological == Spec => []Topological
<1>1. IInv => Topological
  BY DEF IInv
<1>. QED  BY <1>1, Invariant, PTL

\* orderNodes takes every wanted node once, or there is a cycle and it says so;
\* it never reports a cycle that is not there.
THEOREM AlwaysCompleteOrCyclic == Spec => []CompleteOrCyclic
<1>1. ASSUME IInv PROVE CompleteOrCyclic
  <2>1. CASE result = "ok"
    <3>1. Taken = Wanted /\ Len(ordered) = Cardinality(Wanted)
      BY <1>1, <2>1 DEF IInv, Ended, Partition
    <3>2. ~Knotted
      BY <1>1, <3>1 DEF IInv, Untangled, Knotted
    <3>. QED  BY <2>1, <3>1, <3>2 DEF CompleteOrCyclic
  <2>2. CASE result # "ok"
    BY <1>1, <2>2 DEF IInv, Ended, CompleteOrCyclic
  <2>. QED  BY <2>1, <2>2
<1>. QED  BY <1>1, Invariant, PTL
=============================================================================
