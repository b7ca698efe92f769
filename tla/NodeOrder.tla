------------------------------ MODULE NodeOrder ------------------------------
(***************************************************************************)
(* scheduler.zig's orderNodes: the order in which the one-thread commands  *)
(* run the selected nodes.  It passes over graph.nodes again and again,    *)
(* taking every node whose selected physical dependencies were taken       *)
(* before, and reports a cycle when a pass takes none.                     *)
(*                                                                         *)
(* Nodes are numbered in the order of graph.nodes.  Projects here may be   *)
(* cyclic.                                                                 *)
(***************************************************************************)
EXTENDS BuildGraph

ASSUME NumberedAssumption ==
  \A p \in Projects : IsFiniteSet(p.nodes) /\ p.nodes = 1..Cardinality(p.nodes)

VARIABLES project, selected,  \* the graph and the selection
          remaining, ordered, \* nodes still to take, nodes taken
          index, progressed,  \* where the pass is and whether it took a node
          result

vars == <<project, selected, remaining, ordered, index, progressed, result>>

Nodes == project.nodes
Taken == {ordered[n] : n \in 1..Len(ordered)}

\* The selected nodes that have a completion event of their own.  A selection
\* holds enabled nodes only, and seeds only where the caller includes them.
Schedulable == selected \ project.ephemeral

\* Mutation: a node behind an ephemeral model is not waited for.
WaitsDirectly(n) == (project.deps[n] \cap selected) \ project.ephemeral

\* Mutation: unselected nodes are waited for.
WaitsForAll(n) == PhysicalDependencies(project, project.deps[n])

Waits(n) == PhysicalDependencies(project, project.deps[n]) \cap selected

Init ==
  /\ project \in Projects
  /\ selected \in SUBSET Nodes
  /\ remaining = Schedulable
  /\ ordered = <<>>
  /\ index = 1 /\ progressed = FALSE
  /\ result = "none"

\* dependenciesCompleted fails on a cycle of ephemerals.
Visit ==
  /\ result = "none" /\ index \in Nodes
  /\ IF index \in remaining /\ EphemeralCycle(project, project.deps[index])
     THEN result' = "CyclicModelDependency" /\ UNCHANGED <<remaining, ordered, index, progressed>>
     ELSE /\ index' = index + 1
          /\ UNCHANGED result
          /\ IF index \in remaining /\ Waits(index) \subseteq Taken
             THEN /\ ordered' = Append(ordered, index)
                  /\ remaining' = remaining \ {index}
                  /\ progressed' = TRUE
             ELSE UNCHANGED <<remaining, ordered, progressed>>
  /\ UNCHANGED <<project, selected>>

EndPass ==
  /\ result = "none" /\ index \notin Nodes
  /\ result' = IF remaining = {} THEN "ok"
               ELSE IF ~progressed THEN "CyclicModelDependency" ELSE "none"
  /\ index' = 1 /\ progressed' = FALSE
  /\ UNCHANGED <<project, selected, remaining, ordered>>

Done == result # "none" /\ UNCHANGED vars

Next == Visit \/ EndPass \/ Done

Spec == Init /\ [][Next]_vars

-----------------------------------------------------------------------------
\* What the selection asks for.
Wanted == {n \in selected : n \notin project.ephemeral}
Upstream(n) == PhysicalDependencies(project, project.deps[n]) \cap Wanted

\* Every variable holds a value of its type.
TypeOK ==
  /\ project \in Projects /\ selected \subseteq Nodes
  /\ remaining \subseteq Wanted
  /\ ordered \in Seq(Wanted)
  /\ index \in Nat \ {0} /\ progressed \in BOOLEAN
  /\ result \in {"none", "ok", "CyclicModelDependency"}

\* Every node taken comes after the selected nodes it reads from, also those
\* behind ephemeral models.
Topological ==
  \A n \in 1..Len(ordered) :
    Upstream(ordered[n]) \subseteq {ordered[m] : m \in 1..n-1}

\* A cycle of ephemeral models the traversal meets, or a set of nodes each of
\* which waits for another of the set.
Knotted ==
  \/ \E n \in Wanted : EphemeralCycle(project, project.deps[n])
  \/ \E S \in (SUBSET Wanted) \ {{}} : \A n \in S : Upstream(n) \cap S # {}

\* The order contains exactly what was selected, each node once, and a cycle
\* is reported exactly if there is one.
CompleteOrCyclic ==
  /\ result = "ok" => Taken = Wanted /\ Len(ordered) = Cardinality(Wanted)
  /\ result = "ok" => ~Knotted
  /\ result = "CyclicModelDependency" => Knotted
=============================================================================
