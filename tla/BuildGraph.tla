----------------------------- MODULE BuildGraph -----------------------------
(***************************************************************************)
(* The dependency graph of a dxt project, as the schedulers read it:       *)
(* scheduler.zig's traversals and the prerequisite edges that              *)
(* concurrent_runner.zig draws between the selected resources.             *)
(*                                                                         *)
(* A project is a record:                                                  *)
(*   nodes      ids of graph.nodes (models, seeds, snapshots)              *)
(*   ephemeral  the nodes that are ephemeral models                        *)
(*   kind       every resource's kind; a resource is a node or a test      *)
(*   deps       every resource's depends_on; may name sources              *)
(*   target     the node a unit test is about, the node or source a        *)
(*              generic test is attached to; others have no entry          *)
(*   jobs       the selected resources, in the order the command lists     *)
(*              them: nodes, then data tests, then unit tests              *)
(*                                                                         *)
(* The traversals are recursive in the code.  Here a closure is the least  *)
(* set that is closed under the edges, which needs no induction to reason  *)
(* about, and is tabulated once per project.                               *)
(***************************************************************************)
EXTENDS Naturals, Sequences, FiniteSets

CONSTANT Projects

Kinds == {"node", "generic", "singular", "unit"}
Modes == {"execute", "compile"}

Resources(p) == DOMAIN p.deps
Ids(p) == Resources(p) \cup UNION {p.deps[r] : r \in Resources(p)}

\* The ids reached from x along the dependencies of the nodes in `through`.
\* A node outside `through` is reached but not passed.
Closed(p, through, C) == \A y \in C \cap through : p.deps[y] \subseteq C
Closure(p, through, x) ==
  {y \in Ids(p) :
     \A C \in SUBSET Ids(p) : (x \in C /\ Closed(p, through, C)) => y \in C}

\* Tabulated: TLC evaluates a constant definition once.
Up == [p \in Projects |-> [x \in Ids(p) |-> Closure(p, p.nodes, x)]]
Through == [p \in Projects |-> [x \in Ids(p) |-> Closure(p, p.ephemeral, x)]]

\* collectDependencies(all_ancestors = true): the dependencies themselves and
\* everything above them.
AllAncestors(p, S) == UNION {Up[p][x] : x \in S}

\* physicalDependencies: ephemeral nodes are replaced by what is behind them.
PhysicalDependencies(p, S) == (UNION {Through[p][x] : x \in S}) \ p.ephemeral

\* It is an error if the traversal comes back to an ephemeral node it is in.
EphemeralCycle(p, S) ==
  \E x \in S : \E y \in Through[p][x] \cap p.ephemeral :
    \E d \in p.deps[y] : y \in Through[p][d]

BlockedBy(p, dependencies, blocked) ==
  AllAncestors(p, dependencies) \cap blocked # {}

\* unitTarget: the node of the graph the unit test names, if there is one.
UnitTarget(p, r) ==
  IF p.kind[r] = "unit" THEN {p.target[r]} \cap p.nodes ELSE {}

AttachedTo(p, r) ==
  IF p.kind[r] = "generic" /\ r \in DOMAIN p.target THEN {p.target[r]} ELSE {}

IsDataTest(p, r) == p.kind[r] \in {"generic", "singular"}

JobSet(p) == 1..Len(p.jobs)

-----------------------------------------------------------------------------
(* wirePrerequisites, one edge rule per operator: `job' waits for `other'. *)

NeedsOutput(p, r, o) ==
  \/ o \in PhysicalDependencies(p, p.deps[r]) \ UnitTarget(p, r)
  \/ \E t \in UnitTarget(p, r) : o \in PhysicalDependencies(p, p.deps[t])

\* Mutation: only the target itself waits for its unit tests.
UnitGatesTarget(p, r, o) == p.kind[r] = "node" /\ r \in UnitTarget(p, o)

\* A unit test runs before its target model and before the nodes below it.
UnitGates(p, r, o) ==
  /\ p.kind[r] = "node"
  /\ \E t \in UnitTarget(p, o) : r = t \/ BlockedBy(p, p.deps[r], {t})

\* Unit tests of one model run one after the other.
UnitChain(p, j, k) ==
  /\ UnitTarget(p, p.jobs[j]) # {}
  /\ UnitTarget(p, p.jobs[k]) = UnitTarget(p, p.jobs[j])
  /\ k < j

\* A test that needs the node, or something below it, cannot gate the node.
WouldCycle(p, r, t) ==
  \E d \in p.deps[t] :
    \/ d = r
    \/ d \in p.nodes /\ BlockedBy(p, p.deps[d], {r})

\* Mutation: only tests of direct dependencies gate.
DirectTestGates(p, r, o) ==
  /\ p.kind[r] = "node" /\ IsDataTest(p, o)
  /\ p.deps[r] \cap p.deps[o] # {}
  /\ ~WouldCycle(p, r, o)

\* Mutation: tests that need the node gate it too.
AnyTestGates(p, r, o) ==
  /\ p.kind[r] = "node" /\ IsDataTest(p, o)
  /\ BlockedBy(p, p.deps[r], p.deps[o])

DataTestGates(p, r, o) ==
  /\ p.kind[r] = "node" /\ IsDataTest(p, o)
  /\ BlockedBy(p, p.deps[r], p.deps[o])
  /\ ~WouldCycle(p, r, o)

Prerequisites(p, mode, j) ==
  {k \in JobSet(p) \ {j} :
     LET r == p.jobs[j]
         o == p.jobs[k]
     IN  \/ NeedsOutput(p, r, o)
         \/ /\ mode = "execute"
            /\ UnitGates(p, r, o) \/ UnitChain(p, j, k) \/ DataTestGates(p, r, o)}

-----------------------------------------------------------------------------
(* What a failed or skipped resource blocks, and who is blocked. *)

\* addBlockers
Blockers(p, r) ==
  IF UnitTarget(p, r) # {} THEN UnitTarget(p, r)
  ELSE IF AttachedTo(p, r) # {} THEN AttachedTo(p, r)
  ELSE IF p.kind[r] = "singular" THEN p.deps[r]
  ELSE {r}

\* Mutation: only direct dependencies block.
DirectlyBlocked(p, r, blocked) == (p.deps[r] \cup {r}) \cap blocked # {}

ResourceBlocked(p, r, blocked) ==
  \/ r \in blocked
  \/ \E t \in UnitTarget(p, r) : t \in blocked \/ BlockedBy(p, p.deps[t], blocked)
  \/ BlockedBy(p, p.deps[r], blocked)

-----------------------------------------------------------------------------
(* The projects the loader builds: references resolve to nodes and sources *)
(* and never to tests, a unit test depends on exactly its target, a        *)
(* generic test on what it is attached to, and a selection lists a         *)
(* resource once.                                                          *)
WellFormed(p) ==
  /\ p.nodes \subseteq Resources(p)
  /\ p.ephemeral \subseteq p.nodes
  /\ DOMAIN p.kind = Resources(p)
  /\ \A r \in Resources(p) : /\ p.kind[r] \in Kinds
                             /\ p.kind[r] = "node" <=> r \in p.nodes
                             /\ p.kind[r] = "unit" =>
                                  r \in DOMAIN p.target /\ p.deps[r] = {p.target[r]}
                             /\ AttachedTo(p, r) \subseteq p.deps[r]
                             /\ p.deps[r] \cap Resources(p) \subseteq p.nodes
  /\ DOMAIN p.target \subseteq Resources(p)
  /\ p.jobs \in Seq(Resources(p))
  /\ \A j, k \in JobSet(p) : p.jobs[j] = p.jobs[k] => j = k

NoCycle(p) == \A r \in Resources(p) : r \notin AllAncestors(p, p.deps[r])

ASSUME ProjectsAssumption == \A p \in Projects : WellFormed(p)
=============================================================================
