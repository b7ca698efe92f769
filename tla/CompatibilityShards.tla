------------------------ MODULE CompatibilityShards ------------------------
(***************************************************************************)
(* The evidence of a sharded test run: the plan that spreads whole test    *)
(* modules over shards, what the pytest plugin records of a shard, and the *)
(* audit that accepts the shards together (scripts/compatibility_shards.py, *)
(* pytest_shard.py, check_compatibility_shards.py, check_pytest_report.py). *)
(* A node is a test case: its module and its number within it.             *)
(***************************************************************************)
EXTENDS Naturals, Sequences, FiniteSets, SequencesExt

ModulesOf(nodes) == {n.module : n \in ToSet(nodes)}

UniqueNodes(nodes) == nodes # <<>> /\ IsInjective(nodes)

-----------------------------------------------------------------------------
(* The plan                                                                 *)

\* Tenths of a second: the module's timing, or 2.2 s for each of its cases.
Cost(module, nodes, weights) ==
  IF module \in DOMAIN weights THEN weights[module]
  ELSE 22 * Cardinality({i \in DOMAIN nodes : nodes[i].module = module})

\* Mutation: a module may weigh nothing.
WeightlessRefused(nodes, count, weights) ==
  ~UniqueNodes(nodes) \/ count = 0 \/ Cardinality(ModulesOf(nodes)) < count

PlanRefused(nodes, count, weights) ==
  \/ ~UniqueNodes(nodes) \/ count = 0 \/ Cardinality(ModulesOf(nodes)) < count
  \/ \E m \in ModulesOf(nodes) : Cost(m, nodes, weights) = 0

\* The module that is scheduled first: the longest, of these the first by name.
Before(m, n, nodes, weights) ==
  \/ Cost(m, nodes, weights) > Cost(n, nodes, weights)
  \/ Cost(m, nodes, weights) = Cost(n, nodes, weights) /\ m < n

Longest(modules, nodes, weights) ==
  CHOOSE m \in modules : \A n \in modules \ {m} : Before(m, n, nodes, weights)

\* The shard with the least load, of these the first.
Lightest(loads) ==
  CHOOSE i \in DOMAIN loads : \A j \in DOMAIN loads :
    loads[i] < loads[j] \/ (loads[i] = loads[j] /\ i <= j)

Empty(count) == [loads |-> [i \in 0..(count - 1) |-> 0], shard |-> << >>]

\* The longest of the modules that are left goes to the lightest shard.
Place(done, nodes, weights) ==
  LET m == Longest(ModulesOf(nodes) \ DOMAIN done.shard, nodes, weights)
      i == Lightest(done.loads)
  IN [loads |-> [done.loads EXCEPT ![i] = @ + Cost(m, nodes, weights)],
      shard |-> [n \in DOMAIN done.shard \cup {m} |-> IF n = m THEN i ELSE done.shard[n]]]

Assignment(nodes, count, weights) ==
  LET modules == Cardinality(ModulesOf(nodes))
      placed[k \in 0..modules] ==
        IF k = 0 THEN Empty(count) ELSE Place(placed[k - 1], nodes, weights)
  IN placed[modules].shard

MakePlan(nodes, count, weights, source) ==
  [source |-> source, count |-> count, collected |-> nodes, shard |-> Assignment(nodes, count, weights)]

ValidPlan(plan) ==
  /\ UniqueNodes(plan.collected) /\ plan.count > 0
  /\ DOMAIN plan.shard = ModulesOf(plan.collected)
  /\ {plan.shard[m] : m \in DOMAIN plan.shard} = 0..(plan.count - 1)

AssignedNodes(plan, index) == {n \in ToSet(plan.collected) : plan.shard[n.module] = index}

-----------------------------------------------------------------------------
(* A shard.  A case passes in all three phases, fails, is skipped (or fails *)
(* as expected), passes though it was expected to fail, or passes and then  *)
(* fails in its teardown.                                                   *)

Outcomes == {"passed", "failed", "skipped", "xpassed", "torn_down"}

\* The plugin refuses to run what the plan was not made for.
ShardRefused(plan, source, collected) ==
  ~ValidPlan(plan) \/ source # plan.source \/ collected # plan.collected

\* Mutation: a case that passed against expectation counts as passed.
PassedInAnyWay(plan, index, outcome) ==
  {n \in AssignedNodes(plan, index) : outcome[n] \in {"passed", "xpassed"}}

Passed(plan, index, outcome) == {n \in AssignedNodes(plan, index) : outcome[n] = "passed"}

Broken(plan, index, outcome, kinds) == \E n \in AssignedNodes(plan, index) : outcome[n] \in kinds

Manifest(plan, index, source, runtime, outcome) ==
  [index |-> index, source |-> source, runtime |-> runtime, count |-> plan.count,
   collected |-> plan.collected, assigned |-> AssignedNodes(plan, index),
   passed |-> Passed(plan, index, outcome),
   exit |-> IF Broken(plan, index, outcome, {"failed", "torn_down"}) THEN 1 ELSE 0]

\* The JUnit report, written by pytest: a case that fails in its teardown is
\* there twice, and an unexpected pass cannot be told from a pass.
Report(plan, index, outcome) ==
  [cases   |-> AssignedNodes(plan, index) \X {"call"}
               \cup {n \in AssignedNodes(plan, index) : outcome[n] = "torn_down"} \X {"teardown"},
   spoilt |-> Broken(plan, index, outcome, {"failed", "skipped", "torn_down"})]

-----------------------------------------------------------------------------
(* The audit                                                                *)

NodesOf(report) == {c[1] : c \in report.cases}

\* No failure, error or skip, and as many cases as expected.
ValidReport(report, expected) ==
  ~report.spoilt /\ report.cases # {} /\ Cardinality(report.cases) = expected

ValidShard(plan, index, manifest, report, runtime) ==
  LET expected == AssignedNodes(plan, index)
  IN /\ manifest.index = index /\ manifest.source = plan.source /\ manifest.count = plan.count
     /\ manifest.runtime = runtime
     /\ manifest.collected = plan.collected /\ manifest.assigned = expected
     /\ manifest.exit = 0
     /\ manifest.passed # {} /\ manifest.passed = expected
     /\ ValidReport(report, Cardinality(expected))
     /\ NodesOf(report) = expected

\* Every shard of the plan has one manifest and one report, each is valid, and
\* together they are the whole collection.
ValidShards(plan, manifests, reports, source, runtime) ==
  /\ ValidPlan(plan) /\ plan.source = source
  /\ DOMAIN manifests = 0..(plan.count - 1) /\ DOMAIN reports = 0..(plan.count - 1)
  /\ \A i \in DOMAIN manifests : ValidShard(plan, i, manifests[i], reports[i], runtime)
  /\ \A i, j \in DOMAIN reports : i # j => NodesOf(reports[i]) \cap NodesOf(reports[j]) = {}
  /\ UNION {NodesOf(reports[i]) : i \in DOMAIN reports} = ToSet(plan.collected)
=============================================================================
