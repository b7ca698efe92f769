----------------------------- MODULE MCAgentOs -----------------------------
(***************************************************************************)
(* Issues 1 and 2 change a common file, which issue 1 announces and a      *)
(* worker of issue 2 may push late; issue 3 depends on issue 2, and the    *)
(* pull request of issue 2 may on issue 1.  A supervisor runs beside other  *)
(* commands.                                                               *)
(***************************************************************************)
EXTENDS AgentOs

MCLabels == [i \in Issues |-> {"status:ready", IF i = 1 THEN "priority:p1" ELSE "priority:p0"}]
MCTouches == [i \in Issues |-> CASE i = 1 -> {"lib"} [] i = 2 -> {"lib", "main"} [] i = 3 -> {"docs"}]
MCExpected == [i \in Issues |-> IF i = 1 THEN {"lib"} ELSE {}]
MCCites == [i \in Issues |-> IF i = 2 THEN {1} ELSE {}]
MCDepends == [i \in Issues |-> IF i = 3 THEN {2} ELSE {}]

Scenario(kinds, issues, workers, branch, failures) ==
  [kind |-> kinds, open |-> issues, workers |-> workers, branch |-> branch,
   rounds |-> 2, faults |-> failures, fallible |-> Fallible]
Beside(k) == [a |-> "run", b |-> k]

\* The supervisor alone meets three failures, and can list its worktrees: with
\* a list of worktrees that fails three of them would part EditorsApart.  With
\* two workers it merges in two passes, or in one that may fail to read.
MCScenarios ==
  {Scenario(Beside("cleanup"), {2}, 1, NoBranch, 1),
   Scenario(Beside("stop"), {2, 3}, 1, NoBranch, 1), Scenario(Beside("status"), {2, 3}, 2, NoBranch, 1),
   Scenario(Beside("pm"), {2}, 1, NoBranch, 1), Scenario(Beside("merge"), {2}, 1, NoBranch, 1),
   [Scenario([a |-> "run"], {2}, 1, NoBranch, 3) EXCEPT !.fallible = Fallible \ {"worktrees"}],
   Scenario([a |-> "run-merge"], {1, 2}, 2, NoBranch, 0),
   [Scenario([a |-> "run-merge"], {1, 2}, 2, NoBranch, 1) EXCEPT !.rounds = 1, !.fallible = {"details"}]}

BranchScenarios == {Scenario([a |-> "run"], {1, 2}, 2, Given, 0)}
=============================================================================
