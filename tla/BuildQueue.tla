----------------------------- MODULE BuildQueue -----------------------------
(***************************************************************************)
(* What a build promises, whoever schedules it: every selected resource    *)
(* either runs once or is skipped; it runs only after the nodes it reads   *)
(* from succeeded and, in a build, after the unit tests of its model and   *)
(* of the models above it passed; at most `threads' resources run at a     *)
(* time; skipping needs a failure; and nothing runs after the end.         *)
(***************************************************************************)
EXTENDS BuildGraph

CONSTANTS Limits    \* the possible numbers of workers

VARIABLES project, mode, limit, phase, over

vars == <<project, mode, limit, phase, over>>

Jobs == JobSet(project)
Id(j) == project.jobs[j]
In(p) == {j \in Jobs : phase[j] = p}

Init ==
  /\ project \in Projects /\ mode \in Modes /\ limit \in Limits
  /\ phase = [j \in Jobs |-> "waiting"]
  /\ over = FALSE

ReadsFrom(j, k) ==
  /\ project.kind[Id(k)] = "node"
  /\ Id(k) \in PhysicalDependencies(project, project.deps[Id(j)]) \ UnitTarget(project, Id(j))

\* k is a unit test of j or of a node above j.
GatedByUnit(j, k) ==
  /\ mode = "execute" /\ project.kind[Id(j)] = "node"
  /\ UnitTarget(project, Id(k)) \cap (AllAncestors(project, project.deps[Id(j)]) \cup {Id(j)}) # {}

Start(j) ==
  /\ ~over /\ phase[j] = "waiting"
  /\ Cardinality(In("running")) < limit
  /\ \A k \in Jobs : ReadsFrom(j, k) \/ GatedByUnit(j, k) => phase[k] = "succeeded"
  /\ phase' = [phase EXCEPT ![j] = "running"]

End(j) ==
  /\ ~over /\ phase[j] = "running"
  /\ \E p \in {"succeeded", "failed"} : phase' = [phase EXCEPT ![j] = p]

SkipOne(j) ==
  /\ ~over /\ phase[j] = "waiting" /\ In("failed") # {}
  /\ phase' = [phase EXCEPT ![j] = "skipped"]

Close == ~over /\ In("running") = {} /\ over' = TRUE

Next ==
  /\ UNCHANGED <<project, mode, limit>>
  /\ \/ UNCHANGED over /\ \E j \in Jobs : Start(j) \/ End(j) \/ SkipOne(j)
     \/ UNCHANGED phase /\ Close

Spec == Init /\ [][Next]_vars
=============================================================================
