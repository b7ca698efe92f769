\* Two tests that each span both branches of an acyclic project.
SPECIFICATION Spec
CONSTANTS
  Projects <- CrossingProjects
  ThreadCounts = {2}
  RunModes = {"execute"}
  NodeOutcomes = {"success"}
  TestOutcomes = {"pass"}
  CallsMayFail = FALSE
INVARIANTS
  NoFalseCycle
