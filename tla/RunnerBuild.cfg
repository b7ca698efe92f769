\* Builds of five projects, and compilations of these and of one with ephemeral
\* jobs, by one or two workers, with and without fail-fast and
\* --single-threaded; the supervisor's own calls may fail at any point.
SPECIFICATION Spec
CONSTANTS
  Projects <- AllProjects
  ThreadCounts = {1, 2}
  RunModes = {"execute", "compile"}
  NodeOutcomes = {"success", "error"}
  TestOutcomes = {"pass", "fail"}
  CallsMayFail = TRUE
INVARIANTS
  UpstreamSettled
  TestsGate
  OnlyDescendantsSkipped
  SummaryTruthful
  NoFalseCycle
  JoinedBeforeReturn
  CancelIsSafe
PROPERTIES
  ImplementsQueue
