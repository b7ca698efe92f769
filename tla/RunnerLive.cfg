\* Every run returns and fail-fast drains, whatever fails.
SPECIFICATION FairSpec
CONSTANTS
  Projects <- LiveProjects
  ThreadCounts = {1, 2}
  RunModes = {"execute"}
  NodeOutcomes = {"success", "error"}
  TestOutcomes = {"pass", "fail"}
  CallsMayFail = TRUE
PROPERTIES
  Terminates
  StopDrains
