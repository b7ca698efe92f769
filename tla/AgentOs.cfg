\* A supervisor beside other commands, with failures anywhere.
SPECIFICATION Spec
CONSTANTS
  Issues = {1, 2, 3}
  LabelsOf <- MCLabels
  DependsOn <- MCDepends
  Expected <- MCExpected
  Touches <- MCTouches
  Cites <- MCCites
  OverlapLabels = {"area:semantic", "area:artifacts", "artifact:manifest", "command:run"}
  Given = 9
  PrNumbers = {1, 2}
  Pids = {1, 2, 3}
  Scenarios <- MCScenarios
INVARIANTS
  EditorsApart
  WorkersWithinLimit
  DependenciesFirst
  MergesApart
PROPERTIES
  RemovesOnlyMerged
CHECK_DEADLOCK FALSE
