\* A batch of two workers under --branch.
SPECIFICATION Spec
CONSTANTS
  Issues = {1, 2, 3}
  LabelsOf <- MCLabels
  DependsOn <- MCDepends
  Expected <- MCExpected
  Touches <- MCTouches
  Cites <- MCCites
  OverlapLabels = {"area:semantic", "area:artifacts", "artifact:manifest", "command:run"}
  Given = 9
  PrNumbers = {1, 2}
  Pids = {1, 2, 3}
  Scenarios <- BranchScenarios
INVARIANTS
  EditorsApart
CHECK_DEADLOCK FALSE
