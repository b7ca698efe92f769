SPECIFICATION Spec
CONSTANTS
  Prs = {1, 2}
  ReleasePr = 2
  LinuxTargets = {"linux"}
  MacTargets = {"macos"}
  CommonMembers = {"README.md"}
  DriverMembers = {"NOTICE"}
  Suite <- MCSuite
  Partial <- MCPartial
  ShardCount = 2
  Weights <- MCWeights
  Runtime = "x86_64"
  Archives <- MCArchives
  Content <- MCContent
  MaxReleases = 2
  Scopes <- MCScopes
INVARIANTS
  PlansAreValid
  CertifiedIsProven
  PublishedTested
  PublishedRuns
PROPERTIES
  MovedTagRejected
  FinishedIsWhole
CHECK_DEADLOCK FALSE
