\* Two watchers of one pane, and two of the detached tool; two requests each.
SPECIFICATION Spec
CONSTANTS
  PaneWatchers = {1, 2}
  PlugWatchers = {1, 2}
  MaxPanes = 1
  PaneRequests = 2
  PlugRequests = 2
INVARIANTS
  RespawnsOverNothing
  ExitOnlyWhenReady
  OneGuardian
  LaunchedOnce
PROPERTIES
  ReadyIsServed
  RequestIsServed
CHECK_DEADLOCK FALSE
