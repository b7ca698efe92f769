SPECIFICATION Spec
CONSTANTS
  Projects <- AllGraphs
INVARIANTS
  Topological
  CompleteOrCyclic
