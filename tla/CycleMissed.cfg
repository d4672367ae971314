CONSTANTS
  Workload = {1, 2, 3, 4}
  Dependencies <- Graphs
  Searching = Searching
  Acyclic = Acyclic
SPECIFICATION Spec
CHECK_DEADLOCK FALSE
INVARIANT CyclesAreRejected
