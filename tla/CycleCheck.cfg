CONSTANTS
  Workload = {1, 2, 3, 4}
  Dependencies <- Graphs
  Searching = Searching
  Acyclic = Acyclic
SPECIFICATION FairSpec
CHECK_DEADLOCK FALSE
INVARIANTS
  ReportedIsOnCycle
  NothingSkipped
  SelfDependencyFound
PROPERTY Terminates
