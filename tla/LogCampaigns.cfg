CONSTANTS
  a1 = a1
  a2 = a2
  c = c
  p = p
  Agent = {a1, a2}
  Name = {c, p}
  Collector = {c}
  Cli = {k}
  Id = {i}
  None = None
  Startup <- MCStartup
  Update <- MCUpdate
  Wanted <- MCWanted
  MaxRequests = 2
  MaxUpdates = 1
  MaxDrops = 1
  MaxEvents = 3
SPECIFICATION Spec
CHECK_DEADLOCK FALSE
INVARIANTS
  TypeOK
  ProvidersHaveCollectors
  CollectorsArePresent
  DeletedCollectorsCancelled

  
  
