CONSTANTS
  a1 = a1
  v = v
  i = i
  j = j
  Agent = {a1}
  NoAgent = NoAgent
  Name = {v}
  Id = {i, j}
  Workload <- MCWorkload
  None = None
  Startup <- MCStartup
  Update <- MCUpdate
  MaxConnections = 2
  MaxUpdates = 1
  MaxFaults = 1
  MaxEvents = 2
SPECIFICATION FairSpec
CHECK_DEADLOCK FALSE
INVARIANTS
  TypeOK
  InSync
PROPERTIES
  ImplementsReplica
  Converges
  
