CONSTANTS
  a1 = a1
  v = v
  i = i
  j = j
  Agent = {a1}
  NoAgent = NoAgent
  Name = {v}
  Id = {i, j}
  Workload <- MCWorkload
  None = None
  Startup <- MCStartup
  Update <- MCUpdate
  Manifest <- MCManifest
  MaxConnections = 1
  MaxUpdates = 1
  MaxFaults = 1
  MaxEvents = 1
SPECIFICATION ApplySpec
CHECK_DEADLOCK FALSE
PROPERTIES
  
  WaitEnds
