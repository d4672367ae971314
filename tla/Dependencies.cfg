CONSTANTS
  a1 = a1
  a2 = a2
  v = v
  w = w
  i = i
  j = j
  Agent = {a1, a2}
  NoAgent = NoAgent
  Name = {v, w}
  Id = {i, j}
  Workload <- MCWorkload
  None = None
  Startup <- MCStartup
  Update <- MCUpdate
  MaxUpdates = 1
  MaxDrops = 1
SPECIFICATION Spec
CHECK_DEADLOCK FALSE
INVARIANTS
  StoresAgree
  GraphCovers
PROPERTIES
  DeletionsEnd
  StartsEnd
