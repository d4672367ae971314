CONSTANTS
  v1 = v1
  v1b = v1b
  v2 = v2
  n1 = n1
  n2 = n2
  c1 = c1
  c2 = c2
  Config = {v1, v2}
  Instance = {n1, n2}
  Id = {c1, c2}
  InstanceOf <- MCInstanceOf
  RestartPolicyOf <- MCRestartPolicyOf
  None = None
  End = End
  COMMAND_BUFFER_SIZE = 2
  BUFFER_SIZE = 2
  MaxCommands = 3
  MaxExits = 2
  MaxFaults = 1
SPECIFICATION Spec
SYMMETRY Symmetry
CHECK_DEADLOCK FALSE
INVARIANTS
  TypeOK
  OnlyFaultsOrphan
  RemovedMeansGone
  OldInstancesStayRemoved
  LiveRetryHasNoWorkload
  AtMostOneLiveRetry
  CheckerWatchesOwnWorkload
