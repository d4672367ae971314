CONSTANTS
  v1 = v1
  v1b = v1b
  v2 = v2
  n1 = n1
  n2 = n2
  c1 = c1
  c2 = c2
  Config = {v1, v1b}
  Instance = {n1}
  Id = {c1, c2}
  InstanceOf <- MCInstanceOf
  RestartPolicyOf <- MCRestartPolicyOf
  None = None
  End = End
  COMMAND_BUFFER_SIZE = 5
  BUFFER_SIZE = 20
  MaxCommands = 2
  MaxExits = 1
  MaxFaults = 1
SPECIFICATION Spec
CHECK_DEADLOCK FALSE
PROPERTY DeletedIsNeverRestarted
