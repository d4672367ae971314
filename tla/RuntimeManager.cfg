CONSTANTS
  a = a
  b = b
  x = x
  a1 = a1
  a2 = a2
  b1 = b1
  x1 = x1
  Config = {a1, a2, x1}
  Local = {a1, a2}
  Name = {a, x}
  NameOf <- MCNameOf
  AddDeps <- MCAddDeps
  DelDeps <- MCDelDeps
  Leftovers <- OneOfAName
  None = None
  ServerStates = {"Running", "Starting"}
  BUFFER_SIZE = 2
  MaxUpdates = 2
  MaxHellos = 2
  MaxStates = 1
  MaxReports = 1
CHECK_DEADLOCK FALSE
INVARIANTS
  TypeOK
  NothingReadyWaits
  NewestIsKept
  OnlyOvertakenDiverge
  WaitingUpdateIsStopped
SPECIFICATION FairSpec
PROPERTY OnlyFullChannelBlocks
