CONSTANTS
  Agent = {"a"}
  Workload = {"w"}
  Tag = {"t", "u"}
  None = None
  DesiredState <- MCDesiredState
  Subscriber <- MCSubscriber
  FieldMasks <- MCFieldMasks
  MaxChanges = 4
SPECIFICATION Spec
CHECK_DEADLOCK FALSE
INVARIANTS
  ViewIsCurrent
  NoCorpses
