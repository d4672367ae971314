CONSTANT MaxCounter = 70
SPECIFICATION Spec
CHECK_DEADLOCK FALSE
INVARIANTS
  FirstRetriesHeldBack
