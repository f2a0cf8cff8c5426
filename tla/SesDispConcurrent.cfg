SPECIFICATION Spec
CONSTANTS
  NetRefuses = TRUE
  Coalesced = FALSE
  TimerFails = FALSE
  Concurrent = TRUE
  MaxCmd = 1
CHECK_DEADLOCK FALSE
INVARIANTS
  ExecutedOnce
PROPERTIES
  ExecutedWasAnswered
