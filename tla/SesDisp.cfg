SPECIFICATION FairSpec
CONSTANTS
  NetRefuses = FALSE
  Coalesced = FALSE
  TimerFails = TRUE
  Concurrent = FALSE
  MaxCmd = 2
INVARIANTS
  SesInv
  NoStaleResult
  FailedIffError
PROPERTIES
  CallReturns
