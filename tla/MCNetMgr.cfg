SPECIFICATION FairSpec
CONSTANTS
  PhyCallFails = TRUE
  ProtoFails = TRUE
  TimerFails = TRUE
  PhyErrorEvents = FALSE
INVARIANTS
  IInv
  NoLostRequest
  SendDoneMeansSent
  RetriesSummarised
PROPERTIES
  ServiceSpec
  Answered
