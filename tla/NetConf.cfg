SPECIFICATION SpecC
CONSTANTS
  PhyCallFails = FALSE
  ProtoFails = FALSE
  TimerFails = TRUE
  PhyErrorEvents = TRUE
  Touched = {"RxChannel"}
  MaxWrites = 1
INVARIANTS
  OnAirAsAsked
PROPERTIES
  NoOverwrite
