SPECIFICATION MgrSpec
CONSTANTS
  Timers = {t1}
  Day = 3
  Values = {4}
  MaxNow = 8
  Disciplined = TRUE
  Preempt = TRUE
  Epochs = {5}
  Ahead = {1}
  Back = {}
  Periods = {1, 2}
  Lead = 4
  TickSec = 28800
INVARIANTS
  TimeMgrInv
PROPERTIES
  DriftPaced
