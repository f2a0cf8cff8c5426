SPECIFICATION DaySpec
CONSTANTS
  Timers = {t1, t2, t3}
  Day = 3
  Values = {1, 2, 4}
  MaxNow = 5
  Disciplined = TRUE
  Preempt = FALSE
  AheadBy = {1}
  BackBy = {}
SYMMETRY TimerSymmetry
INVARIANTS
  TimeInv
  NeverLate
PROPERTIES
  NeverEarly
