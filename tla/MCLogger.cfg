SPECIFICATION FairSpec
CONSTANTS
  NB = 2
  Size = 90
  t1 = t1
  t2 = t2
  t3 = t3
  Tasks = {t1, t2, t3}
  Calls <- MCCalls
  Level = {"err", "out"}
  Stamp = {"hires", "trunc"}
INVARIANTS
  PoolServes
  LineFits
PROPERTIES
  ServiceSpec
  CallReturns
CHECK_DEADLOCK FALSE
