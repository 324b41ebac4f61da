CONSTANTS
  p1 = p1
  p2 = p2
  t1 = t1
  t2 = t2
  Pids = {p1, p2}
  Terminals = {t1, t2}
  NoPid = NoPid
SPECIFICATION FairSpec
INVARIANTS
  Inv
PROPERTIES
  StopReaches
  StartServes
CHECK_DEADLOCK FALSE
