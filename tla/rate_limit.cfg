SPECIFICATION Spec
CONSTANTS
  c1 = c1
  k1 = k1
  k2 = k2
  k3 = k3
  Clients = {c1}
  Calls = {k1, k2, k3}
  Cost = 2
  Depth = 4
  MaxWait = 1
  Idle = 3
  Gain = 2
  MaxClock = 10
INVARIANTS
  Inv
PROPERTIES
  GrantsConform
  RejectsConform
SYMMETRY Symmetry
CHECK_DEADLOCK FALSE
