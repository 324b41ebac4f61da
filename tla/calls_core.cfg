SPECIFICATION RoutedSpec
CONSTANTS
  r1 = r1
  r2 = r2
  r3 = r3
  b1 = b1
  b2 = b2
  b3 = b3
  Requests = {r1, r2}
  Backends = {b1, b2, b3}
  Orders <- ThreeLists
  Configured <- ThreeDeclared
  Strategy = "weighted"
  Limit = 0
  MaxInt = 3
  Models = {"m1", "m2"}
  Enabled = TRUE
  Threshold = 2
  Cooldown = 2
  MaxAttempts = 2
  Failover = TRUE
  FailoverStatus = {"busy"}
  HealthTargets = {b2}
  Reliable = {b3}
  BadAnswers = {"fail500", "busy", "poisoned", "error"}

SYMMETRY Symmetry
INVARIANTS
  OneProbe
  ReportedOnce
  CallsInv
  ExhaustsCandidates
  ListsComplete
  LastResort
  SharesFair
