SPECIFICATION RoutedBusySpec
CONSTANTS
  r1 = r1
  r2 = r2
  r3 = r3
  b1 = b1
  b2 = b2
  Requests = {r1, r2}
  Backends = {b1, b2}
  b3 = b3
  Orders <- TwoLists
  Configured <- TwoDeclared
  Strategy = "round_robin"
  Limit = 2
  MaxInt = 1
  Models = {"m1"}
  Enabled = TRUE
  Threshold = 2
  Cooldown = 1
  MaxAttempts = 2
  Failover = TRUE
  FailoverStatus = {"busy"}
  HealthTargets = {b2}
  Reliable = {}
  BadAnswers = {"fail500", "busy"}
PROPERTIES
  RequestsComplete
  CircuitRecovers
