SPECIFICATION BusySpec
CONSTANTS
  r1 = r1
  r2 = r2
  b1 = b1
  b2 = b2
  Requests = {r1, r2}
  Backends = {b1, b2}
  Orders <- PrimaryFirst
  Enabled = TRUE
  Threshold = 2
  Cooldown = 1
  MaxAttempts = 1
  Failover = TRUE
  FailoverStatus = {"busy"}
  HealthTargets = {}
  Reliable = {b2}
  BadAnswers = {"busy"}
PROPERTIES
  FailoverKeepsServing
