SPECIFICATION Spec
CONSTANTS
  NumTurns = 4
  MaxInFlight = 2
  MaxEntries = 2
  TTL = 2
  MaxClock = 3
  MaxRestarts = 1
  Backends = {"memory", "file"}
  Streaming = {TRUE, FALSE}
INVARIANTS
  TurnsInv
  OwnContext
  StoredAnswers
PROPERTIES
  RefusedWithReason
  ServesStore
CHECK_DEADLOCK FALSE
