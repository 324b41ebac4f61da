SPECIFICATION Spec
CONSTANTS
  NumTurns = 3
  MaxInFlight = 2
  MaxEntries = 3
  TTL = 4
  MaxClock = 4
  MaxRestarts = 1
  Backends = {"file"}
  Streaming = {FALSE}
INVARIANTS
  OwnContextAlways
CHECK_DEADLOCK FALSE
