SPECIFICATION Spec
CONSTANTS
  i1 = i1
  i2 = i2
  i3 = i3
  v1 = v1
  v2 = v2
  IDs = {i1, i2}
  Responses = {v1}
  MaxEntries = 2
  TTL = 2
  MaxClock = 4
  MaxLines = 6
  Garbage = Garbage
  Oversized = {}
  Faults = {"torn"}
INVARIANTS
  AllSurvive
