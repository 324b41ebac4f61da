SPECIFICATION Spec
CONSTANTS
  i1 = i1
  i2 = i2
  i3 = i3
  v1 = v1
  v2 = v2
  IDs = {i1, i2, i3}
  Responses = {v1, v2}
  MaxEntries = 2
  TTL = 2
  MaxClock = 4
  MaxLines = 4
  Garbage = Garbage
  Oversized = {}
  Faults = {"append", "compact", "torn", "rename", "copy"}
PROPERTIES
  ImplementsStore
INVARIANTS
  TypeOK
  DurableView
  SyncedSurvive
  MapSound
SYMMETRY Symmetry
