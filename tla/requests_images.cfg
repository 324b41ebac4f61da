CONSTANTS
  Apis = {"anthropic"}
  ToolSets <- Declarations
  PlainTools <- Functions
  Forms = {"plain"}
  MaxParts = 2
  MaxCalls = 1
  MaxRequests = 2
SPECIFICATION Spec
INVARIANTS
  ImagesReachBackend
CHECK_DEADLOCK FALSE
