CONSTANTS
  Apis = {"anthropic", "responses", "chain", "gemini"}
  ToolSets <- Declarations
  PlainTools <- Functions
  Forms = {"none", "plain", "twice", "broken"}
  MaxParts = 2
  MaxCalls = 2
  MaxRequests = 3
SPECIFICATION Spec
INVARIANTS
  TypeOK
  AnthropicFaithful
  ResponsesFaithful
  GeminiFaithful
  ResultsInPlace
  KindsKept
CHECK_DEADLOCK FALSE
