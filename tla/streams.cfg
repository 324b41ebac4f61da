CONSTANTS
  MaxChunks = 4
  MaxPiece = 3
  MaxTokens = 7
  SkipThinking = {FALSE, TRUE}
  Parses <- MCParses
  OtherKind = {4}
SPECIFICATION Spec
INVARIANTS
  TypeOK
  TextIntact
  ThoughtsIntact
  CallsIntact
  WholeAnswerExact
  MessageFollows
  ResponseFollows
  EndsOnce
CHECK_DEADLOCK FALSE
