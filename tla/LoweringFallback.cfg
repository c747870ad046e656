SPECIFICATION Spec
CONSTANTS
  Payload <- MCPayload
  Parts <- MCParts
  Values <- MCValues
  Patterns <- MCPatterns
  Height <- MCHeight
  MaxTrace = 5
INVARIANTS
  FallbacksNeverRun
CHECK_DEADLOCK FALSE
