SPECIFICATION Spec
CONSTANTS
  Pieces <- MCPieces
  Sources <- MCSources
  MaxErrors = 4
INVARIANTS
  ReadsBack
  StringsNest
  SameGrouping
PROPERTIES
  RoundsAdvance
CHECK_DEADLOCK FALSE
