SPECIFICATION Spec
CONSTANTS
  Locals <- MCLocals
  Funcs <- MCFuncs
  Structs <- MCStructs
  Methods <- MCMethods
  Values <- MCValues
  Cells <- MCCells
  Field <- MCField
  Turns = 2
INVARIANTS
  UseAfterMoveReported
CHECK_DEADLOCK FALSE
