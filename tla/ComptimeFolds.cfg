\* The folder against the meaning, on loops, calls, vectors and narrow types.
SPECIFICATION Spec
CONSTANTS
  Units <- Sample
  MaxDepth = 3
  MaxLoopIterations = 3
  SlotBits = 8
  MaxSteps = 6
  Widest = 15
INVARIANTS
  TypeOK
  FoldIsMeaning
  CapNeverFolds
CHECK_DEADLOCK FALSE
