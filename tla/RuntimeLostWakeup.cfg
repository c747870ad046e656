SPECIFICATION Spec
CONSTANTS
  root = root
  w1 = w1
  w2 = w2
  a = a
  b = b
  main = main
  none = none
  Tasks = {root, w1, w2}
  Root = root
  Chans = {a, b}
  Main = main
  None = none
  Readers <- Everyone
  MayReassign = FALSE
  Delays = {1}
  MaxLag = 0
  MaxOps = 2
  MaxArms = 2
SYMMETRY WorkerSymmetry
INVARIANTS
  QuiescentNoReady
CHECK_DEADLOCK FALSE
