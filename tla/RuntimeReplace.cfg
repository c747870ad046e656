SPECIFICATION Spec
CONSTANTS
  root = root
  w1 = w1
  w2 = w2
  a = a
  b = b
  main = main
  none = none
  Tasks = {root, w1, w2}
  Root = root
  Chans = {a}
  Main = main
  None = none
  Readers <- OneWorker
  MayReassign = TRUE
  Delays = {1}
  MaxLag = 0
  MaxOps = 3
  MaxArms = 1
PROPERTIES
  KeepsPromise
CHECK_DEADLOCK FALSE
