SPECIFICATION Spec
CONSTANTS
  Callers = {c1, c2}
  Workqueues = {w1, w2}
  Logger = logger
  Mounter = mounter
  NoOne = noone
  NULL = null
  BufCap = 1
  MaxOps = 3
  Faults <- AllFaults
SYMMETRY Symmetry
INVARIANTS
  ErrorDropsLower
CHECK_DEADLOCK FALSE
