SPECIFICATION Spec
CONSTANTS
  Callers = {c1, c2}
  Workqueues = {w1}
  Logger = logger
  Mounter = mounter
  NoOne = noone
  NULL = null
  BufCap = 1
  MaxOps = 2
  Faults = {"open"}
SYMMETRY CallerSymmetry
INVARIANTS
  ErrorReturned
CHECK_DEADLOCK FALSE
