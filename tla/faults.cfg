SPECIFICATION Spec
CONSTANTS
  Callers = {c1, c2}
  Worker = worker
  Logger = logger
  NoOne = noone
  Dirs = {d1}
  Ops = {"link", "read"}
  PathSizes = {2}
  DataSizes = {5}
  HeadSize = 1
  Cap = 4
  IdSpace = 3
  MaxOps = 3
  Bitmaps = {}
  WriteFaults = TRUE
SYMMETRY CallerSymmetry
INVARIANTS
  IncreasingIds
  QueueOrder
