SPECIFICATION Spec
CONSTANTS
  Callers = {c1, c2}
  Worker = worker
  Logger = logger
  NoOne = noone
  Dirs = {d1}
  Ops = {"write", "unlink", "rmdir", "mkdir", "close"}
  PathSizes = {2}
  DataSizes = {2, 5}
  HeadSize = 1
  Cap = 4
  IdSpace = 3
  MaxOps = 2
  Bitmaps = {{}, {"unlink"}}
  WriteFaults = FALSE
SYMMETRY CallerSymmetry
INVARIANTS
  HeaderHasPayload
