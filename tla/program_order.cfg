SPECIFICATION Spec
CONSTANTS
  Callers = {c1}
  Worker = worker
  Logger = logger
  NoOne = noone
  Dirs = {d1}
  Ops = {"mkdir", "readdir"}
  PathSizes = {2}
  DataSizes = {5}
  HeadSize = 1
  Cap = 4
  IdSpace = 4
  MaxOps = 2
  Bitmaps = {}
  WriteFaults = FALSE
INVARIANTS
  ProgramOrder
