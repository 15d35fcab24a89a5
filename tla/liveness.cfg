SPECIFICATION FairSpec
CONSTANTS
  Callers = {c1, c2}
  Worker = worker
  Logger = logger
  NoOne = noone
  Dirs = {d1}
  Ops = {"write", "readdir"}
  PathSizes = {2}
  DataSizes = {2, 5}
  HeadSize = 1
  Cap = 4
  IdSpace = 3
  MaxOps = 2
  Bitmaps = {}
  WriteFaults = FALSE
PROPERTIES
  QueuedReachesFile
  CallReturns
  ImplementsTraceLog
