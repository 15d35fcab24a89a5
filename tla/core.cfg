SPECIFICATION Spec
CONSTANTS
  Callers = {c1, c2}
  Worker = worker
  Logger = logger
  NoOne = noone
  Dirs = {d1, d2}
  Ops = {"open", "rename", "readdir", "write"}
  PathSizes = {2}
  DataSizes = {2, 5}
  HeadSize = 1
  Cap = 4
  IdSpace = 3
  MaxOps = 3
  Bitmaps = {}
  WriteFaults = FALSE
SYMMETRY Symmetry
INVARIANTS
  TypeOK
  BufferFits
  IncreasingIds
  HandledAreTraced
  QueueOrder
  DirOrder
  HeaderBeforePayload
