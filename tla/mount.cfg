SPECIFICATION FairSpec
CONSTANTS
  Callers = {c1, c2}
  Workqueues = {w1}
  Logger = logger
  Mounter = mounter
  NoOne = noone
  NULL = null
  BufCap = 2
  MaxOps = 4
  Faults = {}
INVARIANTS
  TypeOK
  LoggerSafe
  SbInfoSafe
  KeptByUnmount
  UnmountReleases
PROPERTIES
  UnmountEnds
CHECK_DEADLOCK FALSE
