SPECIFICATION TrfsSpec
CONSTANTS
  Names = {a, b}
  NoName = noname
  MaxInodes = 3
  MaxLower = 3
  MaxUpper = 3
  MaxFiles = 1
  Failures = {"lower", "memory", "xdev", "inode", "stale", "race", "record"}
  MaxFailed = 2
  a = a
  b = b
SYMMETRY Symmetry
INVARIANTS
  RefsHeld
  PathsResolve
CHECK_DEADLOCK FALSE
