SPECIFICATION TrfsSpec
CONSTANTS
  Names = {a, b}
  NoName = noname
  MaxInodes = 3
  MaxLower = 4
  MaxUpper = 4
  MaxFiles = 0
  Failures = {"stale","record"}
  MaxFailed = 1
  a = a
  b = b
SYMMETRY Symmetry
INVARIANTS
  PathsResolve
CHECK_DEADLOCK FALSE
