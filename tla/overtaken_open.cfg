SPECIFICATION TrfsSpec
CONSTANTS
  Names = {a, b}
  NoName = noname
  MaxInodes = 3
  MaxLower = 3
  MaxUpper = 3
  MaxFiles = 1
  Failures = {}
  MaxFailed = 0
  a = a
  b = b
SYMMETRY Symmetry
PROPERTIES
  OpenPathsResolve
CHECK_DEADLOCK FALSE
