SPECIFICATION TrfsSpec
CONSTANTS
  Names = {a, b}
  NoName = noname
  MaxInodes = 2
  MaxLower = 2
  MaxUpper = 2
  MaxFiles = 1
  Failures = {}
  MaxFailed = 0
  a = a
  b = b
INVARIANTS DeletedNotOpened
SYMMETRY Symmetry
CHECK_DEADLOCK FALSE
