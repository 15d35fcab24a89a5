SPECIFICATION Spec
CONSTANTS
  Names = {n1, n2}
  Addrs = {a1, a2}
  NoName = noname
  NoAddr = noaddr
  Lengths = {1}
  Positions = {0}
  Errors = {1, 2}
  MaxOps = 4
  Dups = TRUE
  Modes = {"default", "strict", "show"}
SYMMETRY Symmetry
INVARIANTS
  TypeOK
  ParsesBack
  RightFile
  InStep
  DeviationsAreFailures
CHECK_DEADLOCK FALSE
