SPECIFICATION Spec
CONSTANTS
  Names = {n1}
  Addrs = {a1, a2}
  NoName = noname
  NoAddr = noaddr
  Lengths = {1}
  Positions = {}
  Errors = {}
  MaxOps = 7
  Dups = FALSE
  Modes = {"strict"}
SYMMETRY Symmetry
INVARIANTS
  StrictInStep
CHECK_DEADLOCK FALSE
