SPECIFICATION Spec
CONSTANTS
  Names = {n1}
  Addrs = {a1}
  NoName = noname
  NoAddr = noaddr
  Lengths = {1}
  Positions = {}
  Errors = {2}
  MaxOps = 3
  Dups = FALSE
  Modes = {"default"}
INVARIANTS
  NamesInStep
CHECK_DEADLOCK FALSE
