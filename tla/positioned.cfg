SPECIFICATION Spec
CONSTANTS
  Names = {n1}
  Addrs = {a1}
  NoName = noname
  NoAddr = noaddr
  Lengths = {1}
  Positions = {1}
  Errors = {}
  MaxOps = 3
  Dups = FALSE
  Modes = {"default"}
INVARIANTS
  LengthsInStep
CHECK_DEADLOCK FALSE
