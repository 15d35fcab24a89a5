SPECIFICATION Spec
CONSTANTS
  Names = {n1}
  Addrs = {a1, a2}
  NoName = noname
  NoAddr = noaddr
  Lengths = {1}
  Positions = {}
  Errors = {}
  MaxOps = 6
  Dups = FALSE
  Modes = {"default"}
SYMMETRY Symmetry
INVARIANTS
  AddressIdentifies
CHECK_DEADLOCK FALSE
