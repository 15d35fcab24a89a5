SPECIFICATION Spec
CONSTANTS
  Names = {a, b}
  NoName = noname
  MaxInodes = 3
  MaxLower = 4
  MaxUpper = 4
  MaxFiles = 1
  Failures = {"lower", "memory", "xdev", "inode", "stale", "race"}
  MaxFailed = 1
  a = a
  b = b
SYMMETRY Symmetry
INVARIANTS
  TypeOK
  RefsReturned
  NamesMatch
  OneInode
