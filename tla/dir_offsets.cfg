SPECIFICATION Spec
CONSTANTS
  Threads = {t1, t2}
  MaxSize = 2
  IntLimit = 4
  Offsets <- Seeked
  t1 = t1
  t2 = t2
SYMMETRY Symmetry
INVARIANTS
  SeekConsistent
