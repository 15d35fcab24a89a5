SPECIFICATION Spec
CONSTANTS
  Threads = {t1}
  MaxSize = 2
  IntLimit = 2
  Offsets <- Seeked
  t1 = t1
INVARIANTS
  SeekConsistent
