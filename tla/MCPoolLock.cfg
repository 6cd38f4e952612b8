SPECIFICATION Spec
CONSTANTS
  t1 = t1
  t2 = t2
  Threads = {t1, t2}
  Slots = 4
  Chunks = {c1, c2}
  None = None
  ScanLimit = 1
  Disciplines <- MCMemalign
PROPERTIES LockReturned
CHECK_DEADLOCK FALSE
