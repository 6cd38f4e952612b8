SPECIFICATION Spec
CONSTANTS
  t1 = t1
  t2 = t2
  Threads = {t1, t2}
  Slots = 4
  Chunks = {c1, c2, c3}
  None = None
  ScanLimit = 2
  Disciplines <- MCDisciplines
INVARIANTS NoDoubleGrant ChunksRecorded NoStaleRecord
PROPERTIES LockReleased
CHECK_DEADLOCK FALSE
