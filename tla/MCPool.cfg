SPECIFICATION Spec
CONSTANTS
  Blocks = {b1, b2, b3}
  Bigs = {g1, g2}
  None = None
  CreateSizes = {112}
  Sizes = {40, 41}
  MaxFailed = 0
  ScanLimit = 1
  LeisureTimes = 0
  MaxIdle = 1
  MaxCleanups = 2
SYMMETRY Symmetry
INVARIANTS NoOverlap InBlock LiveInHeap SkipsOnlyExhausted HeapAccounted ChunksRecordedOnce RecordsLive
PROPERTIES ImplementsArena
CHECK_DEADLOCK FALSE
