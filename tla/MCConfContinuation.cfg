CONSTANTS
  Window = 2
  Page = 1
  Sizes = {0, 3, 5}
  Lens = {1, 3, 5}
  BufSize = 2
  Beyond = 1
  None = None
SPECIFICATION Spec
INVARIANTS RefusesOnlyLong
CHECK_DEADLOCK FALSE
