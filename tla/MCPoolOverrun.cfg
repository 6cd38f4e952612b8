SPECIFICATION Spec
CONSTANTS
  Blocks = {b1, b2}
  Bigs = {g1}
  None = None
  CreateSizes = {4096}
  Sizes = {4005}
  MaxFailed = 4
  ScanLimit = 5
  LeisureTimes = 15
  MaxIdle = 1
  MaxCleanups = 0
SYMMETRY Symmetry
INVARIANTS InBlock
CHECK_DEADLOCK FALSE
