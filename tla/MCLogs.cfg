SPECIFICATION Spec
CONSTANTS
  Room = 14
  Reserve = 9
  Prefixes = {2, 3}
  Widths = {1, 2}
  LogCount = 3
  MaxLevel = 2
  Writers = {w1}
INVARIANTS MessageFits Descends FdOwned
PROPERTIES Delivered
CHECK_DEADLOCK FALSE
