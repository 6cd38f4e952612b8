CONSTANTS
  MaxCells = 9
  MaxGaps = 1
  PartCounts = {1, 2}
  ElementCounts = {1, 2}
  PushCounts = {1, 3}
SPECIFICATION Spec
INVARIANTS ListWhole ArrayInItsMemory
PROPERTIES ListIsItems ArrayIsRow
CHECK_DEADLOCK FALSE
