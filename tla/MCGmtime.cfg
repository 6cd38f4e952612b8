CONSTANTS
  Word = 2932900
  LastDay = 2932902
SPECIFICATION Calendar
INVARIANTS GmtimeIsRight
CHECK_DEADLOCK FALSE
