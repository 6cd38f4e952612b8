CONSTANTS
  Updaters = {u1, u2}
  Readers = {r1}
  Slots = 3
  Secs = {1, 2}
  Msecs = {0, 1}
  None = None
  Torn = Torn
SPECIFICATION Spec
INVARIANTS OneUpdate InStep SteadyUntilLapped OneSlotApart
PROPERTIES LockFreed
