SPECIFICATION Spec
CONSTANTS
  Threads = {t1, t2, t3}
  Spin = 4
  Smp = TRUE
INVARIANTS TypeOK LockWordHeld
PROPERTIES ImplementsMutex WaitsOnlyWhileContended
