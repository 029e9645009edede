SPECIFICATION Spec
CONSTANTS
  Threads = {t1, t2}
  Faults = {}
  Buffer = 1
  MaxTime = 2
  MaxLogs = 1
INVARIANTS FileKeptOpen
CHECK_DEADLOCK FALSE
