SPECIFICATION Spec
CONSTANTS
  Threads = {t1}
  Fibers = {f1, f2}
  Misuse = {"nested"}
  None = None
INVARIANTS
  CurIsRunning
CHECK_DEADLOCK FALSE
