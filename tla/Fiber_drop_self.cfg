SPECIFICATION Spec
CONSTANTS
  Threads = {t1}
  Fibers = {f1, f2}
  Misuse = {"dropself"}
  None = None
INVARIANTS
  StackOutlivesUse
CHECK_DEADLOCK FALSE
