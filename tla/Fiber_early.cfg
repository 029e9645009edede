SPECIFICATION Spec
CONSTANTS
  Threads = {t1, t2}
  Fibers = {f1}
  Misuse = {"early"}
  None = None
INVARIANTS
  TypeOK
  StacksExclusive
CHECK_DEADLOCK FALSE
