SPECIFICATION FairSpec
CONSTANTS
  Threads = {t1, t2}
  Fibers = {f1, f2, f3}
  Misuse = {}
  None = None
INVARIANTS
  TypeOK
  CurIsRunning
  ContextsInPlace
  StackOutlivesUse
PROPERTIES
  DestructorAsserts
  ImplementsCoroutines
  ControlReturns
CHECK_DEADLOCK FALSE
