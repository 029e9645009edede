SPECIFICATION Spec
CONSTANTS
  Threads = {t1}
  Fibers = {f1}
  Misuse = {"mainyield"}
  None = None
PROPERTIES
  DestructorAsserts
CHECK_DEADLOCK FALSE
