SPECIFICATION FairSpec
CONSTANTS
  Threads = {t1}
  Fibers = {f1}
  Misuse = {"ended"}
  None = None
PROPERTIES
  ControlReturns
CHECK_DEADLOCK FALSE
