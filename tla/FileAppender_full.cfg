SPECIFICATION Spec
CONSTANTS
  Threads = {t1}
  Faults = {"delete", "full"}
  Buffer = 1
  MaxTime = 2
  MaxLogs = 4
CHECK_DEADLOCK FALSE
PROPERTIES AlwaysRecovers
