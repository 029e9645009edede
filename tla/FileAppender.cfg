SPECIFICATION Spec
CONSTANTS
  Threads = {t1, t2}
  Faults = {"delete", "full", "noopen", "crash"}
  Buffer = 2
  MaxTime = 4
  MaxLogs = 3
INVARIANTS
  LossBounded
PROPERTIES
  ReopenRecovers
CHECK_DEADLOCK FALSE
