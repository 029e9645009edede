SPECIFICATION GSpec
CONSTANTS
  Threads = {t1, t2, t3, t4}
  Kinds = {"read", "write"}
INVARIANTS Exclusion LockAccounted
