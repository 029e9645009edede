SPECIFICATION Spec
CONSTANTS
  Threads = {t1, t2}
  Setters = {t1, t2}
  Adders = {t1}
  Removers = {}
  Vars = {x}
  TypeOf <- OwnTypes
  Values = {v0, v1, v2}
  Callbacks = {c1}
  Throwing = {}
  MaxKey = 1
  MaxOps = 2
  None = None
INVARIANTS
  AlwaysUpToDate
CHECK_DEADLOCK FALSE
