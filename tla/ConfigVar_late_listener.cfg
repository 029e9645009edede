SPECIFICATION Spec
CONSTANTS
  Threads = {t1, t2}
  Setters = {t1}
  Adders = {t2}
  Removers = {}
  Vars = {x}
  TypeOf <- OwnTypes
  Values = {v0, v1}
  Callbacks = {c1}
  Throwing = {}
  MaxKey = 1
  MaxOps = 2
  None = None
PROPERTIES
  AlwaysAnnounced
CHECK_DEADLOCK FALSE
