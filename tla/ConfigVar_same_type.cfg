SPECIFICATION Spec
CONSTANTS
  Threads = {t1, t2}
  Setters = {}
  Adders = {t1, t2}
  Removers = {t1}
  Vars = {x, y}
  TypeOf <- OneType
  Values = {v0}
  Callbacks = {c1, c2}
  Throwing = {}
  MaxKey = 1
  MaxOps = 2
  None = None
INVARIANTS
  AlwaysFound
CHECK_DEADLOCK FALSE
