SPECIFICATION FairSpec
CONSTANTS
  Threads = {t1, t2, t3}
  Setters = {t1, t2}
  Adders = {t1, t2}
  Removers = {t3}
  Vars = {x, y}
  TypeOf <- OneType
  Values = {v0, v1}
  Callbacks = {c1, c2}
  Throwing = {c2}
  MaxKey = 2
  MaxOps = 2
  None = None
INVARIANTS
  TypeOK
  HandleFindsListener
  ListenersUpToDate
PROPERTIES
  IterationStable
  ChangeIsAnnounced
  CallsReturn
CHECK_DEADLOCK FALSE
