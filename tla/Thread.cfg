SPECIFICATION FairSpec
CONSTANTS
  Owners = {u1, u2}
  Objs = {o1, o2}
  Names = {n1, n2}
  MaxJoins = 2
  None = None
INVARIANTS
  TypeOK
  HandshakeDone
  ThreadReleased
  NoUseAfterFree
PROPERTIES
  CallsReturn
CHECK_DEADLOCK FALSE
