SPECIFICATION Spec
CONSTANTS
  Owners = {u1}
  Objs = {o1}
  Names = {n1}
  MaxJoins = 1
  None = None
INVARIANTS
  HandleUsable
CHECK_DEADLOCK FALSE
