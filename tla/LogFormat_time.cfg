SPECIFICATION Spec
CONSTANTS
  Chars = {"%", "{", "}", "d", "m", "x"}
  MaxLen = 4
INVARIANTS DocumentedCodesPrint
CHECK_DEADLOCK FALSE
