SPECIFICATION Spec
CONSTANTS
  Chars = {"%", "{", "}", "m", "x"}
  MaxLen = 6
INVARIANTS SubstrInRange ParseCorrect TextPrinted
CHECK_DEADLOCK FALSE
