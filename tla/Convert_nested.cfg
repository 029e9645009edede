SPECIFICATION Spec
CONSTANTS
  VarTypes <- AllTypes
  Default <- Initially
  Docs <- Documents
  Ints = {"1", "2"}
  Levels = {"DEBUG", "INFO", "WARN", "ERROR", "FATAL"}
  MaxPrints = 2
INVARIANTS
  ReadsAsWritten
  RoundTripNested
