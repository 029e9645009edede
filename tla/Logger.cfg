SPECIFICATION LSpec
CONSTANTS
  Writers = {w}
  Configurers = {c1, c2}
  Loggers = {root, lg}
  Root = root
  Appenders = {out, a}
  Stdout = out
  Levels = {1, 2}
  Formats = {f0, f1}
  DefaultFmt = f0
  Ops = {"level", "alevel", "add", "del", "clear", "fmt", "afmt"}
  MaxApps = 2
  None = None
SYMMETRY Symmetry
INVARIANTS
  SomeCallGoesOn
  FormatterFollows
  OwnFormatterKept
PROPERTIES
  DeliveryStable
CHECK_DEADLOCK FALSE
