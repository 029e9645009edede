SPECIFICATION LSpec
CONSTANTS
  Writers = {}
  Configurers = {c}
  Loggers = {root, lg}
  Root = root
  Appenders = {out, a}
  Stdout = out
  Levels = {1}
  Formats = {f0, f1}
  DefaultFmt = f0
  Ops = {"add", "del", "fmt"}
  MaxApps = 1
  None = None
INVARIANTS
  AlwaysFollows
CHECK_DEADLOCK FALSE
