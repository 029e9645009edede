SPECIFICATION LSpec
CONSTANTS
  Writers = {}
  Configurers = {c1, c2}
  Loggers = {root, lg}
  Root = root
  Appenders = {out, a}
  Stdout = out
  Levels = {1}
  Formats = {f0, f1}
  DefaultFmt = f0
  Ops = {"add", "fmt", "afmt"}
  MaxApps = 1
  None = None
INVARIANTS
  AlwaysOwn
CHECK_DEADLOCK FALSE
