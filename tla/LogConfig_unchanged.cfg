SPECIFICATION Spec
CONSTANTS
  Writers = {}
  Configurers = {c}
  Loaders = {c}
  NameSeq <- TwoNames
  Loggers <- TwoLoggers
  Root = Root
  Appenders = {out, a1, a2, a3, a4, a5}
  Stdout = out
  Levels = {1, 2, 100}
  Off = 100
  Formats = {f0, f1}
  DefaultFmt = f0
  Defs <- TwoDefs
  Ops = {"level", "add", "clear", "fmt"}
  MaxApps = 2
  None = None
PROPERTIES
  ConfApplied
CHECK_DEADLOCK FALSE
