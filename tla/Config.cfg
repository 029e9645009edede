SPECIFICATION FairSpec
CONSTANTS
  Threads = {t1, t2}
  Loaders = {t1}
  Names <- AllNames
  Invalid <- BadNames
  Lower <- LowerKeys
  Types <- TypeNames
  ValuesOf <- TypeValues
  Default <- TypeDefaults
  Docs <- Documents
  VisitDoes = {"none", "set", "find"}
  ListenDoes = {"none", "find", "set", "throw"}
  Sets <- MapSetsInt
  MaxVars = 2
  MaxOps = 2
  None = None
  i0 = i0
  i1 = i1
  m0 = m0
  m1 = m1
  junk = junk
INVARIANTS
  OneVarPerName
  LoadApplied
PROPERTIES
  VisitStable
  CallsReturn
CHECK_DEADLOCK FALSE
