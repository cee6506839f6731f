CONSTANTS
  f1 = f1
  f2 = f2
  s1 = s1
  s2 = s2
  c1 = c1
  c2 = c2
  c3 = c3
  c4 = c4
  Calls = {c1}
  Files = {f1, f2}
  Sessions = {s1}
  KindOf <- RenameKind
  FileOf <- RenameFile
  SessionOf <- RenameActor
  OfEditor = {}
  Asks <- RenameAsks
  InitialMode = None
  Standing = {}
  MaxSwitches = 0
  CacheMaxFiles = 1
  MaxVersion = 2
  MaxTargets = 2
  Shared = {f1}
  Tokenless = {f1}
  Traced = {c1}
  Outside = Outside
  None = None
SPECIFICATION Spec
PROPERTIES NeverClobbers
CHECK_DEADLOCK FALSE
