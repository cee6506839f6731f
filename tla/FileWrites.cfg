CONSTANTS
  f1 = f1
  f2 = f2
  s1 = s1
  s2 = s2
  c1 = c1
  c2 = c2
  c3 = c3
  c4 = c4
  Calls = {c1, c2, c3}
  Files = {f1, f2}
  Sessions = {s1}
  KindOf <- Kinds
  FileOf <- Named
  SessionOf <- Actors
  OfEditor = {c2, c3}
  Asks <- Escalating
  InitialMode = "workspace-write"
  Standing = {"read-only", "workspace-write"}
  MaxSwitches = 1
  CacheMaxFiles = 1
  MaxVersion = 2
  MaxTargets = 2
  Shared = {f1}
  Tokenless = {f1}
  Traced = {}
  Outside = Outside
  None = None
SPECIFICATION Spec
INVARIANTS TypeOK QuickfixAimsAtNewText ModeIsWarranted
PROPERTIES RefusalWritesNothing OwnGuardProtects
CHECK_DEADLOCK FALSE
