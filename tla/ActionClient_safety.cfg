CONSTANTS
  c1 = c1
  c2 = c2
  c3 = c3
  k1 = k1
  Calls = {c1, c2, c3}
  Keys = {k1}
  KeyOf <- OneKey
  Fused = {}
  PushCalls = {}
  IdleEviction = TRUE
  MaxSpawns = 2
  ReapAttempts = 1
  None = None
SYMMETRY Symmetry
SPECIFICATION Spec
INVARIANTS TypeOK SingleFlight OwnedTrees TimerSparesRunning NoTornInstanceBorrowed DisposedMeansExited
PROPERTIES NothingAfterDispose ImplementsService
CHECK_DEADLOCK FALSE
