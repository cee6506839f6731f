CONSTANTS
  c1 = c1
  c2 = c2
  c3 = c3
  k1 = k1
  Calls = {c1, c2}
  Keys = {k1}
  KeyOf <- OneKey
  Fused = {c1}
  PushCalls = {c2}
  IdleEviction = TRUE
  MaxSpawns = 1
  ReapAttempts = 2
  None = None
SPECIFICATION Spec
PROPERTIES NeverBorrowsDead
CHECK_DEADLOCK FALSE
