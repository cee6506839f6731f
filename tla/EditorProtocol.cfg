CONSTANTS
  f1 = f1
  f2 = f2
  r1 = r1
  r2 = r2
  r3 = r3
  Requests = {r1, r2, r3}
  ActionOf <- Actions
  FileOf <- Named
  Files = {f1, f2}
  CacheMaxFiles = 1
  MaxVersion = 1
  Edited = {f1}
  Split = {r1}
  Servers = 2
  MaxMounts = 2
  None = None
SPECIFICATION FairSpec
INVARIANTS TypeOK DeadMountsNothing ViewIsCache
PROPERTIES OutcomeIsTold RunsAreAnswered
CHECK_DEADLOCK FALSE
