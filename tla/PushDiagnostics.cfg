CONSTANTS
  t1 = t1
  t2 = t2
  Texts = {t1, t2}
  MaxBatches = 5
  MaxWire = 2
  SettleTicks = 2
  QuietTicks = 1
  None = None
SPECIFICATION FairSpec
INVARIANT TypeOK
PROPERTIES LatestElseSameText BurstIsWhole WindowsClose
CHECK_DEADLOCK FALSE
