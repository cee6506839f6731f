CONSTANTS
  c1 = c1
  c2 = c2
  c3 = c3
  old = old
  full = full
  extended = extended
  f1 = f1
  Calls = {c1, c2, c3}
  OpOf <- Ops
  FileOf <- Named
  Seams = {old, full}
  Serves <- Vocabulary
  Tables <- ServerTables
  Files = {f1, NoFile}
  ExtOf <- Extensions
  DirsOf <- Ancestors
  Changing <- MarkerFiles
  Aborting = {c2}
  NoFile = NoFile
  None = None
SPECIFICATION Spec
INVARIANTS TypeOK VintageIsOfItsSeam SeamFirst
PROPERTIES NearestMarkerDecides
CHECK_DEADLOCK FALSE
