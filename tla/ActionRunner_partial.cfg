CONSTANTS
  c1 = c1
  c2 = c2
  c3 = c3
  old = old
  full = full
  extended = extended
  f1 = f1
  Calls = {c1, c2}
  OpOf <- Actions
  FileOf <- OneFile
  Seams = {extended}
  Serves <- Vocabulary
  Tables <- ServerTables
  Files = {f1, NoFile}
  ExtOf <- Extensions
  DirsOf <- Ancestors
  Changing <- NoMarkerFiles
  Aborting = {}
  NoFile = NoFile
  None = None
SPECIFICATION Spec
INVARIANTS SeamFirst
CHECK_DEADLOCK FALSE
