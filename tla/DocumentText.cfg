CONSTANTS
  Documents <- Files
  NewText <- Texts
  MaxEdits = 3
  MaxListed = 2
  MaxForeign = 2
  MaxLine = 3
  MaxChar = 6
  MaxFrames = 3
  MaxHeader = 3
  MaxMessage = 3
  None = None
SPECIFICATION Spec
INVARIANTS TypeOK FramesAreExact PositionsAreExact EditsAreSimultaneous
CHECK_DEADLOCK FALSE
