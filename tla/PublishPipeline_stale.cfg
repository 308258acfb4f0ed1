SPECIFICATION FairSpec
CONSTANTS
  Writers = {w1, w2}
  Devices = {d1}
  None = None
  MaxVersion = 2
  MaxPanics = 0
PROPERTIES
  LatestStateWins
CHECK_DEADLOCK FALSE
