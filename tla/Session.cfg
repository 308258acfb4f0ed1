SPECIFICATION FairSpec
CONSTANTS
  Hosts = {h1, h2}
  Topics = 2
  Forgetful = TRUE
  Lossy = TRUE
  MaxConnects = 2
  MaxRefusals = 1
  MaxKeys = 1
INVARIANTS
  ReadyMeansTried
  IndInv
PROPERTIES
  BecomesReady
  Reconnects
CHECK_DEADLOCK FALSE
