SPECIFICATION FairSpec
CONSTANTS
  Writers = {w1, w2}
  Devices = {d1, d2}
  None = None
  MaxVersion = 1
  MaxPanics = 1
INVARIANTS
  NoLostWakeup
  CleanDisconnectFlushes
  IndInv
PROPERTIES
  ImplementsCoalescer
CHECK_DEADLOCK FALSE
