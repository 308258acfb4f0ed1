SPECIFICATION FairSpec
CONSTANTS
  counter = counter
  unit = unit
  g1 = g1
  Nil = Nil
  EPCs = {counter, unit}
  Groups = {g1}
  Values = {0, 1}
  Metrics <- OneGroup
  Mult <- Multiplied
  Statmap = {counter, unit}
  ForcePolling = FALSE
  InfCap = 1
  MaxChanges = 1
  MaxPushes = 1
  MaxFails = 1
  MaxReads = 1
INVARIANTS
  PolledAreRequested
  IndInv
PROPERTIES
  CacheConverges
  SuccessReturns
