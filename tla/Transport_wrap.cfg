CONSTANTS
  Callers = {c1, c2}
  Hosts = {h1}
  TidMod = 1
  MaxSends = 2
  MaxAttempts = 2
  InfKinds = {"INF"}
  InfCap = 1
  MaxExpired = 1
  MaxConns = 1
  StrictSource = FALSE
SPECIFICATION FairSpec
INVARIANTS WaiterIntact NoOrphanWaiter
PROPERTIES CallReturns
CHECK_DEADLOCK FALSE
