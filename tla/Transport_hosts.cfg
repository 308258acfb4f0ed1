CONSTANTS
  Callers = {c1, c2}
  Hosts = {h1, h2}
  TidMod = 3
  MaxSends = 2
  MaxAttempts = 2
  InfKinds = {}
  InfCap = 0
  MaxExpired = 1
  MaxConns = 2
  StrictSource = TRUE
SPECIFICATION Spec
SYMMETRY Symmetry
INVARIANTS AnswersOwnRequest SingleSocket ExpiredBounded IndInv
PROPERTIES OnlyShutdownCloses
CHECK_DEADLOCK FALSE
