SPECIFICATION FairSpec
CONSTANTS
  Hosts = {h1}
  Topics = 1
  Forgetful = TRUE
  Lossy = FALSE
  MaxConnects = 2
  MaxRefusals = 0
  MaxKeys = 1
PROPERTIES
  DiscoverySurvives
CHECK_DEADLOCK FALSE
