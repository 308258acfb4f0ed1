SPECIFICATION FairSpec
CONSTANTS
  Tasks = {t1, t2}
  Scrapers = {s1}
  Mergers = {m1}
  Supports = {"9E", "9D"}
  ClassFields = {"uid"}
  NodeFields = {"mfg"}
  ConfigInfo = {"code"}
  NotificationsEnabled = TRUE
  MaxFlaps = 1
INVARIANTS
  HealedIsAnnounced
  WaitersHaveFlight
  IndInv
PROPERTIES
  IdentityNeverLost
  MapsNeverLost
  Heals
CHECK_DEADLOCK FALSE
