SPECIFICATION FairSpec
CONSTANTS
  Tasks = {t1}
  Scrapers = {s1}
  Mergers = {m1}
  Supports = {"9E"}
  ClassFields = {"uid", "mfg", "code"}
  NodeFields = {"uid", "mfg", "code"}
  ConfigInfo = {}
  NotificationsEnabled = TRUE
  MaxFlaps = 1
PROPERTIES
  UnsupportedMapSettles
CHECK_DEADLOCK FALSE
