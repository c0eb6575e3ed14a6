SPECIFICATION FairSpec
CONSTANTS
  Producers = {p1, p2}
  Consumers = {c1, c2}
  NoOwner = NoOwner
  MaxItems = 2
  NotifyLocked = TRUE
PROPERTIES LockIsMutex LockProgress NoNotifyLost
CHECK_DEADLOCK FALSE
