SPECIFICATION FairSpec
CONSTANTS
  MaxMsgs = 3
  MaxSem = 3
  LateDeath = FALSE
INVARIANTS ExchangeInStep NotifiedWhilePending FreedAfterWaiter
PROPERTIES Destroyed
CHECK_DEADLOCK FALSE
