SPECIFICATION LazySpec
CONSTANTS
  Threads = {t1, t2, t3}
  MaxCalls = 4
INVARIANTS MadeBeforeUse WordCountsHolders
PROPERTIES OnceReturns EverybodyComesIn
CHECK_DEADLOCK FALSE
