SPECIFICATION FairSpec
CONSTANTS
  Calls = {c1, c2}
  Deadlines = {1, 2, 3, 4}
  Forever = 9
  MaxTime = 4
  MaxFirings = 2
INVARIANTS NothingMissed
PROPERTIES NearestKept DueRuns
CHECK_DEADLOCK FALSE
