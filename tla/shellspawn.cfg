SPECIFICATION FairSpec
CONSTANTS
  Launchers = {a, b}
  NoLauncher = NoLauncher
  MAX_SPAWNS = 1
  MaxSignals = 1
INVARIANTS TargetsAttended CodeTrue
PROPERTIES Served TargetEnds ExitReported
CHECK_DEADLOCK FALSE
