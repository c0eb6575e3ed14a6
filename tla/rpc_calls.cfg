SPECIFICATION Spec
CONSTANTS
  t1 = t1
  t2 = t2
  p1 = p1
  p2 = p2
  Threads = {t1, t2}
  Procs = {p1, p2}
  ProcOf <- TwoProcs
  MaxCalls = 3
  MaxNest = 0
  MaxS2C = 2
  MaxKills = 1
  MachChans = TRUE
INVARIANTS CallConserved NoCallDuplicated InStep S2CAnswered ParkedHasSlot
CHECK_DEADLOCK FALSE
