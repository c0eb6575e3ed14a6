SPECIFICATION FairSpec
CONSTANTS
  t1 = t1
  t2 = t2
  p1 = p1
  p2 = p2
  Threads = {t1}
  Procs = {p1}
  ProcOf <- OneProc
  MaxCalls = 6
  MaxNest = 1
  MaxS2C = 1
  MaxKills = 0
  MachChans = FALSE
INVARIANTS InStep NoUnsentReply
PROPERTIES InterruptedCallUntouched Answered
CHECK_DEADLOCK FALSE
