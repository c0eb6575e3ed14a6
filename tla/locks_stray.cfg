SPECIFICATION Spec
CONSTANTS
  a = a
  b = b
  c = c
  d = d
  NoOne = NoOne
  Mts <- ThreeMts
  Kernel <- OneMt
  Dying <- OneMt
  MaxSignals = 1
  BareLoop = FALSE
INVARIANTS MutualExclusion
CHECK_DEADLOCK FALSE
