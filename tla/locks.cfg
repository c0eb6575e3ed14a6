SPECIFICATION FairSpec
CONSTANTS
  a = a
  b = b
  c = c
  d = d
  NoOne = NoOne
  Mts <- FourMts
  Kernel = {}
  Dying = {}
  MaxSignals = 0
  BareLoop = TRUE
INVARIANTS LinkedOnce FreeMeansWoken
PROPERTIES HandedOn
