CONSTANTS
  Threads = {t1, t2}
  Addrs = {a1, a2}
  Growth = 2
  MaxBlocks = 3
  MaxFaults = 0
  None = None
  Site <- MCSite
SYMMETRY MCSymmetry
SPECIFICATION Spec
CHECK_DEADLOCK FALSE
INVARIANT
  ReportsOriginOfThreads
