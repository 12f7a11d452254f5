CONSTANTS
  Threads = {t1, t2, t3}
  Addrs = {a1, a2, a3}
  Growth = 2
  MaxBlocks = 4
  MaxFaults = 1
  None = None
  Site <- MCSite
SYMMETRY MCSymmetry
SPECIFICATION Spec
CHECK_DEADLOCK FALSE
INVARIANTS
  Accounting
  ReportSound
  ReportComplete
  BlameFindsBlock
