CONSTANTS
  MaxFaults = 0
  Disks <- AllDisks
SPECIFICATION Spec
INVARIANTS
  NullErrorTolerated
