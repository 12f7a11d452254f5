CONSTANTS
  W = 6
  MaxOps = 3
  MaxRows = 1
  MaxAddr = 1
  MaxDies = 1
  MaxScanned = 1
  Ptrs <- MCPtrs
  Units <- MCUnits
SPECIFICATION LookupSpec
INVARIANT
  EndsAreEndSequences
