CONSTANTS
  W = 6
  RawEntries = 2
  RawUnits <- MCRawUnits
  DieEntries = 2
  LowPcs = {0, 2}
  Units <- MCUnits
  Dies <- MCDies
  Ptrs <- MCPtrs
SPECIFICATION ListSpec
INVARIANTS
  InlineTestAgrees
