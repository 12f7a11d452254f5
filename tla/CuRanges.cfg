CONSTANTS
  W = 6
  RawEntries = 3
  RawUnits <- MCRawUnits
  DieEntries = 2
  LowPcs = {0, 2}
  Units <- MCUnits
  Dies <- MCDies
  Ptrs <- MCPtrs
SPECIFICATION ListSpec
INVARIANTS
  HandlesReleased
  FilterConservative
  FilterExact
  InlineTestExact
  ListsAsWritten
