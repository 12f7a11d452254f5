CONSTANTS
  W = 6
  MaxFaults = 2
  MaxUnits = 2
  MaxAddrs = 2
  Lookups = {1, 3, 5}
  Images <- MCImages
  Queries <- MCQueries
SPECIFICATION FairSpec
INVARIANTS
  FieldsMatchHandles
  ReadOnce
PROPERTIES
  ReportsAsPromised
