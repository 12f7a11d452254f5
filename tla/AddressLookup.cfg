CONSTANTS
  W = 6
  MaxOps = 3
  MaxRows = 3
  MaxAddr = 2
  MaxDies = 3
  MaxScanned = 4
  Ptrs <- MCPtrs
  Units <- MCUnits
SPECIFICATION LookupSpec
INVARIANTS
  HitIsFirstBracket
  MissMeansNoBracket
  FramesAreEnclosing
  LocationsChain
  HandlesMatchRecursion
  ReaderReleases
  RowsAsMeant
  AnswersAsMeant
PROPERTY
  EveryLookupEnds
