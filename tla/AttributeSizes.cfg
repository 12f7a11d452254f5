CONSTANTS
  MaxFaults = 2
  Disks <- AllDisks
  HtMultiple = 1
  HeaderSize = 1
  MaxRoom = 4
  MaxCalls = 3
  MaxUnits = 2
  MaxAbbrevs = 3
  MaxOwn = 3
  Base = 64
  AddrSize = 4
  Asked <- MCAsked
  Sections <- MCSections
  Stored <- MCStored
  Listed <- MCListed
SPECIFICATION ObjectSpec
INVARIANTS
  AttributesRead
