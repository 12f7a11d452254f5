CONSTANTS
  Blocks <- MCBlocks
  Keys <- MCBlocks
  Primes <- MCPrimes
  HashOf <- MCHash
  FillPercent = 90
  NoKey = NoKey
  MaxFails = 2
  Sizes <- MCSizes
  DefaultSize = 2
  MaxErrors = 6
  MaxRefused = 1
SPECIFICATION Spec
INVARIANTS TableSound AttachedGoesToo ListIsNewest
PROPERTY Implements
CONSTRAINT OneAtATime
CHECK_DEADLOCK FALSE
