CONSTANTS
  MaxChanges = 2
  MaxFrames = 4
  MaxCalls = 2
  None = None
  Modules <- MCModules
  Base <- MCBase
  Pages <- MCPages
  Code <- MCCode
  Stacks <- MCStacks
  Chains <- MCChains
  Pcs <- MCPcs
SPECIFICATION MCSpec
INVARIANTS
  GroupsInOrder
  NothingLost
  FramesAreCalls
  FramesComplete
  OneTextKept
  LinesInOrder
PROPERTIES
  ShowsText
  TraceEnds
