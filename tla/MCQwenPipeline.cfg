SPECIFICATION Spec
CONSTANTS
  Bad = Bad
  Token <- MCToken
  Files <- MCFiles
  Devices = {1, 2, 3, 4}
  Counts <- MCCounts
  Visible = 3
  Layouts <- MCLayouts
  Prompts <- MCPrompts
  Lengths <- MCLengths
  MaxSeq = 6
  Slack = 0
  Tile = 1
  MaxChunk = 2
  H = 1
  K = 2
  Inner = 3
  Requests = 2
  MaxFaults = 1
INVARIANTS TypeOK PlanFair ContextExact NoAllocInCapture PoolExact
