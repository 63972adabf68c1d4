SPECIFICATION Spec
CONSTANTS
  QwenModels <- MCQwen
  GemmaModels <- MCGemma
  Route <- MCRoute
  Arrivals <- MCArrivals
  Taps = 3
  SmallRows = 1
  MoeChunk = 2
  ExpertCount = 3
  Used = 2
  TileRows = 2
  SplitLen = 2
  MaxSplits = 2
  MaxSeq = 6
  ChainK = 2
  Window = 2
  MaxVerify = 3
  CtxChunk = 2
  BlockSize = 4
  BlockArg = 9
  WidthArg = 3
INVARIANTS MatchesReference PathsAgree
CHECK_DEADLOCK FALSE
