SPECIFICATION Spec
CONSTANTS
  a = a
  b = b
  e = e
  Token = {a, b, e}
  Eos = e
  Blank = Blank
  Argmax <- MCArgmax
  Support <- MCSupport
  Prompts <- MCPrompts
  Limits = {1, 2, 4, 5}
  MaxSeq = 9
  Headroom = 3
  MaxK = 3
  MaxVerifyK = 4
  AlphaPct = 55
  AdaptiveWindow = 2
INVARIANTS TypeOK CacheHoldsCommitted DraftSeedFresh NoOverrun AdaptiveExact
PROPERTIES PlainSpec Terminates
