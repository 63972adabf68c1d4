SPECIFICATION Spec
CONSTANTS
  s = s
  u = u
  v = v
  Token = {s, u, v}
  Answer = v
  Blank = Blank
  Prompts <- MCPrompts
  Limits = {2, 4}
  MaxK = 1
  MaxSeq = 6
  Headroom = 1
  MinOverlap = 1
  CacheSlots = 2
INVARIANTS ColdContextExact LruExact NoOverrun
