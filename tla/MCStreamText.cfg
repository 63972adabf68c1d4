SPECIFICATION Spec
CONSTANTS
  Tokens <- MCTokens
  MaxTokens = 5
  MaxBuffer = 3
INVARIANTS NothingLost PreambleHidden AgreesWithStrip
