SPECIFICATION Spec
CONSTANTS
  Token <- MCToken
  Eos = "eos"
  Argmax <- MCArgmax
  Support <- MCSupport
  Layers <- MCLayers
  Donor <- MCDonor
  ChatWarm = 3
  Slack = 1
  SplitLen = 1
  MaxSplits = 4
  Waves = 2
  Unset = Unset
  WarmEnv <- MCWarmEnv
  ColdEnv <- MCColdEnv
  MaxPrompt = 3
  MaxSteps = 3
INVARIANTS TypeOK TiersHoldContext WarmFirst EnoughRoom
PROPERTY PlainSpec
