SPECIFICATION Spec
CONSTANTS
  Bad = Bad
  Token <- MCToken
  Eos = "eos"
  Argmax <- MCArgmax
  Prompts <- MCPrompts
  Lengths <- MCLengths
  Drafts <- MCDrafts
  Slack = 0
  MtpSlack = 0
  VerifyMax = 4
  Kinds <- MCKinds
INVARIANTS TypeOK StateIsCommitted SeedFresh NoOverrun
PROPERTY PlainSpec Terminates
