SPECIFICATION Spec
CONSTANTS
  Samples = {x}
  Rollouts = {1, 2}
  Servers = {s1, s2}
  MaxModelLen = 4
  MaxVersion = 2
  PromptLen = 1
  ResponseLen = 2
INVARIANTS LogProbsAligned VersionSpan
PROPERTIES OnlyGrows
