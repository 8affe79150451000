SPECIFICATION Spec
CONSTANTS
  Samples = {x}
  Rollouts = {1, 2}
  Servers = {s1, s2}
  MaxModelLen = 3
  MaxVersion = 2
  PromptLen = 1
  ResponseLen = 2
INVARIANTS RoomLeft
PROPERTIES TransferIsQuiet PauseReturns Completes
