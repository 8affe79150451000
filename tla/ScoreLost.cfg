SPECIFICATION Spec
CONSTANTS
  Talks = {a, b}
  NumServers = 2
  PromptLen = 1
  MaxPromptLen = 2
  ResponseLen = 5
  MaxAssistant = 3
  MaxUser = 2
  MaxParallel = 2
  MaxCalls = 3
  MaxAnswer = 2
INVARIANTS Credited
