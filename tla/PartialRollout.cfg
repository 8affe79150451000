CONSTANTS
  Total = 3
  MaxRequired = 2
  MaxConcurrent = 2
  PendingCap = 1
  Partial = TRUE
  TestFreq = 0
  Required = 1
  Trigger = 1
  ValBefore = TRUE
SPECIFICATION SafetySpec
INVARIANTS OneHome
PROPERTIES QuietTransfer
