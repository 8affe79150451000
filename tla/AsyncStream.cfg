CONSTANTS
  Total = 3
  MaxRequired = 2
  MaxConcurrent = 2
  PendingCap = 4
  Partial = FALSE
  TestFreq = 1
  Required = 1
  Trigger = 1
  ValBefore = FALSE
SPECIFICATION Spec
INVARIANTS TypeOK VersionOrder
PROPERTIES ImplementsFlow Terminates
