CONSTANTS
  Total = 7
  MaxRequired = 4
  MaxConcurrent = 3
  PendingCap = 8
  Partial = TRUE
  TestFreq = 0
  Required = 2
  Trigger = 2
  ValBefore = FALSE
SPECIFICATION Spec
INVARIANTS OnPolicy InFlightBound ConcurrencyBound
PROPERTIES AllUsed
