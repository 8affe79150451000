CONSTANTS
  a = a
  b = b
  g1 = g1
  g2 = g2
  Items <- MCItems
  Getters <- MCGetters
  Slots = 3
  MaxQueue = 2
  PutBound = 4
SPECIFICATION Spec
INVARIANTS NoLostWakeup
PROPERTIES ImplementsChannel
