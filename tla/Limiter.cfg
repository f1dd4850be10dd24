CONSTANTS
  b1 = b1  b2 = b2  i1 = i1  i2 = i2
  Callers <- Mixed
  Background <- MixedBackground
  Limit = 2
  Reserved = 1
  None = None
SPECIFICATION FairSpec
INVARIANTS NoSlotLost ReservedServesChat
PROPERTY EveryWaitEnds
