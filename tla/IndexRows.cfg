CONSTANTS
  r1 = r1
  r2 = r2
  r3 = r3
  d1 = d1
  c1 = c1
  c2 = c2
  m1 = m1
  m2 = m2
  Requests = {r1, r2}
  Deletes = {d1}
  Contents = {c1, c2}
  EmbeddingModel <- OneModel
  MaxVersion = 3
  None = None
SPECIFICATION FairSpec
INVARIANTS AtMostOneActive ServedHasItsNodes RunningRowHasAnOwner
PROPERTY EveryRequestIsAnswered SettledStatusIsFinal ImplementsPublishedIndex
CHECK_DEADLOCK FALSE
