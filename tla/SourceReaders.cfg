\* Three index requests, two embedding models, one reader.
CONSTANTS
  r1 = r1
  r2 = r2
  r3 = r3
  d1 = d1
  c1 = c1
  c2 = c2
  m1 = m1
  m2 = m2
  p1 = p1
  Requests = {r1, r2, r3}
  Deletes = {}
  Contents = {c1}
  EmbeddingModel <- TwoModels
  MaxVersion = 3
  None = None
  Readers = {p1}
  ReaderModel = m1
  Chunks <- SmallChunks
  Structured = {c1}
  RowLimit = 2
  PageMaxFacts = 2
SPECIFICATION CalmSourceSpec
INVARIANTS SomeRequestWins SnapshotIsSound ReadsMoveForward
SYMMETRY SameModel
