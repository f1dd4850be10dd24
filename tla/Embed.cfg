\* Two workers on two batches, beside one AI ID caller; two slots and four threads.
SPECIFICATION FairSpec
CONSTANTS
  w1 = w1
  w2 = w2
  idm = idm
  Workers <- MCWorkers
  Callers <- MCCallers
  Patient <- MCPatient
  Delays <- MCDelays
  Count = 2
  Limit = 2
  ThreadsPerSlot = 2
  MaxAttempts = 2
  MaxWait = 2
  ShortWait = 1

CHECK_DEADLOCK FALSE
INVARIANTS OnlyCompleteVectorsAreIndexed NoCallOutlivesTheRequest SpareThreadsServe
PROPERTIES EmbeddingEnds
