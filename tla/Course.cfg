\* Three sections, two at a time; the grant leaves the map one full call or two halves.
SPECIFICATION FairSpec
CONSTANTS
  Sections = {s1, s2, s3}
  Batches = {b1}
  Reduce = reduce
  W4 = w4
  NoJob = none
  Parallelism = 2
  Allowance = 5
  MapCap = 2
  ReduceCap = 1
  W2Cap = 1
  W4Cap = 1
  EstimateMax = 1
CHECK_DEADLOCK FALSE
INVARIANTS SpendIsBounded LaterStagesKeepTheirShare UsageIsTruthful NothingOutlivesTheRequest
PROPERTIES EveryRequestEnds
