\* Four layers, three provider calls, two fingerprints, room for five rounds of repair.
SPECIFICATION FairSpec
CONSTANTS
  Layers <- MCLayers
  Operations <- MCOperations
  EvidenceLayer = "evidence"
  CoherenceLayer = "coherence"
  Prints = {p1, p2}
  MaxTries = 2
  MaxPerLayer = 1
  MaxCalls = 3
  MaxAttempts = 2
  RecursionLimit = 19
  None = None

CHECK_DEADLOCK FALSE
INVARIANTS ExecutedCallsAreVisible ProviderRepairsAreBounded OnlyValidatedBlueprintIsAnswered
PROPERTIES EveryRequestEnds
