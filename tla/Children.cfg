\* Two runs on one CPU slot, and a service that stops.
SPECIFICATION CFairSpec
CONSTANTS
  Runs = {r1, r2}
  Workers = 1
  NoRun = NoRun

CHECK_DEADLOCK FALSE
INVARIANTS UnkilledChildHoldsASlot
PROPERTIES CancelledRunEnds
