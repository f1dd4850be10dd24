\* The staged lane: an answer that claims a complete usage although a call was lost.
SPECIFICATION RouteSpec
CONSTANTS
  Kinds <- AskedKinds
  MaxFindings = 1
  MaxEchoes = 1
  MaxBlocking = 2
  JudgeMode = "repair"
  Plenty = 2
  PartCount = 2
  CallAttempts = 2
  AttemptCap = 8
  RepairLimit = 1
  ReviewModes = {"off", "observe", "repair"}
  Counts <- FewCounts
CHECK_DEADLOCK FALSE
INVARIANT UsageClaimIsTrue
