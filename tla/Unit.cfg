\* Storyboard: a text, a question and a FAQ; a finding in each answer of the provider, one more
\* by what the slots read, and a repair of up to two slots for the judge.
\* Staged: two components, of which a review may have one rewritten.
SPECIFICATION RouteSpec
CONSTANTS
  Kinds <- AskedKinds
  MaxFindings = 1
  MaxEchoes = 1
  MaxBlocking = 2
  JudgeMode = "repair"
  Plenty = 2
  PartCount = 2
  CallAttempts = 2
  AttemptCap = 8
  RepairLimit = 1
  ReviewModes = {"off", "observe", "repair"}
  Counts <- FewCounts
CHECK_DEADLOCK FALSE
INVARIANTS LastCheckPasses RepairsNeverHurt ValidatedIsEarned JudgementIsOfTheUnit
  AnsweredUnitIsSound ValidatedWasReviewed ValidatedUsageIsTruthful
