SPECIFICATION Spec
CONSTANTS
  a = a
  b = b
  Keys = {a, b}
  Pages <- OneList
  Truths <- MCTruths
  Answers = {"completed"}
  Fetches = {"fetched", "failed"}
  MaxCandidates = 3
  MaxFaults = 1
  MaxAttempts = 2
  LeaseTicks = 3
  BaseBackoff = 1
  MaxBackoff = 2
  None = None
CHECK_DEADLOCK FALSE
INVARIANTS
  AnalysisKept
