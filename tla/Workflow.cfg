SPECIFICATION FairSpec
CONSTANTS
  a = a
  b = b
  Keys = {a, b}
  Pages <- MCPages
  Truths <- MCTruths
  Answers = {"completed", "unavailable"}
  Fetches = {"fetched", "empty", "failed"}
  MaxCandidates = 3
  MaxFaults = 2
  MaxAttempts = 2
  LeaseTicks = 3
  BaseBackoff = 1
  MaxBackoff = 2
  None = None
CHECK_DEADLOCK FALSE
INVARIANTS
  WorkflowTypeOK
  ExactOutcome
  OutcomeSupported
  JobOutcomeSupported
  TextsConsumed
PROPERTIES
  MergeKeepsAwards
  NoWorkRedone
  BatchKept
  RunEnds
