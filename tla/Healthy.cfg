SPECIFICATION FairSpec
CONSTANTS
  Jobs = {1, 2}
  Loop = loop
  Drains = {}
  None = None
  Batch = 1
  MaxAttempts = 2
  LeaseTicks = 3
  BaseBackoff = 1
  MaxBackoff = 2
  MinHeartbeat = 1
  MaxMissed = 1
  MaxFaults = 2
INVARIANTS
  TypeOK
  WorkerHoldsLease
  OneWorkerPerJob
  ClaimNeverCollides
  LastAttemptDecides
  AttemptsBudget
PROPERTIES
  TerminalIsFinal
  ImplementsJobQueue
  EventuallyTerminal
