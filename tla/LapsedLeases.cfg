SPECIFICATION Spec
CONSTANTS
  Jobs = {1}
  Loop = loop
  Drains = {d1, d2}
  None = None
  Batch = 1
  MaxAttempts = 2
  LeaseTicks = 3
  BaseBackoff = 1
  MaxBackoff = 2
  MinHeartbeat = 1
  MaxMissed = 2
  MaxFaults = 3
INVARIANTS
  LeaseIffRunning
  CompletedWasRecorded
  AttemptsHaveRows
PROPERTIES
  OutcomeWrittenOnce
SYMMETRY DrainSymmetry
