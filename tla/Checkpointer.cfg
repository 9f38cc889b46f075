SPECIFICATION FairSpec
CONSTANTS
  j1 = j1
  j2 = j2
  Tasks = {j1, j2}
  Main = Main
  Sweeper = Sweeper
  None = None
  MaxPools = 4
CHECK_DEADLOCK FALSE
INVARIANTS
  OnePool
  SaverIsReady
PROPERTIES
  GivenOpen
  EveryGetReturns
