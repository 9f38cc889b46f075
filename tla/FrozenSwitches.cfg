SPECIFICATION Spec
CONSTANTS
  c1 = c1
  c2 = c2
  h1 = h1
  h2 = h2
  listed = listed
  provider = provider
  internal = internal
  Callers = {c1}
  Hosts <- TwoHosts
  Urls = {listed, provider, internal}
  Host <- MCHost
  Class <- MCClass
  Configs <- MCConfigs
  Changes <- MCChanges
  Lengths = {0, 1, 2}
  MIN_USABLE_BODY_CHARS = 2
  Interval = 2
  None = None
  MaxCalls = 1
  MaxPeriod = 1
  MaxRestarts = 1
CHECK_DEADLOCK FALSE
PROPERTIES
  SwitchTakesEffect
