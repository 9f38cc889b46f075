SPECIFICATION Spec
CONSTANTS
  Source <- MCSource
  Titles <- MCTitles
  Hosts <- MCHosts
  MaxResults = 3
  GenericTitleWords <- MCGeneric
  NonDistinctiveLabels <- MCLabels
  PublicBodyLabels <- MCBodyLabels
  PublicBodyTLDs <- MCBodyTLDs
  EuropaEU <- MCEuropa
  ShortNames <- MCShort
  Strangers <- MCStrangers
  Organisations <- MCOrganisations
  None = None
CHECK_DEADLOCK FALSE
INVARIANTS
  StrangersStayOut
  SecondDocument
  AcceptanceUntouched
