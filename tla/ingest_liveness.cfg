SPECIFICATION FairSpec
CONSTANTS
  r1 = r1
  r2 = r2
  api = api
  web = web
  kApi = kApi
  kApi2 = kApi2
  kNone = kNone
  NoTarget = NoTarget
  NoKey = NoKey
  None = None
  Unmappable = Unmappable
  Requests <- MCRequests
  Keys <- MCKeys
  Starts <- MCStarts
  Targets <- MCTargets
  Bodies <- OneTarget
  Investigates = TRUE
  MaxFaults = 1
  MaxCuts = 0
  MaxHangups = 1
  MaxCrashes = 0
  MaxRepeats = 0
CHECK_DEADLOCK FALSE
PROPERTIES EveryBodyIsAnswered EveryIncidentInvestigated
