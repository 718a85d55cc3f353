SPECIFICATION Spec
CONSTANTS
  r1 = r1
  r2 = r2
  api = api
  web = web
  kApi = kApi
  kApi2 = kApi2
  kNone = kNone
  NoTarget = NoTarget
  NoKey = NoKey
  None = None
  Unmappable = Unmappable
  Requests <- MCRequests
  Keys <- MCKeys
  Starts <- MCStarts
  Targets <- MCTargets
  Bodies <- ThreeProblems
  Investigates = TRUE
  MaxFaults = 0
  MaxCuts = 1
  MaxHangups = 0
  MaxCrashes = 0
  MaxRepeats = 1
CHECK_DEADLOCK FALSE
INVARIANT OneIncidentWhateverIsRead
