SPECIFICATION Spec
CONSTANTS
  r1 = r1
  r2 = r2
  api = api
  web = web
  kApi = kApi
  kApi2 = kApi2
  kNone = kNone
  NoTarget = NoTarget
  NoKey = NoKey
  None = None
  Unmappable = Unmappable
  Requests <- OneRequest
  Keys <- MCKeys
  Starts <- MCStarts
  Targets <- MCTargets
  Bodies <- IntakeBodies
  Investigates = FALSE
  MaxFaults = 1
  MaxCuts = 1
  MaxHangups = 0
  MaxCrashes = 0
  MaxRepeats = 1
CHECK_DEADLOCK FALSE
INVARIANTS AcceptedIsAudited RefusedIsNotProcessed
