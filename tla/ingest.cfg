SPECIFICATION Spec
CONSTANTS
  r1 = r1
  r2 = r2
  api = api
  web = web
  kApi = kApi
  kApi2 = kApi2
  kNone = kNone
  NoTarget = NoTarget
  NoKey = NoKey
  None = None
  Unmappable = Unmappable
  Requests <- MCRequests
  Keys <- MCKeys
  Starts <- MCStarts
  Targets <- MCTargets
  Bodies <- OneTarget
  Investigates = TRUE
  MaxFaults = 1
  MaxCuts = 0
  MaxHangups = 0
  MaxCrashes = 1
  MaxRepeats = 0
SYMMETRY Slots
CHECK_DEADLOCK FALSE
INVARIANTS
  TypeOK OneIncidentPerTarget AcceptedIsStored OrphansArePaidFor TicketShowsMembers
  MembersAreAudited InvestigatedIsStored TicketsFollowDecisions PathInv
PROPERTY ImplementsRegistry
