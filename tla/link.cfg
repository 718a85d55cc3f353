SPECIFICATION FairSpec
CONSTANTS
  c1 = c1
  c2 = c2
  here = here
  there = there
  p1 = p1
  p2 = p2
  None = None
  Calls <- MCCalls
  At <- MCAt
  Locations <- MCLocations
  Polls <- MCPolls
  MaxQueued = 1
CHECK_DEADLOCK FALSE
INVARIANTS TypeOK PendingIsWaiting AnsweredByItsOwn WorkedOnOnce
PROPERTIES EveryQueryReturns ImplementsQuery
