SPECIFICATION Spec
CONSTANTS
  OfflineAfter = 30
  PollHold = 20
  ClientTimeout = 30
  Retry = 5
  SweepEvery = 1
  Delay = 1
INVARIANTS SilenceIsNoticed ComesBack
PROPERTY HealthyStaysOnline
