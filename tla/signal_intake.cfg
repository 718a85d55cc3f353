SPECIFICATION FairSpec
CONSTANTS
  Alerts <- MCAlerts
  Workloads <- MCWorkloads
  MaxValue = 3
  MaxRaw = 8
CHECK_DEADLOCK FALSE
INVARIANT BoundedAndMarked
PROPERTY IntakeEnds
