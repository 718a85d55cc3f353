SPECIFICATION FairSpec
CONSTANTS
  a = a
  b = b
  Incidents = {1, 2}
  Targeted = {1, 2}
  Untargeted = {2}
  ClaimIds <- MCClaimIds
  Refs <- MCRefs
  Statements <- MCStatements
  Submissions <- MCSubmissions
  Answers <- MCAnswers
  Steps = 2
  Tokens = 2
  MaxFaults = 1
CHECK_DEADLOCK FALSE
INVARIANTS TypeOK BudgetHolds ConfidenceIsEarned ShownIsAudited
PROPERTY RunningOutStillWritesAnRCA
