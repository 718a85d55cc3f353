SPECIFICATION FairSpec
CONSTANTS
  Webhooks = {w1, w2}
  Polls = {p1}
  Queries = {q1}
CHECK_DEADLOCK FALSE
INVARIANTS TypeOK CleanStopLosesNothing
PROPERTIES GraceIsForWork StopsWhenTold
