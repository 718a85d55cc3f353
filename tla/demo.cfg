SPECIFICATION FairSpec
CONSTANTS
  base = base
  image = image
  oom = oom
  None = None
  Baseline = base
  Templates <- MCTemplates
  Works <- MCWorks
  Dirs <- MCDirs
  MaxUpsets = 1
  MaxInjects = 1
  MaxMishaps = 1
CHECK_DEADLOCK FALSE
INVARIANTS ArmedTellsWhatIsThere AnswerHasItsPods
PROPERTY SafeToRunAgain
