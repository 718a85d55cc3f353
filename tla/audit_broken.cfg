SPECIFICATION Spec
CONSTANTS
  w1 = w1
  w2 = w2
  None = None
  Writers <- MCWriters
  MaxAppends = 4
  MaxFaults = 1
  MaxKills = 0
SYMMETRY Symmetry
CHECK_DEADLOCK FALSE
PROPERTY NothingAppendedToBroken
