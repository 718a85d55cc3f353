SPECIFICATION Spec
CONSTANTS
  w1 = w1
  w2 = w2
  None = None
  Writers <- MCWriters
  MaxAppends = 5
  MaxFaults = 2
  MaxKills = 2
SYMMETRY Symmetry
CHECK_DEADLOCK FALSE
INVARIANTS TypeOK ChainHolds AckedIsDurable
