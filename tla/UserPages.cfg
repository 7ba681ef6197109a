SPECIFICATION Spec
CONSTANTS
  Walkers = {w1}
  PageParams = {Missing, 0, 1}
  PerParams = {Missing, 0, 1, 2, 5}
  Missing = Missing
  DefaultPer = 2
  MaxPer = 3
  MaxId = 4
INVARIANTS
  TypeOK
  RepeatsAreLate
  MissedAreRemovals
  TotalsAgree
CHECK_DEADLOCK FALSE
