SPECIFICATION Spec
CONSTANTS
  Instances = {i1, i2}
  Emails = {e1, e2}
  None = None
  MaxRows = 3
  MaxCrashes = 2
INVARIANTS
  TypeOK
  ServingMeansIndexed
PROPERTIES
  EldestSurvive
  ServingKeepsUsers
  OnlyAKeptLockBlocks
CHECK_DEADLOCK FALSE
