SPECIFICATION LedgerSpec
CONSTANTS
  t1 = t1
  t2 = t2
  h1 = h1
  k1 = k1
  k2 = k2
  NoKey = NoKey
  Unset = Unset
  Cleaner = Cleaner
  Tasks = {t1, t2}
  Keys = {k1}
  Helpers = {}
  HelperTtls = {0}
  Envs <- MCPlain
  DropLists = {}
  SleepInterval = 9
  MaxDrops = 0
  MaxTime = 3
  RateBound = 1
  BurstBound = 2
  BurstFloor = 2
SYMMETRY TaskSymmetry
INVARIANTS
  RefillRateIsKept
