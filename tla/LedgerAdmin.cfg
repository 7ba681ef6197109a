SPECIFICATION LedgerSpec
CONSTANTS
  t1 = t1
  t2 = t2
  h1 = h1
  k1 = k1
  k2 = k2
  NoKey = NoKey
  Unset = Unset
  Cleaner = Cleaner
  Tasks = {t1}
  Keys = {k1}
  Helpers = {h1}
  HelperTtls = {0, 2}
  Envs <- MCStrict
  DropLists <- MCLists
  SleepInterval = 9
  MaxDrops = 1
  MaxTime = 2
  RateBound = 1
  BurstBound = 2
  BurstFloor = 1
INVARIANTS
  LedgerTypeOK
  LedgerInv
PROPERTIES
  UntouchedEvictionIsFree
  BurstIsHonoured
  KeepsBudget
