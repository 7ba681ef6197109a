SPECIFICATION Spec
CONSTANTS
  t1 = t1
  t2 = t2
  h1 = h1
  k1 = k1
  k2 = k2
  NoKey = NoKey
  Unset = Unset
  Cleaner = Cleaner
  Tasks = {t1, t2}
  Keys = {k1}
  Helpers = {}
  HelperTtls = {0}
  Envs <- MCPlain
  DropLists = {}
  SleepInterval = 2
  MaxDrops = 0
  MaxTime = 4
SYMMETRY TaskSymmetry
INVARIANTS
  EvictsOnlyIdle
