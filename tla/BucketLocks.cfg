SPECIFICATION FairLocksSpec
CONSTANTS
  k1 = k1
  k2 = k2
  s1 = s1
  s2 = s2
  NoKey = NoKey
  NoShard = NoShard
  Unset = Unset
  Cleaner = Cleaner
  Tasks = {t1}
  Keys = {k1, k2}
  ShardOf <- MCShardOf
  Viewers = {v1}
  Helpers = {h1}
  HelperTtls = {0, 1}
  Envs <- MCPlain
  DropLists <- MCLists
  SleepInterval = 1
  MaxDrops = 1
  MaxTime = 0
INVARIANTS
  LocksTypeOK
  NoWaitInCircles
PROPERTIES
  SectionsAreAtomic
  RequestsAreDecided
  PurgeEnds
  ViewsEnd
