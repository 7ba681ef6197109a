SPECIFICATION FairHistorySpec
CONSTANTS
  r1 = r1
  r2 = r2
  r3 = r3
  i1 = i1
  i2 = i2
  i3 = i3
  ann = ann
  Ann = Ann
  bob = bob
  nonsense = nonsense
  pw1 = pw1
  pw2 = pw2
  Absent = Absent
  Requests = {r1, r2, r3}
  Ids = {i1, i2, i3}
  Emails = {ann, bob}
  Typed = {ann, Ann, bob, nonsense}
  Passwords = {pw1, pw2}
  WellFormed = {ann, Ann, bob, pw1, pw2}
  Canonical <- MCCanonical
  Payloads <- MCLogins
  Tables <- MCAnnBob
CHECK_DEADLOCK FALSE
INVARIANTS
  TokensAreEarned
  RefusalsHaveACause
PROPERTIES
  EveryRequestEnds
