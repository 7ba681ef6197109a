SPECIFICATION Spec
CONSTANTS
  near = near
  edge = edge
  far = far
  spelt = spelt
  list = list
  admin = admin
  u1 = u1
  s1 = s1
  s2 = s2
  Foreign = Foreign
  Unset = Unset
  Unknown = Unknown
  None = None
  Addrs <- MCAddrs
  Texts <- MCTexts
  Parse <- MCParse
  First <- MCFirst
  Bearers <- MCBearers
  Fingerprint <- MCFingerprint
  Slots = {r1, r2}
  Calls <- MCCalls
  Proxies <- MCProxies
  Secrets = {s1, s2}
  Users = {u1}
  Builds <- MCBuilds
  Loopback = {near}
  Lifetime = 1
  Leeway = 1
  MaxTime = 3
  MaxIssued = 1
INVARIANTS
  TypeOK
  KeysFollowSource
  RightLayers
SYMMETRY MCSymmetry
PROPERTY
  SessionsAreEarned
