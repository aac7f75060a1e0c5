CONSTANTS
  s1 = s1
  nobody = nobody
  l1 = l1
  l2 = l2
  l3 = l3
  b1 = b1
  b2 = b2
  ip = ip
  Staff = {s1}
  Logins = {l1, l2, l3}
  Browsers = {b1, b2}
  Plans <- MCPlans
  MaxFailures = 1
  Window = 3
  People = {p1, p2, p3}
  Visits = {v1}
  MaxMergeDepth = 2
  TicksPerSecond = 2
  StaffTtl = 1
  PrincipalTtl = 1
  MaxClock = 3
  MaxTokens = 1
  NoIp = NoIp
  None = None
SPECIFICATION Spec
SYMMETRY Identities
CHECK_DEADLOCK FALSE
INVARIANTS
  RevocationIsExact
  FailuresBounded
  PortalRevocationHolds
