CONSTANTS
  Requests = {r1, r2}
  Verifications = {v1, v2, v3}
  People = {p1, p2}
  MaxAttempts = 2
  Sends = 1
  SendsPerIp = 2
  VerifiesPerIp = 2
  Ttl = 1
  Window = 2
  Hour = 3
  MaxClock = 2
SPECIFICATION Spec
SYMMETRY Calls
CHECK_DEADLOCK FALSE
INVARIANTS
  OneTokenPerChallenge
  AttemptsBounded
  TokensEarned
