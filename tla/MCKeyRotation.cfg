CONSTANTS
  k1 = k1
  k2 = k2
  i1 = i1
  v1 = v1
  Keys = {k1, k2}
  None = None
  Issuers = {i1}
  Verifiers = {v1}
  TTL = 1
  ClockSkew = 1
  MaxTime = 3
  MaxTokens = 1
SPECIFICATION Spec
SYMMETRY Symmetry
INVARIANTS FreshTokensVerify StaleJWKSIsCorrect
CHECK_DEADLOCK FALSE
