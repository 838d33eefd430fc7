CONSTANTS
  w1 = w1
  Workers = {w1}
  MaxEvents = 1
  Messages = {1}
  Routable = {}
  None = 0
  BatchSize = 2
  AttemptCap = 1
  MaxPublish = 2
  MaxAbandon = 0
SPECIFICATION SafetySpec
INVARIANT NothingVanishesSilently
CHECK_DEADLOCK FALSE
