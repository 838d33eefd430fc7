CONSTANTS
  w1 = w1
  Workers = {w1}
  MaxEvents = 2
  Messages = {1, 2}
  Routable = {1, 2}
  None = 0
  BatchSize = 2
  AttemptCap = 1
  MaxPublish = 3
  MaxAbandon = 1
SPECIFICATION SafetySpec
PROPERTIES KeepsThePromise
CHECK_DEADLOCK FALSE
