CONSTANTS
  c1 = c1
  c2 = c2
  Consumers = {c1, c2}
  MaxMessages = 1
  MaxAttempts = 2
  Prefetch = 1
  MaxCopies = 7
  MaxInterrupts = 2
SPECIFICATION Spec
INVARIANTS
  NoMessageLost
  DeadLettersAreExhausted
  RecoveredStaysOut
  RunsAreBounded
PROPERTY EveryMessageEnds
CHECK_DEADLOCK FALSE
