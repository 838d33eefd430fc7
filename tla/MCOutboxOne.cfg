CONSTANTS
  w1 = w1
  Workers = {w1}
  MaxEvents = 2
  BatchSize = 2
  AttemptCap = 2
  CopyCap = 2
SPECIFICATION Spec
INVARIANTS
  DuplicatesAreExplained
  BackoffFollowsAttempts
PROPERTIES
  NoEventIsForgotten
  CancellationStopsTheWorker
