CONSTANTS
  w1 = w1
  w2 = w2
  Workers = {w1, w2}
  MaxEvents = 2
  BatchSize = 1
  AttemptCap = 2
  CopyCap = 2
SYMMETRY WorkerSymmetry
SPECIFICATION SafetySpec
INVARIANTS
  NoEventLost
  NoPhantomEvent
  BackoffNeverAhead
PROPERTIES
  ImplementsAtLeastOnce
