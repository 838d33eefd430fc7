CONSTANTS
  old = old
  new1 = new1
  new2 = new2
  None = None
  Replicas = {old, new1, new2}
  Binary <- MCBinary
  MaxRetries = 2
  MaxTroubles = 2
  Width = 5
  MaxAttempt = 5
SPECIFICATION Spec
INVARIANTS MigrationsRunOnce SchemaIsReady DoublesUpToTheCap
PROPERTIES NewestServes
CHECK_DEADLOCK FALSE
