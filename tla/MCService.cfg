CONSTANTS
  Names <- ComponentNames
  MaxUnclean = 1
  MaxConns = 1
  MaxOutages = 1
SPECIFICATION Spec
INVARIANTS
  RequestsKeepTheirDependencies
  NothingIsLeftRunning
  ReadinessIsHonest
  FailuresAreReported
PROPERTIES
  TheProcessEnds
  ChecksAreAnswered
CHECK_DEADLOCK FALSE
