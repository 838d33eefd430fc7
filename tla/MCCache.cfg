CONSTANTS
  c1 = c1
  c2 = c2
  Clients <- MCClients
  Release <- MCRelease
  Items <- MCItems
  Versioning <- MCVersioning
  MaxVersion = 2
  Itoa <- MCItoa
  DefaultTTL = 1
  Batch = 1
SPECIFICATION Spec
INVARIANTS
  HitsAreGood
  SweepsAreExact
CHECK_DEADLOCK FALSE
PROPERTIES
  SweepsEnd
