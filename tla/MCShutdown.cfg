CONSTANTS
  MaxDeliveries = 3
SPECIFICATION Spec
PROPERTIES ConsumeReturns CloseReturns DrainEnds
CHECK_DEADLOCK FALSE
