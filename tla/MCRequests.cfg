CONSTANTS
  r1 = r1
  r2 = r2
  Calls = {r1, r2}
SPECIFICATION ChainSpec
INVARIANTS CodesAgree OneLinePerCall GaugeIsExact
PROPERTIES EveryCallIsAnswered
CHECK_DEADLOCK FALSE
