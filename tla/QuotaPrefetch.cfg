SPECIFICATION Spec
CONSTANTS
  WindowSize = 2
  SlotDuration = 1
  Amounts = {1, 2}
  MinPrefetch = 2
  CloseWait = 2
  MaxExpiration = 2
  Expirations = {1}
  InitQueueSize = 2
  MaxTime = 3
  MaxChecks = 4
INVARIANTS
  TokensConserved
  SlotIdsIncrease
PROPERTIES
  ForgiveOnlyWhenDry
  RefusedOnlyWhenShort
CHECK_DEADLOCK FALSE
