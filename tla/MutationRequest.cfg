SPECIFICATION FairSpec
CONSTANTS
  Statuses <- MCStatuses
  NoEffect <- MCNoEffect
INVARIANTS
  RefusalIsFinal
PROPERTIES
  ImplementsSingleAttempt
  AlwaysReturns
CHECK_DEADLOCK FALSE
