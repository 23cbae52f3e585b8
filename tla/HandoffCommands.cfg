SPECIFICATION Spec
CONSTANTS
  MaxSignals = 2
  Statuses <- MCStatuses
  NoEffect <- MCNoEffect
  Settings <- MCSettings
INVARIANTS
  ZeroMeansHandedOver
  SignalStatusIsHonest
  TokenStaysAtOrigin
CHECK_DEADLOCK FALSE
