SPECIFICATION Spec
CONSTANTS
  MaxSignals = 2
  Statuses <- MCStatuses
  NoEffect <- MCNoEffect
  Settings <- MCSettings
INVARIANTS
  ZeroMeansDelivered
  NoSilentLoss
  ReadyBeforeClaim
  NoReservationLeft
  UnknownIsReported
  PendingHandoffCompletes
PROPERTIES
  FinishedFilesAreKept
  SignalEndsInvocation
CHECK_DEADLOCK FALSE
