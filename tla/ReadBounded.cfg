SPECIFICATION ReadSpec
CONSTANTS
  Limit = 2
  Kinds = {"pollable", "blocking", "plain"}
INVARIANTS
  NeverTruncated
PROPERTIES
  CancellationDecides
  ReturnedOrWiped
  CancellationEndsRead
CHECK_DEADLOCK FALSE
