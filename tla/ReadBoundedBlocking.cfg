SPECIFICATION ReadSpec
CONSTANTS
  Limit = 2
  Kinds = {"pollable", "blocking", "plain"}
PROPERTIES
  CancellationCoversInput
CHECK_DEADLOCK FALSE
