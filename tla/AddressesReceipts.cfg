SPECIFICATION AddressSpec
CONSTANTS
  Servers <- MCServers
  Ids <- MCIds
  IdLength = 2
  Typed <- MCTyped
  MaxEdits = 2
INVARIANTS
  ReceiptsAreAccepted
CHECK_DEADLOCK FALSE
