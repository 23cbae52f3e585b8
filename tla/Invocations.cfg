SPECIFICATION MCSpec
CONSTANTS
  Meanings <- MCMeanings
  Servers <- MCServers
  Ids <- MCIds
  IdLength = 2
  Typed <- MCTyped
  MaxEdits = 2
INVARIANTS
  UnderstoodAsMeant
  CompletionAgrees
  EverySourceCounts
  MixedSourcesStayUnread
  LeadsBack
  NeverRedirectedSilently
CHECK_DEADLOCK FALSE
