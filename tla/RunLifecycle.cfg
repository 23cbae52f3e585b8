SPECIFICATION MCSpec
CONSTANTS
  Results <- MCResults
  MaxSignals = 3
  MaxUses = 2
INVARIANTS
  SubstantiveResultSurvives
  CommandCleansUp
  OneUseLeavesCooked
  UndoneOnce
PROPERTIES
  CompletionIsAuthoritative
CHECK_DEADLOCK FALSE
