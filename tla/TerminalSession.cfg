SPECIFICATION Spec
CONSTANTS
  Wide = {"w"}
  LabelColumns = 4
  Words <- MCWords
  MinWords = 1
  MaxWords = 2
  Limit <- MCLimit
  Scenarios <- MCScenarios
INVARIANTS
  LinesAsTyped
  FewKeysAfterCancel
  PagesAreRead
  ScrollbackIsAnnounced
PROPERTIES
  ImplementsEntry
  EndsWhenCanceled
CHECK_DEADLOCK FALSE
