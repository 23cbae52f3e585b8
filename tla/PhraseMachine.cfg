SPECIFICATION Spec
CONSTANTS
  Words <- MCWords
  Letters = {"a", "b", "c", "z"}
  MinWords = 2
  MaxWords = 3
  Pastes <- MCPastes
INVARIANTS
  PhraseAlwaysValid
  CandCountIsExact
PROPERTIES
  ImplementsEntry
  KeysKeepCandidates
CHECK_DEADLOCK FALSE
