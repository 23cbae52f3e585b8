SPECIFICATION Spec
CONSTANTS
  Keys <- MCKeys
  Newlines <- MCNewlines
  Contents <- MCContents
  MaxSeqLen = 6
  MaxPaste = 3
  MaxGestures = 2
INVARIANTS
  DecodedAsMeant
CHECK_DEADLOCK FALSE
