CONSTANTS
  MaxOps = 3
  IntBits = 4
  NULL = NULL
  Ptrs = {p1, p2}
  Sizes = {1, 8}
  MaxTotal = 26
SPECIFICATION Spec
INVARIANTS
  TypeOK
  WindowIsTail
  CbSizeExact
  FindCorrect
  SeekCorrect
  CleanupFreesWindow
PROPERTY LogSpec
CHECK_DEADLOCK FALSE
