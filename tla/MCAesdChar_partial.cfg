CONSTANTS
  MaxOps = 1
  IntBits = 8
  NULL = NULL
  NONE = NONE
  Threads = {t1, t2}
  Blocks = {b1, b2, b3, b4, b5}
  Byte = {"a", "nl"}
  Newline = "nl"
  Payloads <- PartialAndFull
  Seeks <- Rewind
  Commands = {}
  MaxPos = 1
  AllocMayFail = FALSE
  UserMayFault = FALSE
  Signals = TRUE
SPECIFICATION Spec
INVARIANTS
  OneOwner
  SizesMatch
PROPERTY DeviceSpec
SYMMETRY ThreadSymmetry
