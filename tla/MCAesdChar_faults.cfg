CONSTANTS
  MaxOps = 1
  IntBits = 8
  NULL = NULL
  NONE = NONE
  Threads = {t1, t2}
  Blocks = {b1, b2, b3, b4}
  Byte = {"a", "nl"}
  Newline = "nl"
  Payloads <- OneByte
  Seeks <- Rewind
  Commands <- OneCommand
  MaxPos = 0
  AllocMayFail = TRUE
  UserMayFault = TRUE
  Signals = TRUE
SPECIFICATION FairSpec
INVARIANTS
  OwnedIsAllocated
PROPERTY CallsReturn
