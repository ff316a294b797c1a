CONSTANTS
  MaxOps = 2
  IntBits = 8
  NULL = NULL
  NONE = NONE
  Threads = {t1, t2}
  Blocks = {b1, b2, b3, b4, b5, b6}
  Byte = {"a", "nl"}
  Newline = "nl"
  Payloads <- Packets
  Seeks <- RewindAndEnd
  Commands <- OneCommand
  MaxPos = 2
  AllocMayFail = FALSE
  UserMayFault = FALSE
  Signals = TRUE
SPECIFICATION Spec
INVARIANT PrintsLiveMemory
SYMMETRY ThreadSymmetry
