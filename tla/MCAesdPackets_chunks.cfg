CONSTANTS
  Conns = {c1, c2}
  MAX_BUF_SIZE = 2
  Capacity = 2
  Newline = "nl"
  NUL = "nul"
  Command = "cmd"
  Mangled = "mangled"
  seekto <- SecondPacket
  Streams <- OnePacket
  Junk = {"a", "nl"}
  Failing = {}
SPECIFICATION Spec
INVARIANT ChunksFit
SYMMETRY ConnSymmetry
