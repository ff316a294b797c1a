CONSTANTS
  Conns = {c1, c2}
  MAX_BUF_SIZE = 3
  Capacity = 2
  Newline = "nl"
  NUL = "nul"
  Command = "cmd"
  Mangled = "mangled"
  seekto <- SecondPacket
  Streams <- TwoLines
  Junk = {"nl"}
  Failing = {c1}
SPECIFICATION FairSpec
INVARIANTS
  TypeOK
  AnswersAreContents
PROPERTIES
  AnswersAreComplete
  StoredAsSent
  ThreadsComeToRest
