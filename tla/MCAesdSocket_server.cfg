CONSTANTS
  Conns = {c1, c2}
  MAIN = MAIN
  HEAD = HEAD
  NONE = NONE
  MaxSends = 1
  ResourcesMayFail = TRUE
  BrokenPipes = TRUE
SPECIFICATION FairSpec
INVARIANTS
  TypeOK
  ThreadsUseLiveEntries
  JoinNeverWaitsForLock
  ExitLeavesNoThread
  NothingLost
  QueueIsConsistent
PROPERTIES
  ThreadsReaped
  ShutdownCompletes
