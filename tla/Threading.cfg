CONSTANTS
  Threads = {t1, t2, t3}
  NONE = NONE
SPECIFICATION FairSpec
INVARIANTS
  MutexIsHeldByOne
  SuccessIsTruthful
  ParmsHaveOneOwner
PROPERTY ThreadsEnd
