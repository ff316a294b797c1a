CONSTANTS
  MaxCalls = 2
  Codes = {0, 1, 127}
  Signals = {9}
SPECIFICATION FairSpec
INVARIANTS
  TypeOK
  ResultIsTruthful
  CommandSeesOneFile
  FileIsClosed
PROPERTY CallsComplete
