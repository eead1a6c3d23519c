SPECIFICATION FairSpec
CONSTANTS
  Archive = 3
  OutCap = 1
  Lines = 3
  ErrCap = 1
  KeepLimit = 1
INVARIANTS
  TypeOK
  NothingLeftBehind
PROPERTIES
  RunEnds
  ImplementsJob
