SPECIFICATION FairSpec
CONSTANTS
  Requests = {r1, r2}
  Archive = 3
  InCap = 1
  Lines = 2
  ErrCap = 1
INVARIANTS
  TypeOK
  OneAtATime
  OkMeansRestored
PROPERTY RestoreEnds
