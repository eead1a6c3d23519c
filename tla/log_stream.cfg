SPECIFICATION FairSpec
CONSTANTS
  Services = {"gotrue", "db"}
  DefaultService = "gotrue"
  Tails = {1}
  DefaultTail = 1
  Conns = {c1, c2}
  MaxLog <- MCMaxLog
  LogsOfGotrue = 3
  LogsOfDb = 0
  Cap = 1
  MAX_LINES = 2
  None = None
INVARIANTS
  TypeOK
  LinesInOrder
PROPERTIES
  NoOrphans
