SPECIFICATION Spec
CONSTANTS
  Runs = {m1}
  Scheduler = Scheduler
  FirstScheduled = 2
  LastName = 4
  ClientNames = {1, 4}
  Retain = 1
  PageSize = 1
  MaxUploads = 3
INVARIANT TypeOK
PROPERTIES
  RetentionKeepsNewest
  PruneCatchesUp
  OkMeansStored
  
CHECK_DEADLOCK FALSE
