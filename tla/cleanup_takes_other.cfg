SPECIFICATION Spec
CONSTANTS
  Runs = {m1}
  Scheduler = Scheduler
  FirstScheduled = 2
  LastName = 2
  ClientNames = {1}
  Retain = 1
  PageSize = 1
  MaxUploads = 2
PROPERTY CleanUpTakesOwn
CHECK_DEADLOCK FALSE
