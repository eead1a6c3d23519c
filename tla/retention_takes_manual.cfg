SPECIFICATION Spec
CONSTANTS
  Runs = {m1}
  Scheduler = Scheduler
  FirstScheduled = 1
  LastName = 2
  ClientNames = {2}
  Retain = 1
  PageSize = 2
  MaxUploads = 2
PROPERTY ManualUntouched
CHECK_DEADLOCK FALSE
