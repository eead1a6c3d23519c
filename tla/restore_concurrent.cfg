SPECIFICATION Spec
CONSTANTS
  Requests = {r1, r2}
  OneShots = {c1, c2}
  Sets = {s1, s2}
  Live = Live
  Torn = Torn
  None = None
  CarefulOperator = TRUE
SYMMETRY Symmetry
INVARIANTS
  TypeOK
  OneLongOp
  DbNeverBesideRestore
  OneRestoreContainer
PROPERTIES
  DoneMeansRestored
  OnlyRestoredDbStarted
  VolumeLockSpec
