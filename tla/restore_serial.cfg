SPECIFICATION FairSpec
CONSTANTS
  Requests = {r1}
  OneShots = {c1, c2}
  Sets = {s1, s2}
  Live = Live
  Torn = Torn
  None = None
  CarefulOperator = TRUE
PROPERTIES
  RestoreGetsVerdict
  SlotsAreFreed
