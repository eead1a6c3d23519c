SPECIFICATION FairSpec
CONSTANTS
  MaxRuns = 1
  Posts = {p1}
  None = None
  NoStanza = NoStanza
INVARIANTS
  TypeOK
  AnnouncedOnce
  ListCatchesUp
PROPERTIES
  CardSettles
