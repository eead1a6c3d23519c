SPECIFICATION FairSpec
CONSTANTS
  Rows = {r1}
  Secrets = {"ADMIN_TOKEN", "JWT_SECRET"}
  MaxGen = 1
  Slots = {s1, s2}
  None = None
  Tours = {"backups", "sessions", "keys", "dbops"}
INVARIANTS
  TypeOK
  ListCatchesUp
  KeysCurrent
PROPERTIES
  SessionGone
  EndsAtLogin
