SPECIFICATION Spec
CONSTANTS
  Sync = {worker, api}
  Worker = {worker}
  Connect = {c1, c2}
  MaxToken = 2
  MaxCrash = 1
CHECK_DEADLOCK FALSE
INVARIANTS
  TypeOK
  NeedsReauthIsEarned
PROPERTIES
  RevocationIsNoticed
  RefusalIsAnnounced
