SPECIFICATION Spec
CONSTANTS
  Tenant = {t1, t2}
  Run = {r1, r2}
  NoTenant = NoTenant
  Client = {c1}
  MaxSources = 2
  MaxFiles = 2
INVARIANTS
  TypeOK
  OneJobPerTenant
  CountsAgree
  StreamsAreCurrent
  PauseIsHonoured
PROPERTIES
  StopsOnlyIfAsked
  JobEnds
