SPECIFICATION Spec
CONSTANTS
  User = {u1, u2}
  Tenant = {t1, t2}
  MaxBusy = 2
  None = None
  Invite = {i1}
  Login = {l1, l2}
  Accept = {a1, a2}
  Removal = {m1, m2}
SYMMETRY Symmetry
CHECK_DEADLOCK FALSE
INVARIANTS
  TypeOK
  HomeHasRole
  AcceptedIsMember
PROPERTIES
  RemovalLeavesAnAdmin
