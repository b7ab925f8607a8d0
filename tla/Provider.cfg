SPECIFICATION ProviderSpec
CONSTANTS
  Kid = {i1, i2}
  KeyAdmin = {a1}
  Deactivator = {}
  Main = main
  MaxFaults = 1
  MaxKeyFaults = 1
  None = None
  Session = {s1}
  Code = {k1}
  AToken = {t1, t2}
  RToken = {x1, x2}
  u1 = u1
  n1 = n1
  c1 = c1
  Client <- OneClient
  User <- OneUser
  Tenant <- OneTenant
  Scope = {openid}
  OpenId = openid
  Owner <- OwnerU1
  UserTenant <- UserN1
  ClientTenant <- ClientN1
  RefreshClient <- OneClient
  Request = {r1}
  MayExpire = {t1, t2}
  Admin = {}
  Userinfo = {q1}
  Revoker = {q2}
SYMMETRY Symmetric
INVARIANT ProviderTypeOK
PROPERTIES
  GrantsBehave
  KeysBehave
  RefusalIsFinal
  RevocationsAreHonoured
\* The keys of every table and the faults run out, not the code.
CHECK_DEADLOCK FALSE
