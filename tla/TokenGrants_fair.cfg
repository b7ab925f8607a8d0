SPECIFICATION FairSpec
CONSTANTS
  Session = {s1}
  Code = {k1}
  AToken = {t1, t2}
  RToken = {x1, x2}
  Client = {c1}
  u1 = u1
  n1 = n1
  User <- OneUser
  Tenant <- OneTenant
  Scope = {openid}
  OpenId = openid
  Owner <- OwnerU1
  UserTenant <- UserN1
  ClientTenant <- ClientN1
  RefreshClient = {c1}
  Request = {r1, r2}
  Admin = {a1}
  MayExpire = {}
  MaxFaults = 0
  None = None
INVARIANT HandlersNeverWait
PROPERTIES
  RequestsAreAnswered
  ReplayRevokesTheTokens
  IncidentsRevokeTheTokens
