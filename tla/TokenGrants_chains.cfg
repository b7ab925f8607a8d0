SPECIFICATION Spec
CONSTANTS
  Session = {s1, s2}
  Code = {k1, k2}
  AToken = {t1, t2, t3}
  RToken = {x1, x2, x3}
  Client = {c1, c2, c3}
  u1 = u1
  n1 = n1
  User <- OneUser
  Tenant <- OneTenant
  Scope = {openid}
  OpenId = openid
  Owner <- OwnerU1
  UserTenant <- UserN1
  ClientTenant <- ClientN1
  RefreshClient = {c1, c2}
  Request = {r1}
  Admin = {}
  MayExpire = {s1}
  MaxFaults = 1
  None = None
SYMMETRY Symmetric
INVARIANTS
  ChainsStayInTheirSession
PROPERTIES
  ReuseClosesTheChain
