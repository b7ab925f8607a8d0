SPECIFICATION Spec
CONSTANTS
  Session = {s1}
  Code = {k1}
  AToken = {t1, t2, t3}
  RToken = {x1, x2, x3}
  Client = {c1}
  u1 = u1
  n1 = n1
  User <- OneUser
  Tenant <- OneTenant
  Scope = {openid}
  OpenId = openid
  Owner <- OwnerU1
  UserTenant <- UserN1
  ClientTenant <- ClientN1
  RefreshClient = {c1}
  Request = {r1, r2}
  Admin = {a1}
  MayExpire = {k1}
  MaxFaults = 1
  None = None
SYMMETRY Symmetric
INVARIANTS
  TypeOK
  TokensComeFromSpentGrants
  RefreshTokensArePaired
  RedeemedOncePerRequest
  RotationRetiresThePair
PROPERTIES
  OnlyRacesRedeemTwice
  ReuseClosesTheChain
  ClosedGrantsMintNothing
  RevokedSessionsDoNotRotate
  DeadSessionsStayDead
